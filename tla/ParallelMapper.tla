--------------------------- MODULE ParallelMapper ---------------------------
(***************************************************************************)
(* ParallelMapperImpl: a fixed set of worker threads that share one task   *)
(* queue (functionQueue, a LinkedList used as a monitor), the threads that *)
(* call map(), and the thread that calls close().                          *)
(*                                                                         *)
(* The body of a synchronized block is one step up to the wait() in it.    *)
(* A thread in a wait set ("waiting") leaves it by a notify (it is then    *)
(* "woken" and has to get the monitor again), by a spurious wakeup, or     *)
(* with an InterruptedException when its interrupt flag is set.            *)
(***************************************************************************)
EXTENDS Integers, Sequences, FiniteSets

CONSTANTS
    Threads,            \* the constructor's argument: number of workers
    Clients,            \* the calls of map(), one thread each
    Args,               \* Args[c]: args.size() of call c
    Throwing,           \* the tasks <<c, i>> whose f may throw
    Interruptible,      \* the calls whose thread somebody may interrupt
    MaxCloses,          \* bound: how often close() is called
    MaxCloserInterrupts,\* bound: how often the closing thread is interrupted
    NoTask              \* the value of func of a worker that holds no task

Workers == 0..(Threads - 1)
Indices(c) == 1..Args[c]
Tasks == UNION {{c} \X Indices(c) : c \in Clients}

ASSUME ThreadsAssumption == Threads \in Nat
ASSUME ArgsAssumption == Args \in [Clients -> Nat]
ASSUME BoundsAssumption == MaxCloses \in Nat /\ MaxCloserInterrupts \in Nat
ASSUME NoTaskAssumption == NoTask \notin Tasks

VARIABLES
    functionQueue,  \* Queue<MyFunction<?>>, in order
    aClose,         \* the plain (neither volatile nor guarded) int field
    aCloseValues,   \* every value aClose has had: what a racy read may return
    wpc,            \* where each worker is
    func,           \* the worker's local variable func
    interrupted,    \* the worker's interrupt flag
    cpc,            \* where each call of map() is
    cint,           \* the interrupt flag of the calling thread
    results,        \* resultList: the positions that were set
    cnt,            \* ResultCollector.cnt
    kpc,            \* where close() is
    kvisit,         \* the next element of threadStream to look at
    threadList,     \* close()'s threadList, less the threads joined already
    kint,           \* the closing thread's interrupt flag
    kinterrupt,     \* close()'s local variable interrupt
    closes,         \* calls of close() so far
    kinterrupts     \* interrupts of the closing thread so far

queueVars  == <<functionQueue, func, wpc>>
flagVars   == <<aClose, aCloseValues>>
clientVars == <<cpc, cint, results, cnt>>
closeVars  == <<kpc, kvisit, threadList, kint, kinterrupt, closes, kinterrupts>>
vars == <<functionQueue, aClose, aCloseValues, wpc, func, interrupted,
          cpc, cint, results, cnt,
          kpc, kvisit, threadList, kint, kinterrupt, closes, kinterrupts>>

WorkerStates == {"top", "waiting", "woken", "taken", "run", "accept", "exit", "dead"}
CallStates == {"start", "add", "loop", "waiting", "returned", "thrown", "rejected"}
Holding == {"taken", "run", "accept"}

InitialAClose == Threads

Init ==
    /\ functionQueue = <<>>
    /\ aClose = InitialAClose
    /\ aCloseValues = {InitialAClose}
    /\ wpc = [w \in Workers |-> "top"]
    /\ func = [w \in Workers |-> NoTask]
    /\ interrupted = [w \in Workers |-> FALSE]
    /\ cpc = [c \in Clients |-> "start"]
    /\ cint = [c \in Clients |-> FALSE]
    /\ results = [c \in Clients |-> {}]
    /\ cnt = [c \in Clients |-> 0]
    /\ kpc = "idle"
    /\ kvisit = 0
    /\ threadList = {}
    /\ kint = FALSE
    /\ kinterrupt = FALSE
    /\ closes = 0
    /\ kinterrupts = 0

-----------------------------------------------------------------------------
(* functionQueue.notify() and notifyAll(), on the workers' positions.      *)

Waiters(pc) == {w \in Workers : pc[w] = "waiting"}

NotifyOne(pc) ==
    IF Waiters(pc) = {} THEN {pc}
    ELSE {[pc EXCEPT ![w] = "woken"] : w \in Waiters(pc)}

NotifyAll(pc) ==
    [w \in Workers |-> IF pc[w] = "waiting" THEN "woken" ELSE pc[w]]

Moved(w, state) == [wpc EXCEPT ![w] = state]

-----------------------------------------------------------------------------
(* A worker: lines 67-99.                                                  *)

\* Mutant of Take: line 85, the second notify(), is missing.
TakeSilently(w) ==
    /\ functionQueue # <<>>
    /\ functionQueue' = Tail(functionQueue)
    /\ func' = [func EXCEPT ![w] = Head(functionQueue)]
    /\ wpc' = Moved(w, "taken")
    /\ UNCHANGED interrupted

\* Mutant of Take: peek() in place of remove().
TakeByPeek(w) ==
    /\ functionQueue # <<>>
    /\ func' = [func EXCEPT ![w] = Head(functionQueue)]
    /\ wpc' \in NotifyOne(Moved(w, "taken"))
    /\ UNCHANGED <<functionQueue, interrupted>>

\* func = functionQueue.remove(); functionQueue.notify()
Take(w) ==
    /\ functionQueue # <<>>
    /\ functionQueue' = Tail(functionQueue)
    /\ func' = [func EXCEPT ![w] = Head(functionQueue)]
    /\ wpc' \in NotifyOne(Moved(w, "taken"))
    /\ UNCHANGED interrupted

Await(w) ==
    /\ functionQueue = <<>>
    /\ wpc' = Moved(w, "waiting")
    /\ UNCHANGED <<functionQueue, func, interrupted>>

\* Interrupted before the monitor was entered: the thread ends.
LeaveAtTop(w) ==
    /\ interrupted[w]
    /\ wpc' = Moved(w, "dead")
    /\ UNCHANGED <<functionQueue, func, interrupted>>

Enter(w) ==
    /\ wpc[w] = "top"
    /\ \/ LeaveAtTop(w)
       \/ ~interrupted[w] /\ (Take(w) \/ Await(w))
    /\ UNCHANGED <<flagVars, clientVars, closeVars>>

\* Mutant of LeaveWoken: line 80 is missing.
LeaveWokenSilently(w) ==
    /\ interrupted[w]
    /\ wpc' = Moved(w, "dead")
    /\ UNCHANGED <<functionQueue, func, interrupted>>

\* A notified thread that finds itself interrupted passes the notification on.
LeaveWoken(w) ==
    /\ interrupted[w]
    /\ wpc' \in NotifyOne(Moved(w, "dead"))
    /\ UNCHANGED <<functionQueue, func, interrupted>>

Resume(w) ==
    /\ wpc[w] = "woken"
    /\ \/ LeaveWoken(w)
       \/ ~interrupted[w] /\ (Take(w) \/ Await(w))
    /\ UNCHANGED <<flagVars, clientVars, closeVars>>

\* Mutant of WaitInterrupted: the exception is caught inside the loop.
WaitAgain(w) ==
    /\ wpc[w] = "waiting"
    /\ interrupted[w]
    /\ interrupted' = [interrupted EXCEPT ![w] = FALSE]
    /\ wpc' = Moved(w, "top")
    /\ UNCHANGED <<functionQueue, func, flagVars, clientVars, closeVars>>

\* wait() throws InterruptedException and clears the flag.
WaitInterrupted(w) ==
    /\ wpc[w] = "waiting"
    /\ interrupted[w]
    /\ interrupted' = [interrupted EXCEPT ![w] = FALSE]
    /\ wpc' = Moved(w, "exit")
    /\ UNCHANGED <<functionQueue, func, flagVars, clientVars, closeVars>>

\* The check between the monitor and run(): an interrupted worker ends and
\* the task it took is dropped.
Checked(w) ==
    /\ wpc[w] = "taken"
    /\ \/ /\ interrupted[w]
          /\ wpc' = Moved(w, "dead")
          /\ func' = [func EXCEPT ![w] = NoTask]
       \/ /\ ~interrupted[w]
          /\ wpc' = Moved(w, "run")
          /\ UNCHANGED func
    /\ UNCHANGED <<functionQueue, interrupted, flagVars, clientVars, closeVars>>

\* Mutant of Throws: the worker keeps the task it failed to run.
ThrowsAndKeeps(w) ==
    /\ func[w] \in Throwing
    /\ wpc' = Moved(w, "top")
    /\ UNCHANGED <<func, interrupted>>

\* f throws an Exception: caught and ignored, the worker goes on.
Throws(w) ==
    /\ func[w] \in Throwing
    /\ wpc' = Moved(w, "top")
    /\ func' = [func EXCEPT ![w] = NoTask]
    /\ UNCHANGED interrupted

\* f throws an Error: line 93 does not catch it. The thread ends without
\* --aClose, and nobody is notified.
Dies(w) ==
    /\ func[w] \in Throwing
    /\ wpc' = Moved(w, "dead")
    /\ func' = [func EXCEPT ![w] = NoTask]
    /\ UNCHANGED interrupted

\* Thread.interrupted() clears the flag, and the InterruptedException it
\* makes run() throw ends in the same catch (Exception ignored).
Swallows(w) ==
    /\ interrupted[w]
    /\ interrupted' = [interrupted EXCEPT ![w] = FALSE]
    /\ wpc' = Moved(w, "top")
    /\ func' = [func EXCEPT ![w] = NoTask]

Computes(w) ==
    /\ ~interrupted[w]
    /\ wpc' = Moved(w, "accept")
    /\ UNCHANGED <<func, interrupted>>

Run(w) ==
    /\ wpc[w] = "run"
    /\ Throws(w) \/ Dies(w) \/ Swallows(w) \/ Computes(w)
    /\ UNCHANGED <<functionQueue, flagVars, clientVars, closeVars>>

\* Mutant of Filled: off by one.
AlmostFilled(c, n) == n >= Args[c] - 1

\* ResultCollector.set: the call is woken by the value that fills its list.
\* The caller is the only thread that ever waits for its collector.
Filled(c, n) == n = Args[c]

\* Mutant of Accept: line 39, the notify(), is missing.
AcceptSilently(w) ==
    /\ wpc[w] = "accept"
    /\ results' = [results EXCEPT ![func[w][1]] = @ \cup {func[w][2]}]
    /\ cnt' = [cnt EXCEPT ![func[w][1]] = @ + 1]
    /\ wpc' = Moved(w, "top")
    /\ func' = [func EXCEPT ![w] = NoTask]
    /\ UNCHANGED <<functionQueue, interrupted, flagVars, cpc, cint, closeVars>>

Accept(w) ==
    /\ wpc[w] = "accept"
    /\ LET c == func[w][1]
           i == func[w][2]
       IN  /\ results' = [results EXCEPT ![c] = @ \cup {i}]
           /\ cnt' = [cnt EXCEPT ![c] = @ + 1]
           /\ cpc' = IF Filled(c, cnt[c] + 1) /\ cpc[c] = "waiting"
                     THEN [cpc EXCEPT ![c] = "loop"]
                     ELSE cpc
    /\ wpc' = Moved(w, "top")
    /\ func' = [func EXCEPT ![w] = NoTask]
    /\ UNCHANGED <<functionQueue, interrupted, flagVars, cint, closeVars>>

\* --aClose without synchronization: a read and a write, and other workers
\* may write in between. The interrupt that brought the worker here orders
\* close()'s aClose = 0 before the read.
Exit(w) ==
    /\ wpc[w] = "exit"
    /\ \E seen \in {v \in aCloseValues : v <= 0} :
        /\ aClose' = seen - 1
        /\ aCloseValues' = aCloseValues \cup {seen - 1}
    /\ wpc' = Moved(w, "dead")
    /\ UNCHANGED <<functionQueue, func, interrupted, clientVars, closeVars>>

SpuriousWakeup(w) ==
    /\ wpc[w] = "waiting"
    /\ wpc' = Moved(w, "woken")
    /\ UNCHANGED <<functionQueue, func, interrupted, flagVars, clientVars, closeVars>>

WorkerStep(w) ==
    \/ Enter(w) \/ Resume(w) \/ WaitInterrupted(w) \/ Checked(w)
    \/ Run(w) \/ Accept(w) \/ Exit(w)

-----------------------------------------------------------------------------
(* A call of map(): lines 111-139.                                         *)

\* The test of aClose reads the field without synchronization.
Start(c) ==
    /\ cpc[c] = "start"
    /\ \E seen \in aCloseValues :
        cpc' = [cpc EXCEPT ![c] = IF seen <= 0 THEN "rejected" ELSE "add"]
    /\ UNCHANGED <<queueVars, interrupted, flagVars, cint, results, cnt, closeVars>>

TasksOf(c) == [i \in Indices(c) |-> <<c, i>>]

Add(c) ==
    /\ cpc[c] = "add"
    /\ functionQueue' = functionQueue \o TasksOf(c)
    /\ wpc' \in NotifyOne(wpc)
    /\ cpc' = [cpc EXCEPT ![c] = "loop"]
    /\ UNCHANGED <<func, interrupted, flagVars, cint, results, cnt, closeVars>>

\* while (!isFull() && aClose >= 0) { if interrupted, throw; wait(); }
Loop(c) ==
    /\ cpc[c] = "loop"
    /\ \E seen \in aCloseValues :
        \/ /\ Filled(c, cnt[c]) \/ seen < 0
           /\ cpc' = [cpc EXCEPT ![c] = "returned"]
        \/ /\ ~Filled(c, cnt[c]) /\ seen >= 0
           /\ cpc' = [cpc EXCEPT ![c] = IF cint[c] THEN "thrown" ELSE "waiting"]
    /\ UNCHANGED <<queueVars, interrupted, flagVars, cint, results, cnt, closeVars>>

CallInterrupted(c) ==
    /\ cpc[c] = "waiting"
    /\ cint[c]
    /\ cint' = [cint EXCEPT ![c] = FALSE]
    /\ cpc' = [cpc EXCEPT ![c] = "thrown"]
    /\ UNCHANGED <<queueVars, interrupted, flagVars, results, cnt, closeVars>>

SpuriousReturn(c) ==
    /\ cpc[c] = "waiting"
    /\ cpc' = [cpc EXCEPT ![c] = "loop"]
    /\ UNCHANGED <<queueVars, interrupted, flagVars, cint, results, cnt, closeVars>>

\* Somebody interrupts the thread that is in map().
InterruptCall(c) ==
    /\ c \in Interruptible
    /\ cpc[c] \in {"start", "add", "loop", "waiting"}
    /\ cint' = [cint EXCEPT ![c] = TRUE]
    /\ UNCHANGED <<queueVars, interrupted, flagVars, cpc, results, cnt, closeVars>>

CallStep(c) == Start(c) \/ Add(c) \/ Loop(c) \/ CallInterrupted(c)

-----------------------------------------------------------------------------
(* close(): lines 145-166. It is synchronized, so that calls come one      *)
(* after the other.                                                        *)

Close ==
    /\ kpc = "idle"
    /\ closes < MaxCloses
    /\ closes' = closes + 1
    /\ aClose' = 0
    /\ aCloseValues' = aCloseValues \cup {0}
    /\ kinterrupt' = kint
    /\ kint' = FALSE
    /\ kpc' = "visit"
    /\ kvisit' = 0
    /\ threadList' = {}
    /\ UNCHANGED <<queueVars, interrupted, clientVars, kinterrupts>>

\* filter(Thread::isAlive).peek(Thread::interrupt), one thread after the other
Visit ==
    /\ kpc = "visit"
    /\ kvisit \in Workers
    /\ kvisit' = kvisit + 1
    /\ IF wpc[kvisit] # "dead"
       THEN /\ interrupted' = [interrupted EXCEPT ![kvisit] = TRUE]
            /\ threadList' = threadList \cup {kvisit}
       ELSE UNCHANGED <<interrupted, threadList>>
    /\ UNCHANGED <<queueVars, flagVars, clientVars, kpc, kint, kinterrupt, closes, kinterrupts>>

WakeAll ==
    /\ kpc = "visit"
    /\ kvisit \notin Workers
    /\ wpc' = NotifyAll(wpc)
    /\ kpc' = "join"
    /\ UNCHANGED <<functionQueue, func, interrupted, flagVars, clientVars,
                   kvisit, threadList, kint, kinterrupt, closes, kinterrupts>>

\* The thread whose end close() is waiting for.
Joining(w) == w \in threadList /\ \A v \in threadList : w <= v

Join(w) ==
    /\ kpc = "join"
    /\ Joining(w)
    /\ wpc[w] = "dead"
    /\ threadList' = threadList \ {w}
    /\ UNCHANGED <<queueVars, interrupted, flagVars, clientVars,
                   kpc, kvisit, kint, kinterrupt, closes, kinterrupts>>

\* Mutant of JoinInterrupted: line 154, the loop around join(), is missing.
JoinOnce(w) ==
    /\ kpc = "join"
    /\ Joining(w)
    /\ wpc[w] # "dead"
    /\ kint
    /\ kint' = FALSE
    /\ kinterrupt' = TRUE
    /\ interrupted' = [interrupted EXCEPT ![w] = TRUE]
    /\ threadList' = threadList \ {w}
    /\ UNCHANGED <<queueVars, flagVars, clientVars, kpc, kvisit, closes, kinterrupts>>

\* join() throws InterruptedException: remember it, interrupt the worker again.
JoinInterrupted(w) ==
    /\ kpc = "join"
    /\ Joining(w)
    /\ wpc[w] # "dead"
    /\ kint
    /\ kint' = FALSE
    /\ kinterrupt' = TRUE
    /\ interrupted' = [interrupted EXCEPT ![w] = TRUE]
    /\ UNCHANGED <<queueVars, flagVars, clientVars,
                   kpc, kvisit, threadList, closes, kinterrupts>>

CloseReturns ==
    /\ kpc = "join"
    /\ threadList = {}
    /\ kpc' = "idle"
    /\ kint' = (kint \/ kinterrupt)
    /\ UNCHANGED <<queueVars, interrupted, flagVars, clientVars,
                   kvisit, threadList, kinterrupt, closes, kinterrupts>>

\* Somebody interrupts the thread that calls close().
InterruptCloser ==
    /\ kinterrupts < MaxCloserInterrupts
    /\ kinterrupts' = kinterrupts + 1
    /\ kint' = TRUE
    /\ UNCHANGED <<queueVars, interrupted, flagVars, clientVars,
                   kpc, kvisit, threadList, kinterrupt, closes>>

CloserStep ==
    \/ Visit \/ WakeAll \/ CloseReturns
    \/ \E w \in Workers : Join(w) \/ JoinInterrupted(w)

-----------------------------------------------------------------------------
Next ==
    \/ \E w \in Workers : WorkerStep(w) \/ SpuriousWakeup(w)
    \/ \E c \in Clients : CallStep(c) \/ SpuriousReturn(c) \/ InterruptCall(c)
    \/ Close \/ CloserStep \/ InterruptCloser

Spec == Init /\ [][Next]_vars

\* Every thread that can run is eventually scheduled, and f terminates.
\* Nobody has to call close(), interrupt anything or wake up spuriously.
Fairness ==
    /\ \A w \in Workers : WF_vars(WorkerStep(w))
    /\ \A c \in Clients : WF_vars(CallStep(c))
    /\ WF_vars(CloserStep)

FairSpec == Spec /\ Fairness

-----------------------------------------------------------------------------
(* Properties.                                                             *)

\* Every variable has its type; a worker has a task exactly while it is
\* between remove() and the end of run().
TypeOK ==
    /\ functionQueue \in Seq(Tasks)
    /\ aClose \in Int
    /\ aCloseValues \in SUBSET Int
    /\ wpc \in [Workers -> WorkerStates]
    /\ func \in [Workers -> Tasks \cup {NoTask}]
    /\ \A w \in Workers : func[w] # NoTask <=> wpc[w] \in Holding
    /\ interrupted \in [Workers -> BOOLEAN]
    /\ cpc \in [Clients -> CallStates]
    /\ cint \in [Clients -> BOOLEAN]
    /\ results \in [Clients -> SUBSET Nat]
    /\ cnt \in [Clients -> Nat]
    /\ kpc \in {"idle", "visit", "join"}
    /\ kvisit \in 0..Threads
    /\ threadList \in SUBSET Workers
    /\ kint \in BOOLEAN
    /\ kinterrupt \in BOOLEAN
    /\ closes \in 0..MaxCloses
    /\ kinterrupts \in 0..MaxCloserInterrupts

\* The single notify() per event is enough: while there are tasks and a
\* worker sleeps, some worker that was notified has yet to look at the queue
\* (and will pass the notification on, lines 80 and 85).
WakeupInFlight ==
    functionQueue # <<>> /\ Waiters(wpc) # {}
        => \E w \in Workers : wpc[w] = "woken"

Queued == {functionQueue[k] : k \in 1..Len(functionQueue)}
Held == {func[w] : w \in Workers} \ {NoTask}
Done == UNION {{c} \X results[c] : c \in Clients}
Submitted(c) == cpc[c] \notin {"start", "add", "rejected"}

\* A task is in one place only: queued once, or held by one worker, or done.
\* So f is applied at most once to each argument and cnt counts every
\* position of the list once.
OnePlace ==
    /\ \A j, k \in 1..Len(functionQueue) :
        functionQueue[j] = functionQueue[k] => j = k
    /\ \A v, w \in Workers : func[v] = func[w] /\ func[v] # NoTask => v = w
    /\ Queued \cap Held = {}
    /\ Queued \cap Done = {}
    /\ Held \cap Done = {}
    /\ \A c \in Clients : cnt[c] = Cardinality(results[c])

\* map() returns a list without holes, unless the mapper was closed.
ResultComplete ==
    \A c \in Clients :
        cpc[c] = "returned" => results[c] = Indices(c) \/ closes > 0

\* A mapper that nobody closed accepts every call.
RejectedOnlyIfClosed ==
    Threads > 0 => \A c \in Clients : cpc[c] = "rejected" => closes > 0

\* When close() has returned all the threads of the mapper have ended.
ClosedMeansDead ==
    closes > 0 /\ kpc = "idle" => \A w \in Workers : wpc[w] = "dead"

\* map() returns if nobody closes the mapper and a worker is left: a call none
\* of whose tasks can throw ends, whatever Exceptions the tasks of the other
\* calls throw, and whatever Errors, as long as these do not end every thread.
\* Without the latter it does not: see Dies, after which aClose still lets
\* map() in (line 113).
MapReturns ==
    [](closes = 0 /\ \E w \in Workers : wpc[w] # "dead") =>
        \A c \in Clients :
            (\A i \in Indices(c) : <<c, i>> \notin Throwing) =>
                cpc[c] = "start" ~> cpc[c] \in {"returned", "thrown", "rejected"}

\* "Stops all threads." (ParallelMapperImpl.java:142): a call of close()
\* ends. It does not: see Swallows.
CloseStopsWorkers == kpc = "visit" ~> kpc = "idle"

\* close() ends, provided no worker is interrupted while it is inside f.
CloseStopsIdleWorkers ==
    [](\A w \in Workers : ~(wpc[w] = "run" /\ interrupted[w]))
        => (kpc = "visit" ~> kpc = "idle")

-----------------------------------------------------------------------------
(* The mapper keeps the promise of MapperPromise.                          *)

CallStatus(c) ==
    CASE cpc[c] \in {"start", "add"} -> "new"
      [] cpc[c] \in {"loop", "waiting"} -> "pending"
      [] cpc[c] = "returned" -> "answered"
      [] cpc[c] = "thrown" -> "failed"
      [] cpc[c] = "rejected" -> "refused"

Promise == INSTANCE MapperPromise WITH
    status <- [c \in Clients |-> CallStatus(c)],
    computed <- results,
    open <- (closes = 0)

\* Every step of the threads is a step of the abstract mapper, or none.
ImplementsPromise == Promise!PSpec
=============================================================================
