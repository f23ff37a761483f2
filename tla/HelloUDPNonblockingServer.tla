---------------------- MODULE HelloUDPNonblockingServer ----------------------
(***************************************************************************)
(* One object of class HelloUDPNonblockingServer and a program that calls  *)
(* its start() and close() in any order. start() makes an executor with    *)
(* one thread, which runs execute(): loop n is the one of the n-th start().*)
(***************************************************************************)
EXTENDS ConnectedNetwork

CONSTANTS
    Fits,           \* so many texts fit into an answer that can be sent
    MaxStarts,      \* bound: calls of start() that find the flag unset
    MaxCloses       \* bound: calls of close()

ASSUME NonblockingAssumption == Fits \in Nat /\ MaxStarts \in Nat /\ MaxCloses \in Nat

Loops == 1..MaxStarts

VARIABLES
    startFlag, isClose,
    buffer,         \* the texts that byteBuffer holds
    executor,       \* the loop of executorService; 0 if it is null
    lpc,            \* where each loop is
    opc,            \* where the caller of start() and close() is
    starts, closes, \* numbers of calls
    running,        \* history: start() has returned, and close() was not called since
    regular,        \* history: see Regular below
    answered        \* history: the requests whose answer was sent, by itself

flagVars == <<startFlag, isClose>>
ownerVars == <<opc, starts, closes, running>>
serverVars == <<flagVars, buffer, executor, lpc, ownerVars, regular, answered>>

\* The texts that are there in excess of Fits + 1 change nothing any more.
Kept(text) == IF Len(text) > Fits + 1 THEN SubSeq(text, 1, Fits + 1) ELSE text

ServerTypeOK ==
    /\ startFlag \in BOOLEAN /\ isClose \in BOOLEAN
    /\ buffer \in Seq(Bodies) /\ Len(buffer) <= Fits + 1
    /\ executor \in 0..MaxStarts
    /\ lpc \in [Loops -> {"new", "check", "select", "endStart", "endClose", "dead"}]
    /\ opc \in {"idle", "open", "submit", "await"}
    /\ starts \in 0..MaxStarts /\ closes \in 0..MaxCloses
    /\ running \in BOOLEAN /\ regular \in BOOLEAN
    /\ answered \subseteq Bodies

ServerInit ==
    /\ startFlag = FALSE /\ isClose = FALSE
    /\ buffer = <<>>
    /\ executor = 0
    /\ lpc = [l \in Loops |-> "new"]
    /\ opc = "idle" /\ starts = 0 /\ closes = 0 /\ running = FALSE
    /\ regular = TRUE
    /\ answered = {}

Runs(l) == lpc[l] \in {"check", "select"}
Ended(l) == lpc[l] \in {"endStart", "endClose", "dead"}

\* The channel is bound, and there is a loop, or there will be one, that reads it.
Listens == opc = "submit" \/ \E l \in Loops : Runs(l)

\* Not if the buffer is so full that no answer can ever be sent.
CanAnswer == Len(buffer) < Fits

Serves == Listens /\ CanAnswer

LoopGoto(l, state) == lpc' = [lpc EXCEPT ![l] = state]

-----------------------------------------------------------------------------
(* execute() and send().                                                   *)

CheckClose(l) ==
    /\ lpc[l] = "check"
    /\ LoopGoto(l, IF isClose THEN "endStart" ELSE "select")
    /\ UNCHANGED <<netVars, flagVars, buffer, executor, ownerVars, regular, answered>>

\* A thousand milliseconds without a datagram.
SelectNothing(l) ==
    /\ lpc[l] = "select" /\ up = EmptyBag
    /\ LoopGoto(l, "check")
    /\ UNCHANGED <<netVars, flagVars, buffer, executor, ownerVars, regular, answered>>

AnswerSent(text) ==
    /\ Len(text) <= Fits
    /\ down' = Put(down, text)
    /\ buffer' = <<>>
    /\ answered' = IF Len(text) = 1 THEN answered \cup {text[1]} ELSE answered

\* IOException: the text stays in the buffer, and the next one is put behind it.
AnswerFails(text) ==
    /\ buffer' = Kept(text)
    /\ UNCHANGED <<down, answered>>

SelectRequest(l) ==
    /\ lpc[l] = "select"
    /\ \E b \in BagToSet(up) :
        LET text == Append(buffer, b) IN
        \/ Arrives(up, b, up') /\ AnswerSent(text)
        \/ Len(text) <= Fits /\ Fault /\ up' = up (-) SetToBag({b}) /\ AnswerFails(text)
        \/ Len(text) > Fits /\ Arrives(up, b, up') /\ AnswerFails(text)
    /\ LoopGoto(l, "check")
    /\ UNCHANGED <<flagVars, executor, ownerVars, regular>>

\* IOException in select() ends the loop as well.
SelectFails(l) ==
    /\ lpc[l] = "select"
    /\ Fault
    /\ LoopGoto(l, "endStart")
    /\ regular' = FALSE
    /\ UNCHANGED <<up, down, flagVars, buffer, executor, ownerVars, answered>>

ResetStart(l) ==
    /\ lpc[l] = "endStart"
    /\ startFlag' = FALSE
    /\ LoopGoto(l, "endClose")
    /\ UNCHANGED <<netVars, isClose, buffer, executor, ownerVars, regular, answered>>

\* Mutant of ResetClose: the flag is left as it is.
LeaveClose(l) ==
    /\ lpc[l] = "endClose"
    /\ LoopGoto(l, "dead")
    /\ UNCHANGED <<netVars, flagVars, buffer, executor, ownerVars, regular, answered>>

ResetClose(l) ==
    /\ lpc[l] = "endClose"
    /\ isClose' = FALSE
    /\ LoopGoto(l, "dead")
    /\ UNCHANGED <<netVars, startFlag, buffer, executor, ownerVars, regular, answered>>

ServerLoop(l) ==
    \/ CheckClose(l) \/ SelectNothing(l) \/ SelectRequest(l)
    \/ ResetStart(l) \/ ResetClose(l)

-----------------------------------------------------------------------------
(* start() and close().                                                    *)

\* compareAndExchange. A start() that finds the flag set throws.
Start ==
    /\ opc = "idle" /\ starts < MaxStarts
    /\ ~startFlag
    /\ startFlag' = TRUE
    /\ starts' = starts + 1
    /\ opc' = "open"
    /\ UNCHANGED <<netVars, isClose, buffer, executor, lpc, closes, running, regular, answered>>

\* Of what is on its way some arrives only now, and the rest has arrived
\* where nobody reads it.
OpenChannel ==
    /\ opc = "open"
    /\ \E late \in Parts(up) : up' = late
    /\ opc' = "submit"
    /\ UNCHANGED <<down, faults, flagVars, buffer, executor, lpc, starts, closes, running,
                   regular, answered>>

\* IllegalArgumentException, for example because the port is taken: the flag
\* stays set.
OpenFails ==
    /\ opc = "open"
    /\ Fault
    /\ opc' = "idle"
    /\ regular' = FALSE
    /\ UNCHANGED <<up, down, flagVars, buffer, executor, lpc, starts, closes, running, answered>>

SubmitLoop ==
    /\ opc = "submit"
    /\ executor' = starts
    /\ LoopGoto(starts, "check")
    /\ opc' = "idle" /\ running' = TRUE
    /\ UNCHANGED <<netVars, flagVars, buffer, starts, closes, regular, answered>>

\* Mutant of Close: it resets the flag of start() itself.
CloseAndReset ==
    /\ opc = "idle" /\ closes < MaxCloses
    /\ isClose' = TRUE
    /\ startFlag' = FALSE
    /\ closes' = closes + 1
    /\ opc' = IF executor = 0 THEN "idle" ELSE "await"
    /\ running' = FALSE
    /\ regular' = (regular /\ running)
    /\ UNCHANGED <<netVars, buffer, executor, lpc, starts, answered>>

\* isClose, then shutdown(): without an executor a NullPointerException.
Close ==
    /\ opc = "idle" /\ closes < MaxCloses
    /\ isClose' = TRUE
    /\ closes' = closes + 1
    /\ opc' = IF executor = 0 THEN "idle" ELSE "await"
    /\ running' = FALSE
    /\ regular' = (regular /\ running)
    /\ UNCHANGED <<netVars, startFlag, buffer, executor, lpc, starts, answered>>

AwaitLoop ==
    /\ opc = "await"
    /\ lpc[executor] = "dead"
    /\ opc' = "idle"
    /\ UNCHANGED <<netVars, flagVars, buffer, executor, lpc, starts, closes, running,
                   regular, answered>>

\* Two seconds were not enough, or the caller was interrupted.
AwaitFails ==
    /\ opc = "await"
    /\ lpc[executor] # "dead"
    /\ Fault
    /\ opc' = "idle"
    /\ regular' = FALSE
    /\ UNCHANGED <<up, down, flagVars, buffer, executor, lpc, starts, closes, running, answered>>

OwnerCalls == Start \/ OpenFails \/ Close \/ AwaitFails
OwnerGoesOn == OpenChannel \/ SubmitLoop \/ AwaitLoop

ServerStep ==
    \/ OwnerCalls \/ OwnerGoesOn
    \/ \E l \in Loops : ServerLoop(l) \/ SelectFails(l)

-----------------------------------------------------------------------------

\* The buffer, the selector and the channel are fields that execute() uses
\* without a lock: whatever the order of the calls of start() and close(),
\* and however long an old loop takes to end, one loop at most is at work.
OneLoop == \A l, n \in Loops : Runs(l) /\ Runs(n) => l = n

\* As long as every close() was called on a server that runs and waited for the
\* end of its loop, and nothing failed, the object can be started again and
\* again: when start() has returned its loop runs until close(), and when
\* close() has returned no loop is left and both flags are as at the beginning.
Restartable ==
    regular /\ opc = "idle" =>
        IF running THEN startFlag /\ ~isClose /\ Runs(executor)
        ELSE ~startFlag /\ ~isClose /\ \A l \in Loops : lpc[l] \in {"new", "dead"}
=============================================================================
