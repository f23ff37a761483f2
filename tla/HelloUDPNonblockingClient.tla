---------------------- MODULE HelloUDPNonblockingClient ----------------------
(***************************************************************************)
(* One run() of HelloUDPNonblockingClient: one thread, one selector, and a *)
(* connected channel for each number. A call of select() handles every     *)
(* channel that is ready; if none is for half a second, all of them are to *)
(* send again.                                                             *)
(*                                                                         *)
(* An IOException in the handler (nobody listens, or the system's buffer   *)
(* is full) leaves the channel as it was and is a stuttering step here.    *)
(***************************************************************************)
EXTENDS ConnectedNetwork

VARIABLES
    interest,       \* the interest of each key: "both", "read" or "write"
    iteration,      \* ContexData.iterationNumber of each key
    open,           \* the channel is open, and its key valid
    workerClose,
    returned        \* run() has returned

clientVars == <<interest, iteration, open, workerClose, returned>>

ClientTypeOK ==
    /\ interest \in [Numbers -> {"both", "read", "write"}]
    /\ iteration \in [Numbers -> 0..Requests]
    /\ open \in [Numbers -> BOOLEAN]
    /\ workerClose \in 0..Threads
    /\ returned \in BOOLEAN

ClientInit ==
    /\ interest = [t \in Numbers |-> "both"]
    /\ iteration = [t \in Numbers |-> 0]
    /\ open = [t \in Numbers |-> TRUE]
    /\ workerClose = 0
    /\ returned = FALSE

IsEnd(t) == iteration[t] >= Requests

-----------------------------------------------------------------------------
(* receiveSend().                                                          *)

\* Mutant of Accepts: the length of the answer is not compared.
AcceptsByEnds(t, text) == text[Len(text)] = <<t, iteration[t]>>

\* endsWith, startsWith and the length together: the text and nothing else.
Accepts(t, text) == text = <<<<t, iteration[t]>>>>

\* Whatever was read, the channel sends next: the following request or the
\* same one again.
Read(t) ==
    /\ open[t] /\ interest[t] # "write"
    /\ \E text \in BagToSet(down) :
        /\ Receiver(text) = t
        /\ Arrives(down, text, down')
        /\ iteration' = [iteration EXCEPT ![t] = IF Accepts(t, text) THEN @ + 1 ELSE @]
    /\ interest' = [interest EXCEPT ![t] = "write"]
    /\ UNCHANGED <<up, open, workerClose, returned>>

\* Mutant of Write: the channel stays interested in writing.
WriteOn(t, serves) ==
    /\ open[t] /\ interest[t] # "read" /\ ~IsEnd(t)
    /\ up' = IF serves THEN Put(up, <<t, iteration[t]>>) ELSE up
    /\ interest' = [interest EXCEPT ![t] = "both"]
    /\ UNCHANGED <<down, faults, iteration, open, workerClose, returned>>

\* What is sent to nobody, or to a server that can never answer, is gone.
Write(t, serves) ==
    /\ open[t] /\ interest[t] # "read" /\ ~IsEnd(t)
    /\ up' = IF serves THEN Put(up, <<t, iteration[t]>>) ELSE up
    /\ interest' = [interest EXCEPT ![t] = "read"]
    /\ UNCHANGED <<down, faults, iteration, open, workerClose, returned>>

\* Mutant of Finish: the worker is counted and its key stays valid.
FinishAndStay(t) ==
    /\ open[t] /\ interest[t] # "read" /\ IsEnd(t)
    /\ workerClose' = workerClose + 1
    /\ UNCHANGED <<netVars, interest, iteration, open, returned>>

Finish(t) ==
    /\ open[t] /\ interest[t] # "read" /\ IsEnd(t)
    /\ workerClose' = workerClose + 1
    /\ open' = [open EXCEPT ![t] = FALSE]
    /\ UNCHANGED <<netVars, interest, iteration, returned>>

-----------------------------------------------------------------------------
(* run().                                                                  *)

\* Mutant of TimeOut: the channels go on waiting.
TimeOutUnseen(nothingComes) ==
    /\ workerClose # Threads
    /\ \A t \in Numbers : open[t] => interest[t] = "read"
    /\ IF nothingComes THEN UNCHANGED faults ELSE Fault
    /\ UNCHANGED <<up, down, clientVars>>

\* select() returns 0: no channel is ready. Either it is true that nothing
\* comes, or what comes is late.
TimeOut(nothingComes) ==
    /\ workerClose # Threads
    /\ \A t \in Numbers : open[t] => interest[t] = "read"
    /\ IF nothingComes THEN UNCHANGED faults ELSE Fault
    /\ interest' = [t \in Numbers |-> IF open[t] THEN "write" ELSE interest[t]]
    /\ UNCHANGED <<up, down, iteration, open, workerClose, returned>>

Return ==
    /\ ~returned /\ workerClose = Threads
    /\ returned' = TRUE
    /\ UNCHANGED <<netVars, interest, iteration, open, workerClose>>

KeyStep(t, serves) == Read(t) \/ Write(t, serves) \/ Finish(t)

LoopStep(nothingComes) == TimeOut(nothingComes) \/ Return
=============================================================================
