------------------------- MODULE HelloUDPNonblocking -------------------------
(***************************************************************************)
(* A HelloUDPNonblockingClient and a HelloUDPNonblockingServer with the    *)
(* network between them.                                                   *)
(***************************************************************************)
EXTENDS HelloUDPNonblockingClient, HelloUDPNonblockingServer, FiniteSets

vars == <<netVars, clientVars, serverVars>>

\* No answer is on its way to an open channel, nor a request to a server
\* that would answer it.
NothingComes ==
    /\ \A text \in BagToSet(down) : ~open[Receiver(text)]
    /\ Serves => \A b \in BagToSet(up) : ~open[b[1]]

Init == NetInit /\ ClientInit /\ ServerInit

Next ==
    \/ \E t \in Numbers : KeyStep(t, Serves) /\ UNCHANGED serverVars
    \/ LoopStep(NothingComes) /\ UNCHANGED serverVars
    \/ ServerStep /\ UNCHANGED clientVars
    \/ Lose /\ UNCHANGED <<clientVars, serverVars>>

Spec == Init /\ [][Next]_vars

FairSpec ==
    /\ Spec
    /\ \A t \in Numbers : WF_vars(KeyStep(t, Serves) /\ UNCHANGED serverVars)
    /\ WF_vars(LoopStep(NothingComes) /\ UNCHANGED serverVars)
    /\ \A l \in Loops : WF_vars(ServerLoop(l) /\ UNCHANGED clientVars)
    /\ WF_vars(OwnerGoesOn /\ UNCHANGED clientVars)

TypeOK == NetTypeOK /\ ClientTypeOK /\ ServerTypeOK

-----------------------------------------------------------------------------

\* The client goes on to its next request only when the server has sent
\* the answer to this one, alone in its datagram; when run() has returned
\* this is so for all of them, and its channels are closed.
AnsweredInTurn ==
    /\ \A b \in Bodies : b[2] < iteration[b[1]] => b \in answered
    /\ returned => \A t \in Numbers : ~open[t] /\ iteration[t] = Requests

OnTheWay(t) ==
    BagCardinality([b \in {b \in BagToSet(up) : b[1] = t} |-> up[b]])
    + BagCardinality([m \in {m \in BagToSet(down) : Receiver(m) = t} |-> down[m]])

\* The client sends something whenever it has received something, also when it
\* was the late answer to an earlier request. There is no storm of datagrams all
\* the same: each channel has one datagram on its way, or is about to send
\* one, and one more for every fault and every loop of the server that has ended.
NoStorm ==
    \A t \in Numbers :
        OnTheWay(t) + (IF open[t] /\ interest[t] # "read" THEN 1 ELSE 0)
            <= 1 + faults + Cardinality({l \in Loops : Ended(l)})

\* run() returns if in the end there is a server that can still answer.
RunReturns == <>[]Serves => <>returned
=============================================================================
