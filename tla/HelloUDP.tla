------------------------------ MODULE HelloUDP ------------------------------
(***************************************************************************)
(* A HelloUDPClient and a HelloUDPServer with the network between them.    *)
(***************************************************************************)
EXTENDS HelloUDPClient, HelloUDPServer

vars == <<netVars, clientVars, serverVars>>

\* The server is not there, or neither a request of t nor an answer to it is
\* on its way.
NothingComes(t) ==
    sopen =>
    /\ \A m \in net : m.from # t /\ m.to # t
    /\ got # NoDatagram => got.from # t
    /\ \A k \in DOMAIN packets : packets[k].from # t
    /\ \A w \in Workers : holding[w] # NoDatagram => holding[w].from # t

Init == NetInit /\ ClientInit /\ ServerInit

Next ==
    \/ \E t \in Numbers : ThreadStep(t, NothingComes(t)) /\ UNCHANGED serverVars
    \/ MainStep /\ UNCHANGED serverVars
    \/ InterruptRun /\ UNCHANGED serverVars
    \/ ServerStep /\ UNCHANGED clientVars
    \/ NetStep /\ UNCHANGED <<clientVars, serverVars>>

Spec == Init /\ [][Next]_vars

FairSpec ==
    /\ Spec
    /\ \A t \in Numbers : WF_vars(ThreadStep(t, NothingComes(t)) /\ UNCHANGED serverVars)
    /\ WF_vars(MainStep /\ UNCHANGED serverVars)
    /\ WF_vars(ReaderStep /\ UNCHANGED clientVars)
    /\ \A w \in Workers : WF_vars(WorkerStep(w) /\ UNCHANGED clientVars)
    /\ WF_vars(CloserStep /\ UNCHANGED clientVars)

TypeOK == NetTypeOK /\ ClientTypeOK /\ ServerTypeOK

\* run() returns if the server is started and stays up: the network cannot
\* lose for ever what the threads send again and again.
RunReturns == <>[]sopen => <>(mpc = "returned")
=============================================================================
