---------------------------- MODULE HelloNetwork ----------------------------
(***************************************************************************)
(* The datagrams between the Hello clients and servers. UDP loses them,    *)
(* duplicates them and delivers them in any order; a socket that is not    *)
(* connected also gets what strangers send.                                *)
(*                                                                         *)
(* The text of a request is prefix + t + "_" + i, which is as good as the  *)
(* pair <<t, i>>. An answer is "Hello, " and the text of its request.      *)
(***************************************************************************)
EXTENDS Integers

CONSTANTS
    Threads,    \* the number of threads of the client: the argument threads
    Requests,   \* the number of requests of each: the argument requests
    MaxFaults,  \* bound: losses, duplicates, strangers and late datagrams
    Server,     \* the server's address
    Stranger,   \* another address
    NoDatagram

ASSUME HelloBoundsAssumption == Threads \in Nat \ {0} /\ Requests \in Nat /\ MaxFaults \in Nat
ASSUME AddressAssumption ==
    /\ Server # Stranger
    /\ {Server, Stranger} \cap (0..Threads - 1) = {}

Numbers == 0..Threads - 1
Bodies == Numbers \X (0..Requests - 1)

Request(t, i) == [from |-> t, to |-> Server, body |-> <<t, i>>, hello |-> FALSE]
Hello(address, t, body) == [from |-> address, to |-> t, body |-> body, hello |-> TRUE]

ToServer == {Request(b[1], b[2]) : b \in Bodies}
ToClient == {Hello(a, t, b) : a \in {Server, Stranger}, t \in Numbers, b \in Bodies}
Datagram == ToServer \cup ToClient

ASSUME NoDatagramAssumption == NoDatagram \notin Datagram

VARIABLES
    net,        \* the datagrams on their way
    faults      \* number of faults so far

netVars == <<net, faults>>

NetTypeOK == net \subseteq Datagram /\ faults \in 0..MaxFaults

NetInit == net = {} /\ faults = 0

Fault == faults < MaxFaults /\ faults' = faults + 1

Send(m) == net' = net \cup {m} /\ UNCHANGED faults

\* The datagram arrives, and perhaps it will arrive once more.
Deliver(m) ==
    /\ m \in net
    /\ \/ net' = net \ {m} /\ UNCHANGED faults
       \/ net' = net /\ Fault

Lose(m) == m \in net /\ net' = net \ {m} /\ Fault

\* A stranger sends what looks like an answer.
Forge(t, body) == net' = net \cup {Hello(Stranger, t, body)} /\ Fault

NetStep ==
    \/ \E m \in net : Lose(m)
    \/ \E t \in Numbers, body \in Bodies : Forge(t, body)
=============================================================================
