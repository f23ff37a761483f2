-------------------------- MODULE ConnectedNetwork --------------------------
(***************************************************************************)
(* The datagrams between HelloUDPNonblockingClient and -Server. Every      *)
(* channel of the client is connected, so that it receives from the server *)
(* only. Datagrams are lost, duplicated and reordered, and how many there  *)
(* are matters: they are kept in bags.                                     *)
(*                                                                         *)
(* The text of a request is prefix + t + "_" + i, the pair <<t, i>>. The   *)
(* text of an answer is "Hello, " and the texts of all the requests that   *)
(* were in the server's buffer; it goes to the sender of the last one.     *)
(***************************************************************************)
EXTENDS Integers, Sequences, Bags

CONSTANTS
    Threads,    \* the number of channels of the client: the argument threads
    Requests,   \* the number of requests of each: the argument requests
    MaxFaults   \* bound: losses, duplicates, late datagrams and failing calls

ASSUME ConnectedAssumption ==
    Threads \in Nat \ {0} /\ Requests \in Nat /\ MaxFaults \in Nat

Numbers == 0..Threads - 1
Bodies == Numbers \X (0..Requests - 1)

VARIABLES
    up,         \* the requests on their way
    down,       \* the answers on their way
    faults      \* number of faults so far

netVars == <<up, down, faults>>

NetTypeOK ==
    /\ IsABag(up) /\ BagToSet(up) \subseteq Bodies
    /\ IsABag(down) /\ BagToSet(down) \subseteq Seq(Bodies) \ {<<>>}
    /\ faults \in 0..MaxFaults

NetInit == up = EmptyBag /\ down = EmptyBag /\ faults = 0

Fault == faults < MaxFaults /\ faults' = faults + 1

\* The channel that an answer is for.
Receiver(text) == text[Len(text)][1]

Put(bag, m) == bag (+) SetToBag({m})

\* m arrives, and perhaps it will arrive once more; rest is what is left.
Arrives(bag, m, rest) ==
    /\ BagIn(m, bag)
    /\ \/ rest = bag (-) SetToBag({m}) /\ UNCHANGED faults
       \/ rest = bag /\ Fault

\* The bags that hold no more copies of anything than bag.
Parts(bag) ==
    UNION {{part \in [S -> UNION {1..bag[m] : m \in S}] : part \sqsubseteq bag} :
              S \in SUBSET BagToSet(bag)}

Lose ==
    /\ Fault
    /\ \/ \E m \in BagToSet(up) : up' = up (-) SetToBag({m}) /\ UNCHANGED down
       \/ \E m \in BagToSet(down) : down' = down (-) SetToBag({m}) /\ UNCHANGED up
=============================================================================
