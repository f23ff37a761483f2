--------------------------- MODULE HelloUDPServer ---------------------------
(***************************************************************************)
(* HelloUDPServer: one thread receives the datagrams and puts them into a  *)
(* queue, the threads of a pool take them out and send the answers. close()*)
(* closes the socket, then stops the one and the others.                   *)
(***************************************************************************)
EXTENDS HelloNetwork, Sequences, FiniteSets

CONSTANTS
    Workers,        \* the threads of the pool
    MaxCloses       \* bound: whether close() is called: 0 or 1

ASSUME ServerAssumption == IsFiniteSet(Workers) /\ Workers # {} /\ MaxCloses \in 0..1

VARIABLES
    sopen,      \* the server's socket is open
    reader,     \* where queueThread is
    rint,       \* its interrupt flag
    got,        \* its local variable packet
    packets,    \* the queue
    spc,        \* where each worker is
    sint,       \* their interrupt flags
    holding,    \* their local variables packet
    kpc,        \* where the thread is that calls start() and close()
    kint,       \* its interrupt flag
    owed        \* history: owed[b] requests b were received and not answered

readerVars == <<reader, rint, got>>
workerVars == <<spc, sint, holding>>
closerVars == <<kpc, kint>>
serverVars == <<sopen, readerVars, packets, workerVars, closerVars, owed>>

ServerTypeOK ==
    /\ sopen \in BOOLEAN
    /\ reader \in {"new", "receive", "put", "dead"} /\ rint \in BOOLEAN
    /\ got \in ToServer \cup {NoDatagram}
    /\ packets \in Seq(ToServer)
    /\ spc \in [Workers -> {"new", "take", "send", "dead"}]
    /\ sint \in [Workers -> BOOLEAN]
    /\ holding \in [Workers -> ToServer \cup {NoDatagram}]
    /\ kpc \in {"new", "started", "interrupt", "join", "shutdown", "await", "closed"}
    /\ kint \in BOOLEAN
    /\ owed \in [Bodies -> Int]

ServerInit ==
    /\ sopen = FALSE
    /\ reader = "new" /\ rint = FALSE /\ got = NoDatagram
    /\ packets = <<>>
    /\ spc = [w \in Workers |-> "new"]
    /\ sint = [w \in Workers |-> FALSE]
    /\ holding = [w \in Workers |-> NoDatagram]
    /\ kpc = "new" /\ kint = FALSE
    /\ owed = [b \in Bodies |-> 0]

\* start(): later calls find that udpServer is not null, and throw.
StartServer ==
    /\ kpc = "new"
    /\ kpc' = "started"
    /\ sopen' = TRUE
    /\ reader' = "receive"
    /\ spc' = [w \in Workers |-> "take"]
    /\ UNCHANGED <<netVars, rint, got, packets, sint, holding, kint, owed>>

-----------------------------------------------------------------------------
(* queueThread.                                                            *)

ReceiveRequest ==
    /\ reader = "receive" /\ sopen
    /\ \E m \in net :
        /\ m.to = Server
        /\ Deliver(m)
        /\ got' = m
        /\ owed' = [owed EXCEPT ![m.body] = @ + 1]
    /\ reader' = "put"
    /\ UNCHANGED <<sopen, rint, packets, workerVars, closerVars>>

ReceiveFails ==
    /\ reader = "receive" /\ ~sopen
    /\ reader' = "dead"
    /\ UNCHANGED <<netVars, sopen, rint, got, packets, workerVars, closerVars, owed>>

\* packets.put(packet), which throws if the thread is interrupted.
PutRequest ==
    /\ reader = "put"
    /\ got' = NoDatagram
    /\ \/ /\ rint
          /\ reader' = "dead" /\ rint' = FALSE
          /\ UNCHANGED packets
       \/ /\ ~rint
          /\ reader' = "receive"
          /\ packets' = Append(packets, got)
          /\ UNCHANGED rint
    /\ UNCHANGED <<netVars, sopen, workerVars, closerVars, owed>>

-----------------------------------------------------------------------------
(* work() of the server.                                                   *)

TakeRequest(w) ==
    /\ spc[w] = "take" /\ ~sint[w]
    /\ packets # <<>>
    /\ holding' = [holding EXCEPT ![w] = Head(packets)]
    /\ packets' = Tail(packets)
    /\ spc' = [spc EXCEPT ![w] = "send"]
    /\ UNCHANGED <<netVars, sopen, readerVars, sint, closerVars, owed>>

TakeInterrupted(w) ==
    /\ spc[w] = "take" /\ sint[w]
    /\ spc' = [spc EXCEPT ![w] = "dead"]
    /\ sint' = [sint EXCEPT ![w] = FALSE]
    /\ UNCHANGED <<netVars, sopen, readerVars, packets, holding, closerVars, owed>>

\* Mutant of SendAnswer: the packet is left for another round.
SendTwice(w) ==
    /\ spc[w] = "send" /\ sopen
    /\ Send(Hello(Server, holding[w].from, holding[w].body))
    /\ owed' = [owed EXCEPT ![holding[w].body] = @ - 1]
    /\ UNCHANGED <<sopen, readerVars, packets, workerVars, closerVars>>

SendAnswer(w) ==
    /\ spc[w] = "send" /\ sopen
    /\ Send(Hello(Server, holding[w].from, holding[w].body))
    /\ owed' = [owed EXCEPT ![holding[w].body] = @ - 1]
    /\ holding' = [holding EXCEPT ![w] = NoDatagram]
    /\ spc' = [spc EXCEPT ![w] = "take"]
    /\ UNCHANGED <<sopen, readerVars, packets, sint, closerVars>>

SendFails(w) ==
    /\ spc[w] = "send" /\ ~sopen
    /\ holding' = [holding EXCEPT ![w] = NoDatagram]
    /\ spc' = [spc EXCEPT ![w] = "dead"]
    /\ UNCHANGED <<netVars, sopen, readerVars, packets, sint, closerVars, owed>>

WorkerStep(w) == TakeRequest(w) \/ TakeInterrupted(w) \/ SendAnswer(w) \/ SendFails(w)

-----------------------------------------------------------------------------
(* close().                                                                *)

PoolEnded == \A w \in Workers : spc[w] = "dead"

CloseSocket ==
    /\ kpc = "started" /\ MaxCloses = 1
    /\ sopen' = FALSE
    /\ kpc' = "interrupt"
    /\ UNCHANGED <<netVars, readerVars, packets, workerVars, kint, owed>>

InterruptReader ==
    /\ kpc = "interrupt"
    /\ rint' = (reader # "dead")
    /\ kpc' = "join"
    /\ UNCHANGED <<netVars, sopen, reader, got, packets, workerVars, kint, owed>>

\* Mutant of JoinReader: the thread is not waited for.
JoinNobody ==
    /\ kpc = "join"
    /\ kpc' = "shutdown"
    /\ UNCHANGED <<netVars, sopen, readerVars, packets, workerVars, kint, owed>>

JoinReader ==
    /\ kpc = "join"
    /\ reader = "dead"
    /\ kpc' = "shutdown"
    /\ UNCHANGED <<netVars, sopen, readerVars, packets, workerVars, kint, owed>>

\* catch (InterruptedException ignored): the interrupt is forgotten.
JoinInterrupted ==
    /\ kpc = "join" /\ kint
    /\ kint' = FALSE
    /\ UNCHANGED <<netVars, sopen, readerVars, packets, workerVars, kpc, owed>>

\* Mutant of ShutdownPool: only shutdown(), which interrupts nobody who works.
ShutdownSoftly ==
    /\ kpc = "shutdown"
    /\ kpc' = "await"
    /\ UNCHANGED <<netVars, sopen, readerVars, packets, workerVars, kint, owed>>

ShutdownPool ==
    /\ kpc = "shutdown"
    /\ \/ PoolEnded /\ kpc' = "closed" /\ UNCHANGED sint
       \/ ~PoolEnded /\ kpc' = "await" /\ sint' = [w \in Workers |-> spc[w] # "dead"]
    /\ UNCHANGED <<netVars, sopen, readerVars, packets, spc, holding, kint, owed>>

AwaitPool ==
    /\ kpc = "await"
    /\ PoolEnded
    /\ kpc' = "closed"
    /\ UNCHANGED <<netVars, sopen, readerVars, packets, workerVars, kint, owed>>

\* close() returns early, and its thread is interrupted again.
AwaitInterrupted ==
    /\ kpc = "await" /\ kint
    /\ ~PoolEnded
    /\ kpc' = "closed"
    /\ UNCHANGED <<netVars, sopen, readerVars, packets, workerVars, kint, owed>>

CloserStep ==
    \/ InterruptReader \/ JoinReader \/ JoinInterrupted
    \/ ShutdownPool \/ AwaitPool \/ AwaitInterrupted

\* Somebody interrupts the thread that is in close().
InterruptCloser ==
    /\ kpc \in {"interrupt", "join", "shutdown", "await"} /\ ~kint
    /\ Fault
    /\ kint' = TRUE
    /\ UNCHANGED <<net, sopen, readerVars, packets, workerVars, kpc, owed>>

ReaderStep == ReceiveRequest \/ ReceiveFails \/ PutRequest

ServerStep ==
    \/ StartServer \/ CloseSocket \/ CloserStep \/ InterruptCloser
    \/ ReaderStep
    \/ \E w \in Workers : WorkerStep(w)

-----------------------------------------------------------------------------

\* While the socket is open every datagram received is answered exactly once,
\* or it is in the hands of one thread or in the queue once: none is dropped,
\* and none is answered twice.
AnsweredOnce ==
    sopen => \A b \in Bodies :
        owed[b] = Cardinality({i \in {1} : got # NoDatagram /\ got.body = b})
                  + Cardinality({k \in DOMAIN packets : packets[k].body = b})
                  + Cardinality({w \in Workers :
                                    holding[w] # NoDatagram /\ holding[w].body = b})

\* close() returns, unless it is interrupted, when all the threads of the
\* server have ended: nobody uses the socket or sends an answer after it.
ServerStops ==
    kpc = "closed" /\ ~kint => ~sopen /\ reader = "dead" /\ PoolEnded

\* close() returns, whatever the threads are doing when it is called.
CloseReturns == kpc = "interrupt" ~> kpc = "closed"
=============================================================================
