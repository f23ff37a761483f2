--------------------------- MODULE HelloUDPProofs ---------------------------
(***************************************************************************)
(* Theorems about HelloUDP, for every number of threads, requests and      *)
(* workers, and for any number of losses, duplicates, strangers and late   *)
(* datagrams.                                                              *)
(***************************************************************************)
EXTENDS HelloUDP, FiniteSetTheorems, TLAPS

-----------------------------------------------------------------------------
(* Types. The inductive invariant adds what each state of a thread says of *)
(* its local variables.                                                    *)

ClientControl ==
    \A t \in Numbers :
        /\ cpc[t] = "new" => it[t] = 0
        /\ cpc[t] \in {"send", "receive", "put"} => it[t] < Requests
        /\ cpc[t] = "put" => accepted[t] # NoDatagram

ServerControl ==
    /\ reader = "put" => got # NoDatagram
    /\ \A w \in Workers : spc[w] = "send" => holding[w] # NoDatagram

TypeInv == TypeOK /\ ClientControl /\ ServerControl

\* What the fields of a datagram are.
LEMMA DatagramFields ==
    ASSUME NEW m \in Datagram
    PROVE  /\ m.body \in Bodies
           /\ m.to = Server <=> m \in ToServer
           /\ m.to \in Numbers <=> m \in ToClient
           /\ m \in ToServer => m.from \in Numbers
           /\ m # NoDatagram
<1>1. m # NoDatagram
  BY NoDatagramAssumption
<1>2. CASE m \in ToServer
  <2>1. PICK b \in Bodies : m = Request(b[1], b[2])
    BY <1>2 DEF ToServer
  <2>2. b[1] \in Numbers /\ b = <<b[1], b[2]>>
    BY DEF Bodies
  <2>3. m.to = Server /\ m.from = b[1] /\ m.body = b /\ m.hello = FALSE
    BY <2>1, <2>2 DEF Request
  <2>4. m \notin ToClient
    BY <2>3 DEF ToClient, Hello
  <2>5. Server \notin Numbers
    BY AddressAssumption DEF Numbers
  <2>. QED BY <1>1, <1>2, <2>2, <2>3, <2>4, <2>5
<1>3. CASE m \in ToClient
  <2>1. PICK a \in {Server, Stranger}, t \in Numbers, b \in Bodies : m = Hello(a, t, b)
    BY <1>3 DEF ToClient
  <2>2. m.to = t /\ m.body = b /\ m.hello = TRUE
    BY <2>1 DEF Hello
  <2>3. m \notin ToServer
    BY <2>2 DEF ToServer, Request
  <2>4. Server \notin Numbers
    BY AddressAssumption DEF Numbers
  <2>. QED BY <1>1, <1>3, <2>2, <2>3, <2>4
<1>. QED BY <1>2, <1>3 DEF Datagram

\* A datagram to t that t accepts is the server's answer to its request.
LEMMA AcceptedIsAnswer ==
    ASSUME NEW m \in Datagram, NEW t \in Numbers, m.to = t, Accepts(t, m)
    PROVE  m = Hello(Server, t, <<t, it[t]>>) /\ m \in ToClient
<1>1. m \in ToClient
  BY DatagramFields
<1>2. PICK a \in {Server, Stranger}, u \in Numbers, b \in Bodies : m = Hello(a, u, b)
  BY <1>1 DEF ToClient
<1>3. m.from = a /\ m.to = u /\ m.body = b
  BY <1>2 DEF Hello
<1>. QED BY <1>1, <1>2, <1>3 DEF Accepts

LEMMA RequestIsDatagram ==
    ASSUME NEW t \in Numbers, NEW i \in 0..Requests, i < Requests
    PROVE  Request(t, i) \in Datagram
<1>1. <<t, i>> \in Bodies
  BY HelloBoundsAssumption DEF Bodies
<1>2. Request(<<t, i>>[1], <<t, i>>[2]) \in ToServer
  BY <1>1 DEF ToServer
<1>. QED BY <1>2 DEF Datagram

\* The network hands out what was sent.
LEMMA NetSteps ==
    ASSUME NetTypeOK
    PROVE  /\ \A m \in Datagram : Send(m) => NetTypeOK'
           /\ \A m \in net : Deliver(m) => m \in Datagram /\ NetTypeOK'
           /\ NetStep => NetTypeOK'
           /\ Fault /\ UNCHANGED net => NetTypeOK'
           /\ UNCHANGED netVars => NetTypeOK'
<1>1. Fault => faults' \in 0..MaxFaults
  BY HelloBoundsAssumption DEF NetTypeOK, Fault
<1>2. \A m \in Datagram : Send(m) => NetTypeOK'
  BY DEF NetTypeOK, Send
<1>3. \A m \in net : Deliver(m) => m \in Datagram /\ NetTypeOK'
  BY <1>1 DEF NetTypeOK, Deliver
<1>4. NetStep => NetTypeOK'
  <2>1. ASSUME NEW m \in net, Lose(m)
        PROVE  NetTypeOK'
    BY <1>1, <2>1 DEF NetTypeOK, Lose
  <2>2. ASSUME NEW t \in Numbers, NEW body \in Bodies, Forge(t, body)
        PROVE  NetTypeOK'
    <3>1. Hello(Stranger, t, body) \in Datagram
      BY DEF Datagram, ToClient
    <3>. QED BY <1>1, <2>2, <3>1 DEF NetTypeOK, Forge
  <2>. QED BY <2>1, <2>2 DEF NetStep
<1>5. (Fault /\ UNCHANGED net => NetTypeOK') /\ (UNCHANGED netVars => NetTypeOK')
  BY <1>1 DEF NetTypeOK, netVars
<1>. QED BY <1>2, <1>3, <1>4, <1>5

\* The threads of the client.
LEMMA ThreadTypes ==
    ASSUME NetTypeOK, ClientTypeOK, ClientControl, NEW t \in Numbers,
           NEW nothing \in BOOLEAN, ThreadStep(t, nothing)
    PROVE  NetTypeOK' /\ ClientTypeOK' /\ ClientControl'
<1>0. Requests \in Nat /\ it[t] \in 0..Requests /\ 0 \in 0..Requests
  BY HelloBoundsAssumption DEF ClientTypeOK
<1>1. CASE Work(t)
  <2>1. NetTypeOK'
    BY <1>1, NetSteps DEF Work
  <2>2. ClientTypeOK'
    BY <1>1 DEF Work, Goto, NextRequest, ClientTypeOK, mainVars
  <2>3. ClientControl'
    <3>1. cpc' = [cpc EXCEPT ![t] = cpc'[t]] /\ UNCHANGED <<it, accepted>>
      BY <1>1 DEF Work, Goto, ClientTypeOK
    <3>2. cpc'[t] = "finally" \/ (cpc'[t] = "send" /\ it[t] < Requests)
      <4>1. it[t] = 0
        BY <1>1 DEF ClientControl, Work
      <4>. QED BY <1>0, <1>1, <4>1 DEF Work, Goto, NextRequest, ClientTypeOK
    <3>. QED BY <3>1, <3>2 DEF ClientTypeOK, ClientControl
  <2>. QED BY <2>1, <2>2, <2>3
<1>2. CASE SendRequest(t)
  <2>1. NetTypeOK'
    BY <1>0, <1>2, NetSteps, RequestIsDatagram DEF SendRequest, ClientControl
  <2>2. ClientTypeOK'
    BY <1>2 DEF SendRequest, Goto, ClientTypeOK, mainVars
  <2>3. ClientControl'
    BY <1>2 DEF SendRequest, Goto, ClientTypeOK, ClientControl
  <2>. QED BY <2>1, <2>2, <2>3
<1>3. CASE ReceiveAnswer(t)
  <2>1. PICK m \in net :
            /\ m.to = t /\ Deliver(m)
            /\ \/ /\ Accepts(t, m)
                  /\ accepted' = [accepted EXCEPT ![t] = m]
                  /\ Goto(t, "put")
               \/ ~Accepts(t, m) /\ UNCHANGED <<accepted, cpc>>
    BY <1>3 DEF ReceiveAnswer
  <2>2. NetTypeOK' /\ m \in Datagram /\ m \in ToClient /\ m # NoDatagram
    BY <2>1, NetSteps, DatagramFields
  <2>3. cpc[t] = "receive"
        /\ UNCHANGED <<it, copen, cint, lines, result, workers, mainVars>>
    BY <1>3 DEF ReceiveAnswer
  <2>4. ClientTypeOK'
    <3>0. accepted \in [Numbers -> ToClient \cup {NoDatagram}]
      BY DEF ClientTypeOK
    <3>1. accepted' \in [Numbers -> ToClient \cup {NoDatagram}]
      <4>1. accepted' = accepted \/ accepted' = [accepted EXCEPT ![t] = m]
        BY <2>1
      <4>. QED BY <2>2, <3>0, <4>1
    <3>2. cpc' \in [Numbers -> {"new", "send", "receive", "put", "finally", "last", "dead"}]
      BY <2>1 DEF Goto, ClientTypeOK
    <3>. QED BY <2>3, <3>1, <3>2 DEF ClientTypeOK, mainVars
  <2>5. ClientControl'
    BY <2>1, <2>2, <2>3 DEF Goto, ClientTypeOK, ClientControl
  <2>. QED BY <2>2, <2>4, <2>5
<1>4. CASE TimeOut(t, nothing)
  <2>1. NetTypeOK'
    BY <1>4, NetSteps DEF TimeOut
  <2>2. ClientTypeOK'
    BY <1>4 DEF TimeOut, Goto, ClientTypeOK, mainVars
  <2>3. ClientControl'
    BY <1>4 DEF TimeOut, Goto, ClientTypeOK, ClientControl
  <2>. QED BY <2>1, <2>2, <2>3
<1>5. CASE ReceiveClosed(t)
  <2>1. NetTypeOK'
    BY <1>5, NetSteps DEF ReceiveClosed
  <2>2. ClientTypeOK'
    BY <1>5 DEF ReceiveClosed, Goto, ClientTypeOK, mainVars
  <2>3. ClientControl'
    BY <1>5 DEF ReceiveClosed, Goto, ClientTypeOK, ClientControl
  <2>. QED BY <2>1, <2>2, <2>3
<1>6. CASE PutResult(t)
  <2>1. NetTypeOK'
    BY <1>6, NetSteps DEF PutResult
  <2>2. cpc[t] = "put" /\ accepted[t] \in ToClient /\ it[t] + 1 \in 0..Requests
    BY <1>0, <1>6 DEF PutResult, ClientControl, ClientTypeOK
  <2>3. result' \in Seq(ToClient \cup {Blank})
    BY <1>6, <2>2 DEF PutResult, ClientTypeOK
  <2>4. lines' \in [Numbers -> Seq(ToClient)]
    BY <1>6, <2>2 DEF PutResult, ClientTypeOK
  <2>5. it' \in [Numbers -> 0..Requests]
    BY <1>6, <2>2 DEF PutResult, ClientTypeOK
  <2>6. accepted' \in [Numbers -> ToClient \cup {NoDatagram}]
    BY <1>6 DEF PutResult, ClientTypeOK
  <2>7. ClientTypeOK'
    BY <1>6, <2>3, <2>4, <2>5, <2>6 DEF PutResult, Goto, NextRequest, ClientTypeOK, mainVars
  <2>8. ClientControl'
    <3>. SUFFICES ASSUME NEW u \in Numbers
                  PROVE  /\ cpc'[u] = "new" => it'[u] = 0
                         /\ cpc'[u] \in {"send", "receive", "put"} => it'[u] < Requests
                         /\ cpc'[u] = "put" => accepted'[u] # NoDatagram
      BY DEF ClientControl
    <3>1. CASE u = t
      BY <1>0, <1>6, <2>2, <3>1 DEF PutResult, Goto, NextRequest, ClientTypeOK
    <3>2. CASE u # t
      BY <1>6, <3>2 DEF PutResult, Goto, ClientTypeOK, ClientControl
    <3>. QED BY <3>1, <3>2
  <2>. QED BY <2>1, <2>7, <2>8
<1>7. CASE PutInterrupted(t)
  <2>1. NetTypeOK'
    BY <1>7, NetSteps DEF PutInterrupted
  <2>2. ClientTypeOK'
    BY <1>7 DEF PutInterrupted, Goto, ClientTypeOK, mainVars
  <2>3. ClientControl'
    BY <1>7 DEF PutInterrupted, Goto, ClientTypeOK, ClientControl
  <2>. QED BY <2>1, <2>2, <2>3
<1>8. CASE Finally(t)
  <2>1. NetTypeOK'
    BY <1>8, NetSteps DEF Finally
  <2>2. ClientTypeOK'
    BY <1>8 DEF Finally, Goto, ClientTypeOK, mainVars
  <2>3. ClientControl'
    BY <1>8 DEF Finally, Goto, ClientTypeOK, ClientControl
  <2>. QED BY <2>1, <2>2, <2>3
<1>9. CASE PutBlank(t)
  <2>1. NetTypeOK'
    BY <1>9, NetSteps DEF PutBlank
  <2>2. result' \in Seq(ToClient \cup {Blank})
    BY <1>9 DEF PutBlank, ClientTypeOK
  <2>3. ClientTypeOK'
    BY <1>9, <2>2 DEF PutBlank, Goto, ClientTypeOK, mainVars
  <2>4. ClientControl'
    BY <1>9 DEF PutBlank, Goto, ClientTypeOK, ClientControl
  <2>. QED BY <2>1, <2>3, <2>4
<1>. QED
  BY <1>1, <1>2, <1>3, <1>4, <1>5, <1>6, <1>7, <1>8, <1>9 DEF ThreadStep

\* The thread that is in run().
LEMMA MainTypes ==
    ASSUME NetTypeOK, ClientTypeOK, ClientControl, MainStep \/ InterruptRun
    PROVE  NetTypeOK' /\ ClientTypeOK' /\ ClientControl'
<1>1. NetTypeOK'
  BY NetSteps
     DEF MainStep, CheckWorkers, CheckSize, TakeLine, TakeLineInterrupted, CloseClientSocket,
         ShutdownThreads, AwaitThreads, EndRun, InterruptRun
<1>2. UNCHANGED <<cpc, it, accepted, lines>>
  BY DEF MainStep, CheckWorkers, CheckSize, TakeLine, TakeLineInterrupted, CloseClientSocket,
         ShutdownThreads, AwaitThreads, EndRun, InterruptRun, threadVars
<1>3. copen' \in [Numbers -> BOOLEAN] /\ cint' \in [Numbers -> BOOLEAN]
  BY DEF MainStep, CheckWorkers, CheckSize, TakeLine, TakeLineInterrupted, CloseClientSocket,
         ShutdownThreads, AwaitThreads, EndRun, InterruptRun, threadVars, ClientTypeOK
<1>4. result' \in Seq(ToClient \cup {Blank})
  <2>1. CASE TakeLine
    BY <2>1 DEF TakeLine, ClientTypeOK
  <2>2. CASE EndRun
    BY <2>2 DEF EndRun, ClientTypeOK
  <2>3. CASE UNCHANGED result
    BY <2>3 DEF ClientTypeOK
  <2>. QED
    BY <2>1, <2>2, <2>3
       DEF MainStep, CheckWorkers, CheckSize, TakeLineInterrupted, CloseClientSocket,
           ShutdownThreads, AwaitThreads, InterruptRun
<1>5. workers' \in Int /\ mint' \in BOOLEAN /\ stopped' \in BOOLEAN
  <2>1. workers' = workers \/ workers' = 0
    BY DEF MainStep, CheckWorkers, CheckSize, TakeLine, TakeLineInterrupted, CloseClientSocket,
           ShutdownThreads, AwaitThreads, EndRun, InterruptRun, mainVars
  <2>2. UNCHANGED <<mint, stopped>> \/ (mint' = FALSE /\ UNCHANGED stopped)
        \/ (mint' = TRUE /\ stopped' = TRUE)
    BY DEF MainStep, CheckWorkers, CheckSize, TakeLine, TakeLineInterrupted, CloseClientSocket,
           ShutdownThreads, AwaitThreads, EndRun, InterruptRun, mainVars
  <2>3. workers' \in Int
    BY <2>1 DEF ClientTypeOK
  <2>4. mint' \in BOOLEAN /\ stopped' \in BOOLEAN
    BY <2>2 DEF ClientTypeOK
  <2>. QED BY <2>3, <2>4
<1>6. mpc' \in {"workers", "size", "take", "close", "await", "end", "returned"}
  BY DEF MainStep, CheckWorkers, CheckSize, TakeLine, TakeLineInterrupted, CloseClientSocket,
         ShutdownThreads, AwaitThreads, EndRun, InterruptRun, mainVars, ClientTypeOK
<1>. QED
  BY <1>1, <1>2, <1>3, <1>4, <1>5, <1>6 DEF ClientTypeOK, ClientControl

\* The server: the threads that receive and answer.
LEMMA ReaderTypes ==
    ASSUME NetTypeOK, ServerTypeOK, ServerControl, ReaderStep
    PROVE  NetTypeOK' /\ ServerTypeOK' /\ ServerControl'
<1>1. CASE ReceiveRequest
  <2>1. PICK m \in net :
            /\ m.to = Server /\ Deliver(m) /\ got' = m
            /\ owed' = [owed EXCEPT ![m.body] = @ + 1]
    BY <1>1 DEF ReceiveRequest
  <2>2. NetTypeOK' /\ m \in ToServer /\ m.body \in Bodies /\ m # NoDatagram
    BY <2>1, NetSteps, DatagramFields
  <2>3. reader' = "put"
        /\ UNCHANGED <<sopen, rint, packets, spc, sint, holding, kpc, kint>>
    BY <1>1 DEF ReceiveRequest, workerVars, closerVars
  <2>4. owed' \in [Bodies -> Int]
    BY <2>1, <2>2 DEF ServerTypeOK
  <2>5. ServerTypeOK'
    BY <2>1, <2>2, <2>3, <2>4 DEF ServerTypeOK
  <2>. QED BY <2>1, <2>2, <2>3, <2>5 DEF ServerControl
<1>2. CASE ReceiveFails
  <2>1. NetTypeOK'
    BY <1>2, NetSteps DEF ReceiveFails
  <2>. QED
    BY <1>2, <2>1 DEF ReceiveFails, ServerTypeOK, ServerControl, workerVars, closerVars
<1>3. CASE PutRequest
  <2>1. NetTypeOK'
    BY <1>3, NetSteps DEF PutRequest
  <2>2. got \in ToServer
    BY <1>3 DEF PutRequest, ServerTypeOK, ServerControl
  <2>3. packets' \in Seq(ToServer)
    BY <1>3, <2>2 DEF PutRequest, ServerTypeOK
  <2>4. ServerTypeOK'
    BY <1>3, <2>3 DEF PutRequest, ServerTypeOK, workerVars, closerVars
  <2>5. ServerControl'
    BY <1>3 DEF PutRequest, ServerControl, workerVars
  <2>. QED BY <2>1, <2>4, <2>5
<1>. QED BY <1>1, <1>2, <1>3 DEF ReaderStep

LEMMA WorkerTypes ==
    ASSUME NetTypeOK, ServerTypeOK, ServerControl, NEW w \in Workers, WorkerStep(w)
    PROVE  NetTypeOK' /\ ServerTypeOK' /\ ServerControl'
<1>1. CASE TakeRequest(w)
  <2>1. NetTypeOK'
    BY <1>1, NetSteps DEF TakeRequest
  <2>2. Head(packets) \in ToServer /\ Tail(packets) \in Seq(ToServer)
    BY <1>1 DEF TakeRequest, ServerTypeOK
  <2>3. Head(packets) # NoDatagram
    BY <2>2, DatagramFields DEF Datagram
  <2>4. ServerTypeOK'
    BY <1>1, <2>2 DEF TakeRequest, ServerTypeOK, readerVars, closerVars
  <2>5. ServerControl'
    BY <1>1, <2>3 DEF TakeRequest, ServerTypeOK, ServerControl, readerVars
  <2>. QED BY <2>1, <2>4, <2>5
<1>2. CASE TakeInterrupted(w)
  <2>1. NetTypeOK'
    BY <1>2, NetSteps DEF TakeInterrupted
  <2>2. ServerTypeOK'
    BY <1>2 DEF TakeInterrupted, ServerTypeOK, readerVars, closerVars
  <2>3. ServerControl'
    BY <1>2 DEF TakeInterrupted, ServerTypeOK, ServerControl, readerVars
  <2>. QED BY <2>1, <2>2, <2>3
<1>3. CASE SendAnswer(w)
  <2>. DEFINE m == holding[w]
  <2>1. m \in ToServer
    BY <1>3 DEF SendAnswer, ServerTypeOK, ServerControl
  <2>2. m.from \in Numbers /\ m.body \in Bodies
    BY <2>1, DatagramFields DEF Datagram
  <2>3. Hello(Server, m.from, m.body) \in Datagram
    BY <2>2 DEF Datagram, ToClient
  <2>4. NetTypeOK'
    BY <1>3, <2>3, NetSteps DEF SendAnswer
  <2>5. owed' \in [Bodies -> Int]
    BY <1>3, <2>2 DEF SendAnswer, ServerTypeOK
  <2>6. ServerTypeOK'
    BY <1>3, <2>5 DEF SendAnswer, ServerTypeOK, readerVars, closerVars
  <2>7. ServerControl'
    BY <1>3 DEF SendAnswer, ServerTypeOK, ServerControl, readerVars
  <2>. QED BY <2>4, <2>6, <2>7
<1>4. CASE SendFails(w)
  <2>1. NetTypeOK'
    BY <1>4, NetSteps DEF SendFails
  <2>2. ServerTypeOK'
    BY <1>4 DEF SendFails, ServerTypeOK, readerVars, closerVars
  <2>3. ServerControl'
    BY <1>4 DEF SendFails, ServerTypeOK, ServerControl, readerVars
  <2>. QED BY <2>1, <2>2, <2>3
<1>. QED BY <1>1, <1>2, <1>3, <1>4 DEF WorkerStep

\* The thread that starts and closes the server.
LEMMA CloserTypes ==
    ASSUME NetTypeOK, ServerTypeOK, ServerControl,
           StartServer \/ CloseSocket \/ CloserStep \/ InterruptCloser
    PROVE  NetTypeOK' /\ ServerTypeOK' /\ ServerControl'
<1>1. NetTypeOK'
  BY NetSteps
     DEF StartServer, CloseSocket, CloserStep, InterruptCloser, InterruptReader, JoinReader,
         JoinInterrupted, ShutdownPool, AwaitPool, AwaitInterrupted
<1>2. CASE StartServer
  BY <1>1, <1>2 DEF StartServer, ServerTypeOK, ServerControl
<1>3. CASE CloseSocket \/ InterruptCloser
  BY <1>1, <1>3
     DEF CloseSocket, InterruptCloser, ServerTypeOK, ServerControl, readerVars, workerVars
<1>4. CASE InterruptReader \/ JoinReader \/ JoinInterrupted
  <2>1. UNCHANGED <<sopen, reader, got, packets, spc, sint, holding, owed>>
    BY <1>4 DEF InterruptReader, JoinReader, JoinInterrupted, readerVars, workerVars
  <2>2. rint' \in BOOLEAN
    BY <1>4 DEF InterruptReader, JoinReader, JoinInterrupted, readerVars, ServerTypeOK
  <2>3. kint' \in BOOLEAN /\ kpc' \in {"join", "shutdown"}
    BY <1>4 DEF InterruptReader, JoinReader, JoinInterrupted, ServerTypeOK
  <2>. QED BY <1>1, <2>1, <2>2, <2>3 DEF ServerTypeOK, ServerControl
<1>5. CASE ShutdownPool \/ AwaitPool \/ AwaitInterrupted
  <2>1. UNCHANGED <<sopen, reader, rint, got, packets, spc, holding, kint, owed>>
    BY <1>5 DEF ShutdownPool, AwaitPool, AwaitInterrupted, readerVars, workerVars
  <2>2. sint' \in [Workers -> BOOLEAN]
    BY <1>5 DEF ShutdownPool, AwaitPool, AwaitInterrupted, workerVars, ServerTypeOK
  <2>3. kpc' \in {"closed", "await"}
    BY <1>5 DEF ShutdownPool, AwaitPool, AwaitInterrupted
  <2>. QED BY <1>1, <2>1, <2>2, <2>3 DEF ServerTypeOK, ServerControl
<1>. QED BY <1>2, <1>3, <1>4, <1>5 DEF CloserStep

LEMMA NextTypeInv == TypeInv /\ [Next]_vars => TypeInv'
<1>. SUFFICES ASSUME NetTypeOK, ClientTypeOK, ServerTypeOK, ClientControl, ServerControl,
                     [Next]_vars
              PROVE  TypeInv'
  BY DEF TypeInv, TypeOK
<1>1. UNCHANGED serverVars => ServerTypeOK' /\ ServerControl'
  BY DEF serverVars, readerVars, workerVars, closerVars, ServerTypeOK, ServerControl
<1>2. UNCHANGED clientVars => ClientTypeOK' /\ ClientControl'
  BY DEF clientVars, threadVars, mainVars, ClientTypeOK, ClientControl
<1>3. ASSUME NEW t \in Numbers, ThreadStep(t, NothingComes(t)), UNCHANGED serverVars
      PROVE  TypeInv'
  <2>1. NothingComes(t) \in BOOLEAN
    BY DEF NothingComes
  <2>2. PICK nothing \in BOOLEAN : ThreadStep(t, nothing)
    BY <1>3, <2>1
  <2>3. NetTypeOK' /\ ClientTypeOK' /\ ClientControl'
    BY <2>2, ThreadTypes
  <2>. QED BY <1>1, <1>3, <2>3 DEF TypeInv, TypeOK
<1>4. CASE (MainStep \/ InterruptRun) /\ UNCHANGED serverVars
  BY <1>1, <1>4, MainTypes DEF TypeInv, TypeOK
<1>5. CASE ServerStep /\ UNCHANGED clientVars
  <2>1. NetTypeOK' /\ ServerTypeOK' /\ ServerControl'
    BY <1>5, ReaderTypes, WorkerTypes, CloserTypes DEF ServerStep
  <2>. QED BY <1>2, <1>5, <2>1 DEF TypeInv, TypeOK
<1>6. CASE NetStep /\ UNCHANGED <<clientVars, serverVars>>
  BY <1>1, <1>2, <1>6, NetSteps DEF TypeInv, TypeOK
<1>7. CASE UNCHANGED vars
  BY <1>1, <1>2, <1>7, NetSteps DEF TypeInv, TypeOK, vars
<1>. QED BY <1>3, <1>4, <1>5, <1>6, <1>7 DEF Next

LEMMA TypeInvariant == Spec => []TypeInv
<1>1. Init => TypeInv
  <2>. SUFFICES ASSUME Init PROVE TypeInv
    OBVIOUS
  <2>1. NetTypeOK
    BY HelloBoundsAssumption DEF Init, NetInit, NetTypeOK
  <2>2. ClientTypeOK /\ ClientControl
    <3>1. it \in [Numbers -> 0..Requests] /\ workers \in Int
      BY HelloBoundsAssumption DEF Init, ClientInit
    <3>2. lines \in [Numbers -> Seq(ToClient)] /\ result \in Seq(ToClient \cup {Blank})
      <4>1. <<>> \in Seq(ToClient) /\ <<>> \in Seq(ToClient \cup {Blank})
        OBVIOUS
      <4>. QED BY <4>1 DEF Init, ClientInit
    <3>3. mint \in BOOLEAN /\ stopped \in BOOLEAN
      BY DEF Init, ClientInit
    <3>4. /\ cpc \in [Numbers -> {"new", "send", "receive", "put", "finally", "last", "dead"}]
          /\ copen \in [Numbers -> BOOLEAN] /\ cint \in [Numbers -> BOOLEAN]
          /\ accepted \in [Numbers -> ToClient \cup {NoDatagram}]
      BY DEF Init, ClientInit
    <3>5. mpc \in {"workers", "size", "take", "close", "await", "end", "returned"}
      BY DEF Init, ClientInit
    <3>6. ClientControl
      BY DEF Init, ClientInit, ClientControl
    <3>. QED BY <3>1, <3>2, <3>3, <3>4, <3>5, <3>6 DEF ClientTypeOK
  <2>3. ServerTypeOK /\ ServerControl
    <3>1. packets \in Seq(ToServer)
      BY DEF Init, ServerInit
    <3>2. rint \in BOOLEAN /\ kint \in BOOLEAN /\ sopen \in BOOLEAN
      BY DEF Init, ServerInit
    <3>3. /\ spc \in [Workers -> {"new", "take", "send", "dead"}]
          /\ sint \in [Workers -> BOOLEAN]
          /\ holding \in [Workers -> ToServer \cup {NoDatagram}]
          /\ owed \in [Bodies -> Int]
      BY DEF Init, ServerInit
    <3>4. reader = "new" /\ got = NoDatagram /\ kpc = "new"
      BY DEF Init, ServerInit
    <3>5. \A w \in Workers : spc[w] = "new"
      BY DEF Init, ServerInit
    <3>. QED BY <3>1, <3>2, <3>3, <3>4, <3>5 DEF ServerTypeOK, ServerControl
  <2>. QED BY <2>1, <2>2, <2>3 DEF TypeInv, TypeOK
<1>. QED BY <1>1, NextTypeInv, PTL DEF Spec

\* The variables keep their types: no thread asks for more than Requests
\* answers, and nothing but datagrams is on its way.
THEOREM TypeCorrect == Spec => []TypeOK
BY TypeInvariant, PTL DEF TypeInv

-----------------------------------------------------------------------------
(* Each thread gets its own answers.                                       *)

\* What makes OwnAnswers inductive: the number of lines is the number of the
\* request, and what is about to become a line answers it.
LinesInv ==
    \A t \in Numbers :
        /\ Len(lines[t]) = it[t]
        /\ cpc[t] = "put" => accepted[t] = Hello(Server, t, <<t, it[t]>>)
        /\ \A k \in 1..it[t] : lines[t][k] = Hello(Server, t, <<t, k - 1>>)

LEMMA LinesKept ==
    ASSUME LinesInv, NEW t \in Numbers, it'[t] = it[t], lines'[t] = lines[t],
           cpc'[t] # "put" \/ (cpc[t] = "put" /\ accepted'[t] = accepted[t])
    PROVE  /\ Len(lines'[t]) = it'[t]
           /\ cpc'[t] = "put" => accepted'[t] = Hello(Server, t, <<t, it'[t]>>)
           /\ \A k \in 1..it'[t] : lines'[t][k] = Hello(Server, t, <<t, k - 1>>)
BY DEF LinesInv

LEMMA ThreadLines ==
    ASSUME TypeInv, LinesInv, NEW t \in Numbers, NEW nothing \in BOOLEAN, ThreadStep(t, nothing)
    PROVE  LinesInv'
<1>0. NetTypeOK /\ ClientTypeOK /\ ClientControl
  BY DEF TypeInv, TypeOK
<1>1. ASSUME NEW u \in Numbers, u # t
      PROVE  /\ it'[u] = it[u] /\ lines'[u] = lines[u]
             /\ cpc'[u] = cpc[u] /\ accepted'[u] = accepted[u]
  BY <1>0, <1>1
     DEF ThreadStep, Work, SendRequest, ReceiveAnswer, TimeOut, ReceiveClosed, PutResult,
         PutInterrupted, Finally, PutBlank, Goto, ClientTypeOK
<1>2. /\ Len(lines'[t]) = it'[t]
      /\ cpc'[t] = "put" => accepted'[t] = Hello(Server, t, <<t, it'[t]>>)
      /\ \A k \in 1..it'[t] : lines'[t][k] = Hello(Server, t, <<t, k - 1>>)
  <2>1. CASE ReceiveAnswer(t)
    <3>1. PICK m \in net :
              /\ m.to = t
              /\ \/ Accepts(t, m) /\ accepted' = [accepted EXCEPT ![t] = m]
                 \/ UNCHANGED <<accepted, cpc>>
      BY <2>1 DEF ReceiveAnswer
    <3>2. UNCHANGED <<it, lines>> /\ cpc[t] = "receive" /\ m \in Datagram
      BY <1>0, <2>1 DEF ReceiveAnswer, NetTypeOK
    <3>3. CASE Accepts(t, m) /\ accepted' = [accepted EXCEPT ![t] = m]
      <4>1. accepted'[t] = Hello(Server, t, <<t, it[t]>>)
        BY <1>0, <3>1, <3>2, <3>3, AcceptedIsAnswer DEF ClientTypeOK
      <4>. QED BY <3>2, <4>1 DEF LinesInv
    <3>4. CASE UNCHANGED <<accepted, cpc>>
      BY <3>2, <3>4, LinesKept
    <3>. QED BY <3>1, <3>3, <3>4
  <2>2. CASE PutResult(t)
    <3>. DEFINE i == it[t]
                s == lines[t]
                a == accepted[t]
    <3>1. s \in Seq(ToClient) /\ i \in Nat /\ Len(s) = i
      <4>1. s \in Seq(ToClient)
        BY <1>0 DEF ClientTypeOK
      <4>2. i \in 0..Requests
        BY <1>0 DEF ClientTypeOK
      <4>3. Len(s) = i
        BY DEF LinesInv
      <4>. QED BY <4>1, <4>2, <4>3, HelloBoundsAssumption
    <3>2. a = Hello(Server, t, <<t, i>>) /\ a \in ToClient
      BY <1>0, <2>2 DEF PutResult, LinesInv, ClientControl, ClientTypeOK
    <3>3. \A k \in 1..i : s[k] = Hello(Server, t, <<t, k - 1>>)
      BY DEF LinesInv
    <3>4. lines'[t] = Append(s, a) /\ it'[t] = i + 1
      BY <1>0, <2>2 DEF PutResult, ClientTypeOK
    <3>5. cpc'[t] # "put"
      BY <1>0, <2>2 DEF PutResult, Goto, NextRequest, ClientTypeOK
    <3>. HIDE DEF i, s, a
    <3>6. Len(lines'[t]) = i + 1
      BY <3>1, <3>2, <3>4
    <3>7. ASSUME NEW k \in 1..(i + 1)
          PROVE  lines'[t][k] = Hello(Server, t, <<t, k - 1>>)
      <4>1. CASE k \in 1..i
        <5>1. lines'[t][k] = s[k]
          BY <3>1, <3>2, <3>4, <4>1
        <5>. QED BY <3>3, <4>1, <5>1
      <4>2. CASE k = i + 1
        <5>1. lines'[t][k] = a /\ k - 1 = i
          BY <3>1, <3>2, <3>4, <4>2
        <5>. QED BY <3>2, <5>1
      <4>. QED BY <3>1, <4>1, <4>2
    <3>. QED BY <3>4, <3>5, <3>6, <3>7
  <2>3. CASE ~ReceiveAnswer(t) /\ ~PutResult(t)
    <3>1. it'[t] = it[t] /\ lines'[t] = lines[t]
      BY <1>0, <2>3
         DEF ThreadStep, Work, SendRequest, TimeOut, ReceiveClosed, PutInterrupted, Finally, PutBlank
    <3>2. cpc'[t] # "put"
      BY <1>0, <2>3
         DEF ThreadStep, Work, SendRequest, TimeOut, ReceiveClosed, PutInterrupted, Finally,
             PutBlank, Goto, NextRequest, ClientTypeOK
    <3>. QED BY <3>1, <3>2, LinesKept
  <2>. QED BY <2>1, <2>2, <2>3
<1>3. ASSUME NEW u \in Numbers, u # t
      PROVE  /\ Len(lines'[u]) = it'[u]
             /\ cpc'[u] = "put" => accepted'[u] = Hello(Server, u, <<u, it'[u]>>)
             /\ \A k \in 1..it'[u] : lines'[u][k] = Hello(Server, u, <<u, k - 1>>)
  BY <1>1, <1>3, LinesKept
<1>. QED BY <1>2, <1>3 DEF LinesInv

LEMMA NextLines == TypeInv /\ LinesInv /\ [Next]_vars => LinesInv'
<1>. SUFFICES ASSUME TypeInv, LinesInv, [Next]_vars PROVE LinesInv'
  OBVIOUS
<1>1. CASE UNCHANGED <<cpc, it, accepted, lines>>
  BY <1>1 DEF LinesInv
<1>2. ASSUME NEW t \in Numbers, ThreadStep(t, NothingComes(t))
      PROVE  LinesInv'
  <2>1. PICK nothing \in BOOLEAN : ThreadStep(t, nothing)
    BY <1>2 DEF NothingComes
  <2>. QED BY <2>1, ThreadLines
<1>3. CASE MainStep \/ InterruptRun
  <2>1. UNCHANGED <<cpc, it, accepted, lines>>
    BY <1>3
       DEF MainStep, CheckWorkers, CheckSize, TakeLine, TakeLineInterrupted, CloseClientSocket,
           ShutdownThreads, AwaitThreads, EndRun, InterruptRun, threadVars
  <2>. QED BY <1>1, <2>1
<1>4. CASE UNCHANGED clientVars
  BY <1>1, <1>4 DEF clientVars, threadVars
<1>. QED BY <1>2, <1>3, <1>4 DEF Next, vars

\* Every line that a thread puts into the queue is the server's answer to the
\* request of that thread whose turn it is, whatever else the network brings.
THEOREM AnswersAreOwn == Spec => []OwnAnswers
<1>1. Init => LinesInv
  BY DEF Init, ClientInit, LinesInv
<1>2. TypeInv /\ LinesInv => OwnAnswers
  <2>. SUFFICES ASSUME TypeInv, LinesInv, NEW t \in Numbers, NEW k \in DOMAIN lines[t]
                PROVE  lines[t][k] = Hello(Server, t, <<t, k - 1>>)
    BY DEF OwnAnswers
  <2>1. lines[t] \in Seq(ToClient)
    BY DEF TypeInv, TypeOK, ClientTypeOK
  <2>2. k \in 1..Len(lines[t])
    BY <2>1
  <2>3. k \in 1..it[t]
    BY <2>2 DEF LinesInv
  <2>. QED BY <2>3 DEF LinesInv
<1>. QED BY <1>1, <1>2, NextLines, TypeInvariant, PTL DEF Spec

-----------------------------------------------------------------------------
(* close() leaves no thread of the server behind.                          *)

CloseInv ==
    /\ kpc \in {"interrupt", "join", "shutdown", "await", "closed"} => ~sopen
    /\ kpc \in {"shutdown", "await", "closed"} => reader = "dead"
    /\ kpc = "closed" /\ ~kint => PoolEnded

LEMMA NextClose == TypeInv /\ CloseInv /\ [Next]_vars => CloseInv'
<1>. SUFFICES ASSUME TypeInv, CloseInv, [Next]_vars PROVE CloseInv'
  OBVIOUS
<1>1. CASE UNCHANGED serverVars
  BY <1>1 DEF serverVars, readerVars, workerVars, closerVars, CloseInv, PoolEnded
<1>2. CASE ReaderStep
  BY <1>2
     DEF ReaderStep, ReceiveRequest, ReceiveFails, PutRequest, workerVars, closerVars,
         CloseInv, PoolEnded
<1>3. ASSUME NEW w \in Workers, WorkerStep(w)
      PROVE  CloseInv'
  <2>1. UNCHANGED <<kpc, kint, sopen, reader>> /\ spc[w] # "dead"
    BY <1>3
       DEF WorkerStep, TakeRequest, TakeInterrupted, SendAnswer, SendFails, readerVars, closerVars
  <2>2. ~PoolEnded
    BY <2>1 DEF PoolEnded
  <2>. QED BY <2>1, <2>2 DEF CloseInv
<1>4. CASE StartServer
  BY <1>4 DEF StartServer, CloseInv
<1>5. CASE CloseSocket
  BY <1>5 DEF CloseSocket, CloseInv
<1>6. CASE InterruptReader \/ JoinReader \/ JoinInterrupted
  BY <1>6 DEF InterruptReader, JoinReader, JoinInterrupted, readerVars, CloseInv
<1>7. CASE ShutdownPool \/ AwaitPool \/ AwaitInterrupted
  <2>1. UNCHANGED <<sopen, reader, spc, kint>>
    BY <1>7 DEF ShutdownPool, AwaitPool, AwaitInterrupted, readerVars, workerVars
  <2>2. kpc'= "closed" /\ ~kint => PoolEnded
    BY <1>7 DEF ShutdownPool, AwaitPool, AwaitInterrupted
  <2>3. kpc \in {"shutdown", "await"}
    BY <1>7 DEF ShutdownPool, AwaitPool, AwaitInterrupted
  <2>. QED BY <2>1, <2>2, <2>3 DEF CloseInv, PoolEnded
<1>8. CASE InterruptCloser
  BY <1>8 DEF InterruptCloser, readerVars, workerVars, CloseInv
<1>. QED
  BY <1>1, <1>2, <1>3, <1>4, <1>5, <1>6, <1>7, <1>8 DEF Next, ServerStep, CloserStep, vars

\* When close() has returned without being interrupted, the socket is closed
\* and every thread of the server has ended.
THEOREM ServerHasStopped == Spec => []ServerStops
<1>1. Init => CloseInv
  BY DEF Init, ServerInit, CloseInv
<1>2. CloseInv => ServerStops
  BY DEF CloseInv, ServerStops
<1>. QED BY <1>1, <1>2, NextClose, TypeInvariant, PTL DEF Spec

-----------------------------------------------------------------------------
(* A run that nobody interrupts is complete. workers counts the threads    *)
(* that have not counted themselves out; nothing is interrupted or closed  *)
(* before they all have.                                                   *)

Active == {t \in Numbers : cpc[t] \notin {"last", "dead"}}

CountInv == mpc # "returned" => workers = Cardinality(Active)

\* What holds of the thread t while run() is not interrupted.
ThreadInv(t) ==
    /\ t \in Active => copen[t] /\ ~cint[t]
    /\ cpc[t] \in {"finally", "last", "dead"} => it[t] = Requests
    /\ cpc[t] \in {"last", "dead"} => ~copen[t]

QuietInv ==
    /\ mpc \in {"size", "close", "await", "end", "returned"} => Active = {}
    /\ mpc \in {"close", "await", "end", "returned"} =>
        \A k \in DOMAIN result : result[k] = Blank
    /\ mpc \in {"end", "returned"} => ThreadsEnded

RunInv ==
    /\ mint => stopped
    /\ ~stopped => CountInv /\ QuietInv /\ \A t \in Numbers : ThreadInv(t)

LEMMA ActiveFinite == IsFiniteSet(Active) /\ Cardinality(Active) \in Nat
<1>1. IsFiniteSet(Numbers)
  BY HelloBoundsAssumption, FS_Interval DEF Numbers
<1>2. IsFiniteSet(Active)
  BY <1>1, FS_Subset DEF Active
<1>. QED BY <1>2, FS_CardinalityType

\* A queue of blanks stays one.
LEMMA OnlyBlanks ==
    ASSUME NEW S, NEW q \in Seq(S), NEW b \in S, \A k \in DOMAIN q : q[k] = b
    PROVE  \A k \in DOMAIN Append(q, b) : Append(q, b)[k] = b
<1>. SUFFICES ASSUME NEW k \in 1..(Len(q) + 1) PROVE Append(q, b)[k] = b
  OBVIOUS
<1>1. CASE k = Len(q) + 1
  BY <1>1
<1>2. CASE k \in 1..Len(q)
  <2>1. Append(q, b)[k] = q[k] /\ k \in DOMAIN q
    BY <1>2
  <2>. QED BY <2>1
<1>. QED BY <1>1, <1>2

\* The steps of the other threads do not matter to a thread.
LEMMA OthersKept ==
    ASSUME ClientTypeOK, NEW t \in Numbers, NEW nothing \in BOOLEAN, ThreadStep(t, nothing),
           NEW u \in Numbers, u # t
    PROVE  /\ cpc'[u] = cpc[u] /\ it'[u] = it[u]
           /\ copen'[u] = copen[u] /\ cint'[u] = cint[u]
BY DEF ThreadStep, Work, SendRequest, ReceiveAnswer, TimeOut, ReceiveClosed, PutResult,
       PutInterrupted, Finally, PutBlank, Goto, ClientTypeOK

LEMMA ThreadRun ==
    ASSUME TypeInv, RunInv, ~stopped, NEW t \in Numbers, NEW nothing \in BOOLEAN,
           ThreadStep(t, nothing)
    PROVE  RunInv'
<1>0. /\ ClientTypeOK /\ ClientControl /\ CountInv /\ QuietInv
      /\ \A u \in Numbers : ThreadInv(u)
  BY DEF TypeInv, TypeOK, RunInv
<1>1. UNCHANGED <<mpc, mint, stopped>>
  BY DEF ThreadStep, Work, SendRequest, ReceiveAnswer, TimeOut, ReceiveClosed, PutResult,
         PutInterrupted, Finally, PutBlank, mainVars
<1>2. ASSUME NEW u \in Numbers, u # t
      PROVE  ThreadInv(u)' /\ (u \in Active' <=> u \in Active)
  BY <1>0, <1>2, OthersKept DEF ThreadInv, Active
<1>3. ThreadInv(t)'
  <2>1. CASE cpc[t] = "last"
    <3>1. PutBlank(t)
      BY <2>1 DEF ThreadStep, Work, SendRequest, ReceiveAnswer, TimeOut, ReceiveClosed,
                  PutResult, PutInterrupted, Finally, PutBlank
    <3>2. cpc'[t] = "dead" /\ it'[t] = it[t] /\ copen'[t] = copen[t]
      BY <1>0, <3>1 DEF PutBlank, Goto, ClientTypeOK
    <3>. QED BY <1>0, <2>1, <3>2 DEF ThreadInv, Active
  <2>2. CASE Finally(t)
    <3>1. cpc'[t] \in {"last", "dead"} /\ it'[t] = it[t] /\ copen'[t] = FALSE
      BY <1>0, <2>2 DEF Finally, Goto, ClientTypeOK
    <3>2. cpc[t] = "finally"
      BY <2>2 DEF Finally
    <3>. QED BY <1>0, <3>1, <3>2 DEF ThreadInv, Active
  <2>3. CASE cpc[t] # "last" /\ ~Finally(t)
    <3>1. t \in Active
      BY <2>3 DEF Active, ThreadStep, Work, SendRequest, ReceiveAnswer, TimeOut, ReceiveClosed,
                  PutResult, PutInterrupted, Finally, PutBlank
    <3>2. copen[t] /\ ~cint[t]
      BY <1>0, <3>1 DEF ThreadInv
    <3>3. copen'[t] = copen[t] /\ cint'[t] = cint[t]
      BY <2>3, <3>2
         DEF ThreadStep, Work, SendRequest, ReceiveAnswer, TimeOut, ReceiveClosed, PutResult,
             PutInterrupted, PutBlank
    <3>4. cpc'[t] \notin {"last", "dead"}
      BY <1>0, <2>3, <3>2
         DEF ThreadStep, Work, SendRequest, ReceiveAnswer, TimeOut, ReceiveClosed, PutResult,
             PutInterrupted, PutBlank, Goto, NextRequest, ClientTypeOK
    <3>5. cpc'[t] = "finally" => it'[t] = Requests
      <4>1. CASE Work(t)
        <5>1. it[t] = 0 /\ UNCHANGED it
          BY <1>0, <4>1 DEF Work, ClientControl
        <5>. QED BY <1>0, <3>2, <4>1, <5>1 DEF Work, Goto, NextRequest, ClientTypeOK
      <4>2. CASE PutResult(t)
        BY <1>0, <4>2 DEF PutResult, Goto, NextRequest, ClientTypeOK
      <4>3. CASE ~Work(t) /\ ~PutResult(t)
        <5>1. cpc'[t] # "finally"
          BY <1>0, <2>3, <3>2, <4>3
             DEF ThreadStep, SendRequest, ReceiveAnswer, TimeOut, ReceiveClosed,
                 PutInterrupted, PutBlank, Goto, ClientTypeOK
        <5>. QED BY <5>1
      <4>. QED BY <4>1, <4>2, <4>3
    <3>. QED BY <3>2, <3>3, <3>4, <3>5 DEF ThreadInv
  <2>. QED BY <2>1, <2>2, <2>3
<1>4. CountInv'
  <2>1. CASE Finally(t)
    <3>1. t \in Active /\ cpc'[t] \in {"last", "dead"}
      BY <1>0, <2>1 DEF Finally, Goto, Active, ClientTypeOK
    <3>2. Active' = Active \ {t}
      BY <1>2, <3>1 DEF Active
    <3>3. Cardinality(Active') = Cardinality(Active) - 1
      BY <3>1, <3>2, ActiveFinite, FS_RemoveElement
    <3>. QED BY <1>0, <1>1, <2>1, <3>3 DEF Finally, CountInv
  <2>2. CASE ~Finally(t)
    <3>1. UNCHANGED workers
      BY <2>2 DEF ThreadStep, Work, SendRequest, ReceiveAnswer, TimeOut, ReceiveClosed,
                  PutResult, PutInterrupted, PutBlank
    <3>2. t \in Active' <=> t \in Active
      BY <1>0, <2>2
         DEF ThreadStep, Work, SendRequest, ReceiveAnswer, TimeOut, ReceiveClosed, PutResult,
             PutInterrupted, PutBlank, Goto, NextRequest, Active, ClientTypeOK
    <3>3. Active' = Active
      BY <1>2, <3>2 DEF Active
    <3>. QED BY <1>0, <1>1, <3>1, <3>3 DEF CountInv
  <2>. QED BY <2>1, <2>2
<1>5. QuietInv'
  <2>1. CASE mpc \notin {"size", "close", "await", "end", "returned"}
    BY <1>1, <2>1 DEF QuietInv
  <2>2. CASE mpc \in {"size", "close", "await", "end", "returned"}
    <3>1. Active = {} /\ cpc[t] \in {"last", "dead"}
      BY <1>0, <2>2 DEF QuietInv, Active
    <3>2. PutBlank(t) /\ cpc[t] = "last"
      BY <3>1 DEF ThreadStep, Work, SendRequest, ReceiveAnswer, TimeOut, ReceiveClosed,
                  PutResult, PutInterrupted, Finally, PutBlank
    <3>3. cpc'[t] = "dead"
      BY <1>0, <3>2 DEF PutBlank, Goto, ClientTypeOK
    <3>4. Active' = {}
      BY <1>2, <3>1, <3>3 DEF Active
    <3>5. mpc \notin {"end", "returned"}
      BY <1>0, <3>2 DEF QuietInv, ThreadsEnded
    <3>6. mpc \in {"close", "await"} => \A k \in DOMAIN result' : result'[k] = Blank
      <4>. SUFFICES ASSUME mpc \in {"close", "await"}
                    PROVE  \A k \in DOMAIN result' : result'[k] = Blank
        OBVIOUS
      <4>1. \A k \in DOMAIN result : result[k] = Blank
        BY <1>0 DEF QuietInv
      <4>2. result \in Seq(ToClient \cup {Blank})
        BY <1>0 DEF ClientTypeOK
      <4>3. result' = result \/ result' = Append(result, Blank)
        BY <3>2 DEF PutBlank
      <4>. QED BY <4>1, <4>2, <4>3, OnlyBlanks
    <3>. QED BY <1>1, <3>4, <3>5, <3>6 DEF QuietInv
  <2>. QED BY <2>1, <2>2
<1>. QED
  <2>1. \A u \in Numbers : ThreadInv(u)'
    BY <1>2, <1>3
  <2>. QED BY <1>1, <1>4, <1>5, <2>1 DEF RunInv

\* print() and close() of the client.
LEMMA MainRun == ASSUME TypeInv, RunInv, ~stopped, MainStep PROVE RunInv'
<1>0. /\ ClientTypeOK /\ CountInv /\ QuietInv /\ ~mint
      /\ \A u \in Numbers : ThreadInv(u)
  BY DEF TypeInv, TypeOK, RunInv
<1>1. UNCHANGED <<cpc, it, mint, stopped>>
  BY <1>0
     DEF MainStep, CheckWorkers, CheckSize, TakeLine, TakeLineInterrupted, CloseClientSocket,
         ShutdownThreads, AwaitThreads, EndRun, threadVars, mainVars
<1>2. Active' = Active /\ (ThreadsEnded' <=> ThreadsEnded)
  BY <1>1 DEF Active, ThreadsEnded
<1>3. ASSUME NEW t \in Numbers
      PROVE  ThreadInv(t)'
  <2>1. CASE mpc = "close"
    <3>1. Active = {}
      BY <1>0, <2>1 DEF QuietInv
    <3>2. cpc[t] \in {"last", "dead"} /\ ~copen[t] /\ it[t] = Requests
      BY <1>0, <3>1 DEF Active, ThreadInv
    <3>3. ~copen'[t]
      BY <1>0, <2>1, <3>2
         DEF MainStep, CheckWorkers, CheckSize, TakeLine, TakeLineInterrupted, CloseClientSocket,
             ShutdownThreads, AwaitThreads, EndRun, ClientTypeOK
    <3>. QED BY <1>1, <1>2, <3>1, <3>2, <3>3 DEF ThreadInv
  <2>2. CASE mpc # "close"
    <3>1. UNCHANGED <<copen, cint>>
      BY <2>2
         DEF MainStep, CheckWorkers, CheckSize, TakeLine, TakeLineInterrupted, CloseClientSocket,
             ShutdownThreads, AwaitThreads, EndRun, threadVars
    <3>. QED BY <1>0, <1>1, <1>2, <3>1 DEF ThreadInv
  <2>. QED BY <2>1, <2>2
<1>4. CountInv'
  <2>1. mpc # "returned" /\ (mpc' # "returned" => UNCHANGED workers)
    BY DEF MainStep, CheckWorkers, CheckSize, TakeLine, TakeLineInterrupted, CloseClientSocket,
           ShutdownThreads, AwaitThreads, EndRun, mainVars
  <2>. QED BY <1>0, <1>2, <2>1 DEF CountInv
<1>5. QuietInv'
  <2>1. CASE CheckWorkers
    <3>1. workers = Cardinality(Active) /\ mpc' \in {"take", "size"}
      BY <1>0, <2>1 DEF CheckWorkers, CountInv
    <3>2. mpc' = "size" => Cardinality(Active) = 0
      BY <2>1, <3>1, ActiveFinite DEF CheckWorkers
    <3>3. mpc' = "size" => Active = {}
      BY <3>2, ActiveFinite, FS_EmptySet
    <3>. QED BY <1>2, <3>1, <3>3 DEF QuietInv
  <2>2. CASE CheckSize
    <3>1. mpc' \in {"take", "close"} /\ Active = {} /\ UNCHANGED result
      BY <1>0, <2>2 DEF CheckSize, QuietInv
    <3>2. mpc' = "close" => \A k \in DOMAIN result : result[k] = Blank
      BY <2>2 DEF CheckSize
    <3>. QED BY <1>2, <3>1, <3>2 DEF QuietInv
  <2>3. CASE TakeLine
    <3>1. workers \in Nat
      BY <1>0, <2>3, ActiveFinite DEF TakeLine, CountInv
    <3>2. mpc' = "workers"
      BY <2>3, <3>1 DEF TakeLine
    <3>. QED BY <3>2 DEF QuietInv
  <2>4. CASE TakeLineInterrupted
    BY <1>0, <2>4 DEF TakeLineInterrupted
  <2>5. CASE CloseClientSocket
    BY <1>0, <1>2, <2>5 DEF CloseClientSocket, mainVars, QuietInv
  <2>6. CASE ShutdownThreads \/ AwaitThreads
    <3>1. /\ UNCHANGED result
          /\ mpc \in {"close", "await"} /\ mpc' \in {"await", "end"}
          /\ mpc' = "end" => ThreadsEnded
      BY <1>0, <2>6 DEF ShutdownThreads, AwaitThreads, threadVars
    <3>. QED BY <1>0, <1>2, <3>1 DEF QuietInv
  <2>7. CASE EndRun
    <3>1. mpc = "end" /\ mpc' = "returned" /\ result' = Append(result, Blank)
      BY <1>0, <2>7 DEF EndRun
    <3>2. Active = {} /\ ThreadsEnded /\ \A k \in DOMAIN result : result[k] = Blank
      BY <1>0, <3>1 DEF QuietInv
    <3>3. result \in Seq(ToClient \cup {Blank})
      BY <1>0 DEF ClientTypeOK
    <3>4. \A k \in DOMAIN result' : result'[k] = Blank
      BY <3>1, <3>2, <3>3, OnlyBlanks
    <3>. QED BY <1>2, <3>1, <3>2, <3>4 DEF QuietInv
  <2>. QED BY <2>1, <2>2, <2>3, <2>4, <2>5, <2>6, <2>7 DEF MainStep
<1>. QED BY <1>0, <1>1, <1>3, <1>4, <1>5 DEF RunInv

LEMMA NextRun == TypeInv /\ RunInv /\ [Next]_vars => RunInv'
<1>. SUFFICES ASSUME TypeInv, RunInv, [Next]_vars PROVE RunInv'
  OBVIOUS
<1>1. CASE UNCHANGED clientVars
  <2>1. UNCHANGED <<cpc, it, copen, cint, result, workers, mpc, mint, stopped>>
    BY <1>1 DEF clientVars, threadVars, mainVars
  <2>2. Active' = Active /\ (ThreadsEnded' <=> ThreadsEnded)
    BY <2>1 DEF Active, ThreadsEnded
  <2>3. \A t \in Numbers : ThreadInv(t)' <=> ThreadInv(t)
    BY <2>1, <2>2 DEF ThreadInv
  <2>4. (CountInv' <=> CountInv) /\ (QuietInv' <=> QuietInv)
    BY <2>1, <2>2 DEF CountInv, QuietInv
  <2>. QED BY <2>1, <2>3, <2>4 DEF RunInv
<1>2. ASSUME NEW t \in Numbers, ThreadStep(t, NothingComes(t))
      PROVE  RunInv'
  <2>1. PICK nothing \in BOOLEAN : ThreadStep(t, nothing)
    BY <1>2 DEF NothingComes
  <2>2. CASE stopped
    <3>1. UNCHANGED stopped
      BY <2>1 DEF ThreadStep, Work, SendRequest, ReceiveAnswer, TimeOut, ReceiveClosed,
                  PutResult, PutInterrupted, Finally, PutBlank, mainVars
    <3>. QED BY <2>2, <3>1 DEF RunInv
  <2>3. CASE ~stopped
    BY <2>1, <2>3, ThreadRun
  <2>. QED BY <2>2, <2>3
<1>3. CASE MainStep
  <2>1. CASE stopped
    <3>1. UNCHANGED stopped
      BY <1>3 DEF MainStep, CheckWorkers, CheckSize, TakeLine, TakeLineInterrupted,
                  CloseClientSocket, ShutdownThreads, AwaitThreads, EndRun, mainVars
    <3>. QED BY <2>1, <3>1 DEF RunInv
  <2>2. CASE ~stopped
    BY <1>3, <2>2, MainRun
  <2>. QED BY <2>1, <2>2
<1>4. CASE InterruptRun
  BY <1>4 DEF InterruptRun, RunInv
<1>. QED BY <1>1, <1>2, <1>3, <1>4 DEF Next, vars

LEMMA InitRun == Init => RunInv
<1>. SUFFICES ASSUME Init PROVE RunInv
  OBVIOUS
<1>1. /\ mpc = "workers" /\ mint = FALSE /\ stopped = FALSE /\ workers = Threads
      /\ \A t \in Numbers : cpc[t] = "new" /\ copen[t] = TRUE /\ cint[t] = FALSE
  BY DEF Init, ClientInit
<1>2. Active = 0..Threads - 1
  BY <1>1 DEF Active, Numbers
<1>3. Cardinality(Active) = Threads
  BY <1>2, HelloBoundsAssumption, FS_Interval
<1>. QED BY <1>1, <1>3 DEF RunInv, CountInv, QuietInv, ThreadInv

\* A run that nobody interrupts returns with the answers to all requests of
\* all threads put and taken out, and leaves no thread and no socket behind.
THEOREM RunIsComplete == Spec => []RunComplete
<1>1. TypeInv /\ LinesInv /\ RunInv => RunComplete
  <2>. SUFFICES ASSUME LinesInv, RunInv, mpc = "returned", ~stopped
                PROVE  /\ ThreadsEnded
                       /\ \A t \in Numbers : ~copen[t] /\ Len(lines[t]) = Requests
                       /\ \A k \in DOMAIN result : result[k] = Blank
    BY DEF RunComplete
  <2>1. ThreadsEnded /\ \A k \in DOMAIN result : result[k] = Blank
    BY DEF RunInv, QuietInv
  <2>2. ASSUME NEW t \in Numbers
        PROVE  ~copen[t] /\ Len(lines[t]) = Requests
    <3>1. cpc[t] = "dead" /\ ThreadInv(t) /\ Len(lines[t]) = it[t]
      BY <2>1 DEF ThreadsEnded, RunInv, LinesInv
    <3>. QED BY <3>1 DEF ThreadInv
  <2>. QED BY <2>1, <2>2
<1>2. Init => LinesInv
  BY DEF Init, ClientInit, LinesInv
<1>. QED BY <1>1, <1>2, InitRun, NextLines, NextRun, TypeInvariant, PTL DEF Spec

-----------------------------------------------------------------------------
(* print() does not sleep for ever. While it prints nobody has interrupted *)
(* a thread, so that the last one does put its blank line; and once print()*)
(* has decided to take a line there is one, or somebody who will put one.  *)

WakeInv ==
    mpc \in {"workers", "size", "take"} =>
        /\ stopped => mint
        /\ \A t \in Numbers : ~cint[t]
        /\ mpc = "take" /\ ~stopped =>
            result # <<>> \/ Active # {} \/ \E t \in Numbers : cpc[t] = "last"

LEMMA AppendIsNotEmpty ==
    ASSUME NEW S, NEW q \in Seq(S), NEW v \in S PROVE Append(q, v) # <<>>
<1>1. Len(Append(q, v)) = Len(q) + 1 /\ Len(q) \in Nat /\ Len(<<>>) = 0
  OBVIOUS
<1>. QED BY <1>1

LEMMA ThreadWake ==
    ASSUME TypeInv, RunInv, WakeInv, mpc \in {"workers", "size", "take"},
           NEW t \in Numbers, NEW nothing \in BOOLEAN, ThreadStep(t, nothing)
    PROVE  WakeInv'
<1>0. ClientTypeOK /\ ClientControl /\ ~cint[t] /\ (~stopped => CountInv)
  BY DEF TypeInv, TypeOK, WakeInv, RunInv
<1>1. UNCHANGED <<mpc, mint, stopped>>
  BY DEF ThreadStep, Work, SendRequest, ReceiveAnswer, TimeOut, ReceiveClosed, PutResult,
         PutInterrupted, Finally, PutBlank, mainVars
<1>2. \A u \in Numbers : ~cint'[u]
  <2>1. cint' = cint \/ cint' = [cint EXCEPT ![t] = FALSE]
    BY DEF ThreadStep, Work, SendRequest, ReceiveAnswer, TimeOut, ReceiveClosed, PutResult,
           PutInterrupted, Finally, PutBlank
  <2>. QED BY <1>0, <2>1 DEF ClientTypeOK, WakeInv
<1>3. ASSUME mpc = "take", ~stopped
      PROVE  result' # <<>> \/ Active' # {} \/ \E u \in Numbers : cpc'[u] = "last"
  <2>0. result \in Seq(ToClient \cup {Blank}) /\ CountInv
    BY <1>0, <1>3 DEF ClientTypeOK
  <2>1. CASE PutResult(t)
    <3>1. result' = Append(result, accepted[t]) /\ accepted[t] \in ToClient \cup {Blank}
      BY <1>0, <2>1 DEF PutResult, ClientControl, ClientTypeOK
    <3>. QED BY <2>0, <3>1, AppendIsNotEmpty
  <2>2. CASE PutBlank(t)
    <3>1. result' = Append(result, Blank)
      BY <1>0, <2>2 DEF PutBlank
    <3>. QED BY <2>0, <3>1, AppendIsNotEmpty
  <2>3. CASE Finally(t)
    <3>1. workers' = workers - 1 /\ cpc' = [cpc EXCEPT ![t] = IF workers' = 0 THEN "last" ELSE "dead"]
      BY <2>3 DEF Finally, Goto
    <3>2. CASE workers' = 0
      BY <1>0, <3>1, <3>2 DEF ClientTypeOK
    <3>3. CASE workers' # 0
      <4>1. t \in Active
        BY <2>3 DEF Finally, Active
      <4>2. workers = Cardinality(Active) /\ Cardinality(Active) \in Nat
        BY <1>3, <2>0, ActiveFinite DEF CountInv
      <4>3. Cardinality(Active \ {t}) = workers - 1
        BY <4>1, <4>2, ActiveFinite, FS_RemoveElement
      <4>4. Active \ {t} # {}
        BY <3>1, <3>3, <4>3, FS_EmptySet
      <4>5. PICK u \in Active : u # t
        BY <4>4
      <4>6. u \in Active'
        BY <1>0, <3>1, <4>5 DEF Active, ClientTypeOK
      <4>. QED BY <4>6
    <3>. QED BY <3>2, <3>3
  <2>4. CASE ~PutResult(t) /\ ~PutBlank(t) /\ ~Finally(t)
    <3>1. UNCHANGED result
      BY <2>4 DEF ThreadStep, Work, SendRequest, ReceiveAnswer, TimeOut, ReceiveClosed,
                  PutInterrupted
    <3>2. t \in Active' /\ t \in Active
      BY <1>0, <2>4
         DEF ThreadStep, Work, SendRequest, ReceiveAnswer, TimeOut, ReceiveClosed,
             PutInterrupted, Goto, NextRequest, Active, ClientTypeOK
    <3>. QED BY <3>2
  <2>. QED BY <2>1, <2>2, <2>3, <2>4
<1>. QED BY <1>1, <1>2, <1>3 DEF WakeInv

LEMMA MainWake == ASSUME TypeInv, RunInv, WakeInv, MainStep PROVE WakeInv'
<1>0. ClientTypeOK /\ (~stopped => CountInv)
  BY DEF TypeInv, TypeOK, RunInv
<1>1. CASE CheckWorkers
  <2>1. mpc = "workers" /\ UNCHANGED <<cpc, cint, mint, stopped>>
    BY <1>1 DEF CheckWorkers, threadVars
  <2>2. ASSUME mpc' = "take", ~stopped
        PROVE  Active' # {}
    <3>1. workers > 0 /\ workers = Cardinality(Active)
      BY <1>0, <1>1, <2>1, <2>2 DEF CheckWorkers, CountInv
    <3>2. Active # {}
      BY <3>1, FS_EmptySet
    <3>. QED BY <2>1, <3>2 DEF Active
  <2>. QED BY <2>1, <2>2 DEF WakeInv
<1>2. CASE CheckSize
  <2>1. mpc = "size" /\ UNCHANGED <<cint, result, mint, stopped>>
    BY <1>2 DEF CheckSize, threadVars
  <2>2. mpc' = "take" => result # <<>>
    BY <1>2 DEF CheckSize
  <2>. QED BY <2>1, <2>2 DEF WakeInv
<1>3. CASE TakeLine
  <2>1. mpc = "take" /\ mpc' # "take" /\ UNCHANGED <<cint, mint, stopped>>
    BY <1>3 DEF TakeLine, threadVars
  <2>. QED BY <2>1 DEF WakeInv
<1>4. CASE mpc' \notin {"workers", "size", "take"}
  BY <1>4 DEF WakeInv
<1>. QED
  BY <1>1, <1>2, <1>3, <1>4
     DEF MainStep, TakeLineInterrupted, CloseClientSocket, ShutdownThreads, AwaitThreads, EndRun,
         mainVars

LEMMA NextWake == TypeInv /\ RunInv /\ WakeInv /\ [Next]_vars => WakeInv'
<1>. SUFFICES ASSUME TypeInv, RunInv, WakeInv, [Next]_vars PROVE WakeInv'
  OBVIOUS
<1>1. CASE UNCHANGED clientVars
  BY <1>1 DEF clientVars, threadVars, mainVars, WakeInv, Active
<1>2. ASSUME NEW t \in Numbers, ThreadStep(t, NothingComes(t))
      PROVE  WakeInv'
  <2>1. PICK nothing \in BOOLEAN : ThreadStep(t, nothing)
    BY <1>2 DEF NothingComes
  <2>2. UNCHANGED mpc
    BY <2>1 DEF ThreadStep, Work, SendRequest, ReceiveAnswer, TimeOut, ReceiveClosed,
                PutResult, PutInterrupted, Finally, PutBlank, mainVars
  <2>3. CASE mpc \notin {"workers", "size", "take"}
    BY <2>2, <2>3 DEF WakeInv
  <2>. QED BY <2>1, <2>3, ThreadWake
<1>3. CASE MainStep
  BY <1>3, MainWake
<1>4. CASE InterruptRun
  BY <1>4 DEF InterruptRun, WakeInv, threadVars
<1>. QED BY <1>1, <1>2, <1>3, <1>4 DEF Next, vars

\* print() never waits for a line that nobody will put: if the queue is empty
\* and no interrupt is pending, then a thread is alive that still has a line
\* or, as the last one, the blank line to put.
THEOREM PrintIsWoken == Spec => []PrintWakes
<1>1. Init => WakeInv
  BY DEF Init, ClientInit, WakeInv
<1>2. TypeInv /\ RunInv /\ WakeInv => PrintWakes
  <2>. SUFFICES ASSUME RunInv, WakeInv, mpc = "take", result = <<>>, ~mint
                PROVE  \E t \in Numbers : cpc[t] # "dead" /\ (cpc[t] # "last" => workers > 0)
    BY DEF PrintWakes
  <2>1. ~stopped /\ (Active # {} \/ \E t \in Numbers : cpc[t] = "last")
    BY DEF WakeInv
  <2>2. CASE Active # {}
    <3>1. workers = Cardinality(Active) /\ Cardinality(Active) \in Nat
      BY <2>1, ActiveFinite DEF RunInv, CountInv
    <3>2. workers > 0
      BY <2>2, <3>1, ActiveFinite, FS_EmptySet
    <3>. QED BY <2>2, <3>2 DEF Active
  <2>. QED BY <2>1, <2>2
<1>. QED BY <1>1, <1>2, InitRun, NextRun, NextWake, TypeInvariant, PTL DEF Spec

-----------------------------------------------------------------------------
(* Every datagram is answered once. Until the socket is closed no thread   *)
(* of the server is interrupted, so that each datagram received and not    *)
(* answered is in the hands of the reader, in the queue, or in the hands   *)
(* of one worker.                                                          *)

InHand(g, b) == Cardinality({i \in {1} : g # NoDatagram /\ g.body = b})

Queued(q, b) == {k \in DOMAIN q : q[k].body = b}

Holders(h, b) == {w \in Workers : h[w] # NoDatagram /\ h[w].body = b}

Is(m, b) == IF m.body = b THEN 1 ELSE 0

OwedInv ==
    kpc \in {"new", "started"} =>
        /\ ~rint
        /\ kpc = "started" => sopen
        /\ kpc = "new" => reader = "new" /\ \A w \in Workers : spc[w] = "new"
        /\ reader # "put" => got = NoDatagram
        /\ \A w \in Workers : spc[w] # "send" => holding[w] = NoDatagram
        /\ \A b \in Bodies :
            owed[b] = InHand(got, b) + Cardinality(Queued(packets, b))
                      + Cardinality(Holders(holding, b))

LEMMA InOneHand ==
    /\ \A b : InHand(NoDatagram, b) = 0
    /\ \A g \in Datagram : \A b : InHand(g, b) = Is(g, b)
    /\ \A g, b : InHand(g, b) \in Nat
<1>1. ASSUME NEW g, NEW b, g # NoDatagram /\ g.body = b
      PROVE  InHand(g, b) = 1
  <2>1. {i \in {1} : g # NoDatagram /\ g.body = b} = {1}
    BY <1>1
  <2>. QED BY <2>1, FS_Singleton DEF InHand
<1>2. ASSUME NEW g, NEW b, ~(g # NoDatagram /\ g.body = b)
      PROVE  InHand(g, b) = 0
  <2>1. {i \in {1} : g # NoDatagram /\ g.body = b} = {}
    BY <1>2
  <2>. QED BY <2>1, FS_EmptySet DEF InHand
<1>3. \A g \in Datagram : g # NoDatagram
  BY NoDatagramAssumption
<1>. QED BY <1>1, <1>2, <1>3 DEF Is

LEMMA QueuedFinite ==
    ASSUME NEW S, NEW q \in Seq(S), NEW b
    PROVE  IsFiniteSet(Queued(q, b)) /\ Cardinality(Queued(q, b)) \in Nat
<1>1. DOMAIN q = 1..Len(q) /\ Len(q) \in Nat
  OBVIOUS
<1>2. IsFiniteSet(1..Len(q)) /\ Queued(q, b) \subseteq 1..Len(q)
  BY <1>1, FS_Interval DEF Queued
<1>. QED BY <1>2, FS_Subset, FS_CardinalityType

LEMMA QueuedAppend ==
    ASSUME NEW S, NEW q \in Seq(S), NEW v \in S, NEW b
    PROVE  Cardinality(Queued(Append(q, v), b)) = Cardinality(Queued(q, b)) + Is(v, b)
<1>. DEFINE n == Len(q) + 1
<1>1. /\ DOMAIN Append(q, v) = 1..n /\ DOMAIN q = 1..Len(q) /\ Len(q) \in Nat
      /\ Append(q, v)[n] = v /\ \A k \in 1..Len(q) : Append(q, v)[k] = q[k]
  OBVIOUS
<1>2. n \notin Queued(q, b)
  BY <1>1 DEF Queued
<1>3. CASE v.body = b
  <2>1. Queued(Append(q, v), b) = Queued(q, b) \cup {n}
    BY <1>1, <1>3 DEF Queued
  <2>2. IsFiniteSet(Queued(q, b)) /\ Cardinality(Queued(q, b)) \in Nat
    BY QueuedFinite
  <2>3. Cardinality(Queued(q, b) \cup {n}) = Cardinality(Queued(q, b)) + 1
    BY <1>2, <2>2, FS_AddElement
  <2>. QED BY <1>3, <2>1, <2>3 DEF Is
<1>4. CASE v.body # b
  <2>1. Queued(Append(q, v), b) = Queued(q, b)
    BY <1>1, <1>4 DEF Queued
  <2>. QED BY <1>4, <2>1, QueuedFinite DEF Is
<1>. QED BY <1>3, <1>4

LEMMA QueuedTail ==
    ASSUME NEW S, NEW q \in Seq(S), q # <<>>, NEW b
    PROVE  Cardinality(Queued(q, b)) = Cardinality(Queued(Tail(q), b)) + Is(Head(q), b)
<1>. DEFINE T == Queued(Tail(q), b)
            R == Queued(q, b) \ {1}
            f == [k \in T |-> k + 1]
<1>1. /\ DOMAIN q = 1..Len(q) /\ Len(q) \in Nat /\ Len(q) > 0 /\ Head(q) = q[1]
      /\ DOMAIN Tail(q) = 1..Len(q) - 1
      /\ \A k \in 1..Len(q) - 1 : Tail(q)[k] = q[k + 1]
  OBVIOUS
<1>2. T \subseteq Nat /\ \A k \in T : k + 1 \in R
  BY <1>1 DEF Queued
<1>3. ASSUME NEW j \in R
      PROVE  j - 1 \in T /\ (j - 1) + 1 = j
  <2>1. j \in 1..Len(q) /\ j # 1 /\ q[j].body = b
    BY <1>1 DEF Queued
  <2>2. j - 1 \in 1..Len(q) - 1 /\ (j - 1) + 1 = j
    BY <1>1, <2>1
  <2>3. Tail(q)[j - 1] = q[j]
    BY <1>1, <2>2
  <2>. QED BY <1>1, <2>1, <2>2, <2>3 DEF Queued
<1>4. f \in Injection(T, R)
  BY <1>2 DEF Injection, IsInjective
<1>5. f \in Surjection(T, R)
  BY <1>2, <1>3 DEF Surjection
<1>6. ExistsBijection(T, R)
  BY <1>4, <1>5 DEF ExistsBijection, Bijection
<1>7. Tail(q) \in Seq(S)
  OBVIOUS
<1>8. Cardinality(R) = Cardinality(T)
  BY <1>6, <1>7, QueuedFinite, FS_Bijection
<1>9. IsFiniteSet(Queued(q, b)) /\ Cardinality(Queued(q, b)) \in Nat
  BY QueuedFinite
<1>10. 1 \in Queued(q, b) <=> Head(q).body = b
  BY <1>1 DEF Queued
<1>11. CASE Head(q).body = b
  <2>1. Cardinality(R) = Cardinality(Queued(q, b)) - 1
    BY <1>9, <1>10, <1>11, FS_RemoveElement
  <2>. QED BY <1>8, <1>9, <1>11, <2>1 DEF Is
<1>12. CASE Head(q).body # b
  <2>1. Cardinality(R) = Cardinality(Queued(q, b))
    BY <1>9, <1>10, <1>12, FS_RemoveElement
  <2>. QED BY <1>8, <1>9, <1>12, <2>1 DEF Is
<1>. QED BY <1>11, <1>12

LEMMA HoldersFinite ==
    \A h, b : IsFiniteSet(Holders(h, b)) /\ Cardinality(Holders(h, b)) \in Nat
<1>1. \A h, b : Holders(h, b) \subseteq Workers
  BY DEF Holders
<1>. QED BY <1>1, ServerAssumption, FS_Subset, FS_CardinalityType

\* One worker takes, or lets go of, the datagram m.
LEMMA HoldersTake ==
    ASSUME NEW h \in [Workers -> ToServer \cup {NoDatagram}], NEW w \in Workers,
           NEW m \in Datagram, NEW b, h[w] = NoDatagram,
           NEW g, g[w] = m, \A u \in Workers : u # w => g[u] = h[u]
    PROVE  Cardinality(Holders(g, b)) = Cardinality(Holders(h, b)) + Is(m, b)
<1>1. w \notin Holders(h, b) /\ m # NoDatagram
  BY NoDatagramAssumption DEF Holders
<1>2. CASE m.body = b
  <2>1. Holders(g, b) = Holders(h, b) \cup {w}
    BY <1>1, <1>2 DEF Holders
  <2>2. Cardinality(Holders(g, b)) = Cardinality(Holders(h, b)) + 1
    BY <1>1, <2>1, HoldersFinite, FS_AddElement
  <2>. QED BY <1>2, <2>2 DEF Is
<1>3. CASE m.body # b
  <2>1. Holders(g, b) = Holders(h, b)
    BY <1>1, <1>3 DEF Holders
  <2>. QED BY <1>3, <2>1, HoldersFinite DEF Is
<1>. QED BY <1>2, <1>3

LEMMA HoldersLetGo ==
    ASSUME NEW h \in [Workers -> ToServer \cup {NoDatagram}], NEW w \in Workers,
           NEW m, NEW b, h[w] = m, m # NoDatagram,
           NEW g, g[w] = NoDatagram, \A u \in Workers : u # w => g[u] = h[u]
    PROVE  Cardinality(Holders(g, b)) = Cardinality(Holders(h, b)) - Is(m, b)
<1>1. Holders(g, b) = Holders(h, b) \ {w}
  BY DEF Holders
<1>2. CASE m.body = b
  <2>1. w \in Holders(h, b)
    BY <1>2 DEF Holders
  <2>2. Cardinality(Holders(g, b)) = Cardinality(Holders(h, b)) - 1
    BY <1>1, <2>1, HoldersFinite, FS_RemoveElement
  <2>3. Is(m, b) = 1
    BY <1>2 DEF Is
  <2>. QED BY <2>2, <2>3
<1>3. CASE m.body # b
  <2>1. w \notin Holders(h, b)
    BY <1>3 DEF Holders
  <2>2. Cardinality(Holders(g, b)) = Cardinality(Holders(h, b))
    BY <1>1, <2>1, HoldersFinite, FS_RemoveElement
  <2>3. Is(m, b) = 0
    BY <1>3 DEF Is
  <2>. QED BY <2>2, <2>3, HoldersFinite
<1>. QED BY <1>2, <1>3

LEMMA NextOwed == TypeInv /\ OwedInv /\ [Next]_vars => OwedInv'
<1>. SUFFICES ASSUME TypeInv, OwedInv, [Next]_vars PROVE OwedInv'
  OBVIOUS
<1>. DEFINE Parts(b) == InHand(got, b) + Cardinality(Queued(packets, b)) + Cardinality(Holders(holding, b))
<1>0. ServerTypeOK /\ ServerControl /\ NetTypeOK
  BY DEF TypeInv, TypeOK
<1>1. CASE kpc' \notin {"new", "started"}
  BY <1>1 DEF OwedInv
<1>2. CASE UNCHANGED serverVars
  <2>1. UNCHANGED <<sopen, reader, rint, got, packets, spc, holding, kpc, owed>>
    BY <1>2 DEF serverVars, readerVars, workerVars, closerVars
  <2>2. \A b : Parts(b)' = Parts(b)
    BY <2>1 DEF InHand, Queued, Holders
  <2>. QED BY <2>1, <2>2 DEF OwedInv
<1>3. CASE StartServer
  <2>1. /\ kpc = "new" /\ kpc' = "started" /\ sopen' = TRUE /\ reader' = "receive"
        /\ UNCHANGED <<rint, got, packets, holding, owed>>
    BY <1>3 DEF StartServer
  <2>2. \A b : Parts(b)' = Parts(b)
    BY <2>1 DEF InHand, Queued, Holders
  <2>3. got = NoDatagram /\ \A w \in Workers : holding[w] = NoDatagram
    BY <2>1 DEF OwedInv
  <2>. QED BY <2>1, <2>2, <2>3 DEF OwedInv
<1>4. CASE CloserStep \/ InterruptCloser \/ CloseSocket
  <2>1. kpc' \notin {"new", "started"}
    BY <1>4 DEF CloserStep, InterruptReader, JoinReader, JoinInterrupted, ShutdownPool, AwaitPool,
                AwaitInterrupted, InterruptCloser, CloseSocket
  <2>. QED BY <1>1, <2>1
<1>5. CASE ReaderStep /\ kpc' \in {"new", "started"}
  <2>1. UNCHANGED <<sopen, spc, holding, kpc>> /\ kpc \in {"new", "started"}
    BY <1>5 DEF ReaderStep, ReceiveRequest, ReceiveFails, PutRequest, workerVars, closerVars
  <2>2. kpc = "started" /\ sopen /\ ~rint
    BY <1>5, <2>1 DEF OwedInv, ReaderStep, ReceiveRequest, ReceiveFails, PutRequest
  <2>3. \A b : Holders(holding', b) = Holders(holding, b)
    BY <2>1 DEF Holders
  <2>4. CASE ReceiveRequest
    <3>1. PICK m \in net :
              /\ m.to = Server /\ Deliver(m) /\ got' = m
              /\ owed' = [owed EXCEPT ![m.body] = @ + 1]
      BY <2>4 DEF ReceiveRequest
    <3>2. m \in Datagram /\ m \in ToServer /\ m.body \in Bodies /\ m # NoDatagram
      BY <1>0, <3>1, NetSteps, DatagramFields
    <3>3. reader = "receive" /\ reader' = "put" /\ UNCHANGED <<rint, packets>>
      BY <2>4 DEF ReceiveRequest
    <3>4. got = NoDatagram
      BY <2>2, <3>3 DEF OwedInv
    <3>5. ASSUME NEW b \in Bodies
          PROVE  owed'[b] = Parts(b)'
      <4>1. owed'[b] = owed[b] + Is(m, b)
        BY <1>0, <3>1, <3>2 DEF ServerTypeOK, Is
      <4>2. InHand(got, b) = 0 /\ InHand(got', b) = Is(m, b)
        BY <3>1, <3>2, <3>4, InOneHand
      <4>3. /\ Cardinality(Queued(packets, b)) \in Nat
            /\ Cardinality(Holders(holding, b)) \in Nat
        BY <1>0, QueuedFinite, HoldersFinite DEF ServerTypeOK
      <4>4. owed[b] = Parts(b) /\ Queued(packets, b)' = Queued(packets, b)
        BY <2>2, <3>3 DEF OwedInv, Queued
      <4>. QED BY <2>3, <4>1, <4>2, <4>3, <4>4 DEF Is
    <3>. QED BY <2>1, <2>2, <3>3, <3>5 DEF OwedInv
  <2>5. CASE ReceiveFails
    BY <2>2, <2>5 DEF ReceiveFails
  <2>6. CASE PutRequest
    <3>1. /\ reader = "put" /\ reader' = "receive" /\ got' = NoDatagram
          /\ packets' = Append(packets, got) /\ UNCHANGED <<rint, owed>>
      BY <2>2, <2>6 DEF PutRequest
    <3>2. got \in Datagram /\ got \in ToServer /\ packets \in Seq(ToServer)
      BY <1>0, <3>1 DEF ServerControl, ServerTypeOK, Datagram
    <3>3. ASSUME NEW b \in Bodies
          PROVE  owed'[b] = Parts(b)'
      <4>1. InHand(got, b) = Is(got, b) /\ InHand(got', b) = 0
        BY <3>1, <3>2, InOneHand
      <4>2. Cardinality(Queued(packets', b)) = Cardinality(Queued(packets, b)) + Is(got, b)
        BY <3>1, <3>2, QueuedAppend
      <4>3. /\ Cardinality(Queued(packets, b)) \in Nat
            /\ Cardinality(Holders(holding, b)) \in Nat
        BY <3>2, QueuedFinite, HoldersFinite
      <4>4. owed[b] = Parts(b) /\ Queued(packets, b)' = Queued(packets', b)
        BY <2>2 DEF OwedInv, Queued
      <4>. QED BY <2>3, <3>1, <4>1, <4>2, <4>3, <4>4 DEF Is
    <3>. QED BY <2>1, <2>2, <3>1, <3>3 DEF OwedInv
  <2>. QED BY <1>5, <2>4, <2>5, <2>6 DEF ReaderStep
<1>6. ASSUME NEW w \in Workers, WorkerStep(w), kpc' \in {"new", "started"}
      PROVE  OwedInv'
  <2>1. UNCHANGED <<sopen, reader, rint, got, kpc>> /\ kpc \in {"new", "started"}
    BY <1>6 DEF WorkerStep, TakeRequest, TakeInterrupted, SendAnswer, SendFails, readerVars,
                closerVars
  <2>2. spc[w] \in {"take", "send"}
    BY <1>6 DEF WorkerStep, TakeRequest, TakeInterrupted, SendAnswer, SendFails
  <2>3. kpc = "started" /\ sopen
    BY <2>1, <2>2 DEF OwedInv
  <2>4. \A b : InHand(got', b) = InHand(got, b)
    BY <2>1 DEF InHand
  <2>5. \A b : InHand(got, b) \in Nat
    BY InOneHand
  <2>6. CASE TakeRequest(w)
    <3>1. /\ spc[w] = "take" /\ packets # <<>> /\ UNCHANGED owed
          /\ holding' = [holding EXCEPT ![w] = Head(packets)]
          /\ packets' = Tail(packets)
          /\ spc' = [spc EXCEPT ![w] = "send"]
      BY <2>6 DEF TakeRequest
    <3>2. packets \in Seq(ToServer) /\ Head(packets) \in Datagram
      BY <1>0, <3>1 DEF ServerTypeOK, Datagram
    <3>3. holding[w] = NoDatagram
      BY <2>3, <3>1 DEF OwedInv
    <3>4. ASSUME NEW b \in Bodies
          PROVE  owed'[b] = Parts(b)'
      <4>1. Cardinality(Holders(holding', b)) = Cardinality(Holders(holding, b)) + Is(Head(packets), b)
        <5>1. PICK m \in Datagram : m = Head(packets)
          BY <3>2
        <5>2. holding \in [Workers -> ToServer \cup {NoDatagram}]
          BY <1>0 DEF ServerTypeOK
        <5>3. holding'[w] = m /\ \A u \in Workers : u # w => holding'[u] = holding[u]
          BY <3>1, <5>1, <5>2
        <5>4. Cardinality(Holders(holding', b)) = Cardinality(Holders(holding, b)) + Is(m, b)
          BY <3>3, <5>2, <5>3, HoldersTake
        <5>. QED BY <5>1, <5>4
      <4>2. Cardinality(Queued(packets, b))
            = Cardinality(Queued(packets', b)) + Is(Head(packets), b)
        BY <3>1, <3>2, QueuedTail
      <4>3. Tail(packets) \in Seq(ToServer)
        BY <3>1, <3>2
      <4>4. /\ Cardinality(Queued(packets', b)) \in Nat
            /\ Cardinality(Holders(holding, b)) \in Nat
        BY <3>1, <4>3, QueuedFinite, HoldersFinite
      <4>5. owed[b] = Parts(b) /\ Queued(packets, b)' = Queued(packets', b)
        BY <2>3 DEF OwedInv, Queued
      <4>. QED BY <2>4, <2>5, <3>1, <4>1, <4>2, <4>4, <4>5 DEF Is
    <3>5. \A u \in Workers : spc'[u] # "send" => holding'[u] = NoDatagram
      BY <1>0, <2>3, <3>1 DEF ServerTypeOK, OwedInv
    <3>. QED BY <2>1, <2>3, <3>4, <3>5 DEF OwedInv
  <2>7. CASE TakeInterrupted(w)
    <3>1. /\ spc[w] = "take" /\ spc' = [spc EXCEPT ![w] = "dead"]
          /\ UNCHANGED <<packets, holding, owed>>
      BY <2>7 DEF TakeInterrupted
    <3>2. \A u \in Workers : spc'[u] # "send" => holding'[u] = NoDatagram
      BY <1>0, <2>3, <3>1 DEF ServerTypeOK, OwedInv
    <3>3. \A b : Parts(b)' = Parts(b)
      BY <2>4, <3>1 DEF Queued, Holders
    <3>. QED BY <2>1, <2>3, <3>1, <3>2, <3>3 DEF OwedInv
  <2>8. CASE SendAnswer(w)
    <3>0. PICK m : m = holding[w]
      OBVIOUS
    <3>1. /\ spc[w] = "send" /\ UNCHANGED packets
          /\ owed' = [owed EXCEPT ![m.body] = @ - 1]
          /\ holding' = [holding EXCEPT ![w] = NoDatagram]
          /\ spc' = [spc EXCEPT ![w] = "take"]
      BY <2>8, <3>0 DEF SendAnswer
    <3>2. m \in ToServer /\ m # NoDatagram
      BY <1>0, <3>0, <3>1 DEF ServerTypeOK, ServerControl
    <3>3. m.body \in Bodies
      BY <3>2, DatagramFields DEF Datagram
    <3>4. ASSUME NEW b \in Bodies
          PROVE  owed'[b] = Parts(b)'
      <4>1. owed'[b] = owed[b] - Is(m, b)
        BY <1>0, <3>1, <3>3 DEF ServerTypeOK, Is
      <4>2. Cardinality(Holders(holding', b)) = Cardinality(Holders(holding, b)) - Is(m, b)
        <5>1. holding \in [Workers -> ToServer \cup {NoDatagram}] /\ holding[w] # NoDatagram
          BY <1>0, <3>0, <3>2 DEF ServerTypeOK
        <5>2. holding'[w] = NoDatagram /\ \A u \in Workers : u # w => holding'[u] = holding[u]
          BY <3>1, <5>1
        <5>. QED BY <3>0, <3>2, <5>1, <5>2, HoldersLetGo
      <4>3. /\ Cardinality(Queued(packets, b)) \in Nat
            /\ Cardinality(Holders(holding, b)) \in Nat
        BY <1>0, QueuedFinite, HoldersFinite DEF ServerTypeOK
      <4>4. owed[b] = Parts(b) /\ Queued(packets, b)' = Queued(packets, b)
        BY <2>3, <3>1 DEF OwedInv, Queued
      <4>. QED BY <2>4, <2>5, <4>1, <4>2, <4>3, <4>4 DEF Is
    <3>5. \A u \in Workers : spc'[u] # "send" => holding'[u] = NoDatagram
      BY <1>0, <2>3, <3>1 DEF ServerTypeOK, OwedInv
    <3>. QED BY <2>1, <2>3, <3>4, <3>5 DEF OwedInv
  <2>9. CASE SendFails(w)
    BY <2>3, <2>9 DEF SendFails
  <2>. QED BY <1>6, <2>6, <2>7, <2>8, <2>9 DEF WorkerStep
<1>. QED BY <1>1, <1>2, <1>3, <1>4, <1>5, <1>6 DEF Next, vars, ServerStep

LEMMA InitOwed == Init => OwedInv
<1>. SUFFICES ASSUME Init PROVE OwedInv
  OBVIOUS
<1>1. /\ kpc = "new" /\ reader = "new" /\ ~rint /\ got = NoDatagram /\ packets = <<>>
      /\ \A w \in Workers : spc[w] = "new" /\ holding[w] = NoDatagram
      /\ \A b \in Bodies : owed[b] = 0
  BY DEF Init, ServerInit
<1>2. \A b : Holders(holding, b) = {} /\ InHand(got, b) = 0
  BY <1>1, InOneHand DEF Holders
<1>3. \A b : Queued(packets, b) = {}
  BY <1>1 DEF Queued
<1>4. ASSUME NEW b \in Bodies
      PROVE  owed[b] = InHand(got, b) + Cardinality(Queued(packets, b))
                       + Cardinality(Holders(holding, b))
  <2>1. owed[b] = 0 /\ InHand(got, b) = 0
    BY <1>1, <1>2
  <2>2. Cardinality(Queued(packets, b)) = 0 /\ Cardinality(Holders(holding, b)) = 0
    BY <1>2, <1>3, FS_EmptySet
  <2>. QED BY <2>1, <2>2
<1>. QED BY <1>1, <1>4 DEF OwedInv

\* While the socket is open every datagram that was received is answered
\* once, or waits in one place: none is dropped, and none is answered twice.
THEOREM EveryRequestIsAnsweredOnce == Spec => []AnsweredOnce
<1>1. TypeInv /\ CloseInv /\ OwedInv => AnsweredOnce
  <2>. SUFFICES ASSUME TypeInv, CloseInv, OwedInv, sopen, NEW b \in Bodies
                PROVE  owed[b] = Cardinality({i \in {1} : got # NoDatagram /\ got.body = b})
                                 + Cardinality({k \in DOMAIN packets : packets[k].body = b})
                                 + Cardinality({w \in Workers :
                                        holding[w] # NoDatagram /\ holding[w].body = b})
    BY DEF AnsweredOnce
  <2>1. kpc \in {"new", "started"}
    BY DEF TypeInv, TypeOK, ServerTypeOK, CloseInv
  <2>. QED BY <2>1 DEF OwedInv, InHand, Queued, Holders
<1>2. Init => CloseInv
  BY DEF Init, ServerInit, CloseInv
<1>. QED BY <1>1, <1>2, InitOwed, NextOwed, NextClose, TypeInvariant, PTL DEF Spec
=============================================================================
