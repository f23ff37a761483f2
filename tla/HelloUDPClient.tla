--------------------------- MODULE HelloUDPClient ---------------------------
(***************************************************************************)
(* One run() of HelloUDPClient. Each thread sends its requests, one after  *)
(* the other, and puts the answers into the queue of results; the thread   *)
(* in run() takes them out until it sees that no worker is left and that   *)
(* the queue is empty. Then it closes the client.                          *)
(***************************************************************************)
EXTENDS HelloNetwork, Sequences

CONSTANT Blank          \* the line " " that only wakes up print()

VARIABLES
    cpc,        \* where each thread is
    it,         \* its local variable i
    copen,      \* its socket is open
    cint,       \* its interrupt flag
    accepted,   \* the answer that request() returns to it
    lines,      \* lines[t]: history, the answers that t put into the queue
    result,     \* the queue
    workers,    \* the counter
    mpc,        \* where the thread is that called run()
    mint,       \* its interrupt flag
    stopped     \* history: it was interrupted

threadVars == <<cpc, it, copen, cint, accepted, lines>>
mainVars == <<mpc, mint, stopped>>
clientVars == <<threadVars, result, workers, mainVars>>

ClientTypeOK ==
    /\ cpc \in [Numbers -> {"new", "send", "receive", "put", "finally", "last", "dead"}]
    /\ it \in [Numbers -> 0..Requests]
    /\ copen \in [Numbers -> BOOLEAN]
    /\ cint \in [Numbers -> BOOLEAN]
    /\ accepted \in [Numbers -> ToClient \cup {NoDatagram}]
    /\ lines \in [Numbers -> Seq(ToClient)]
    /\ result \in Seq(ToClient \cup {Blank})
    /\ workers \in Int
    /\ mpc \in {"workers", "size", "take", "close", "await", "end", "returned"}
    /\ mint \in BOOLEAN /\ stopped \in BOOLEAN

ClientInit ==
    /\ cpc = [t \in Numbers |-> "new"]
    /\ it = [t \in Numbers |-> 0]
    /\ copen = [t \in Numbers |-> TRUE]
    /\ cint = [t \in Numbers |-> FALSE]
    /\ accepted = [t \in Numbers |-> NoDatagram]
    /\ lines = [t \in Numbers |-> <<>>]
    /\ result = <<>>
    /\ workers = Threads
    /\ mpc = "workers" /\ mint = FALSE /\ stopped = FALSE

Goto(t, state) == cpc' = [cpc EXCEPT ![t] = state]

-----------------------------------------------------------------------------
(* work() and request() of the client.                                     *)

\* Mutant of NextRequest: one request too many.
NextRequestLate(i) == IF i > Requests THEN "finally" ELSE "send"

NextRequest(i) == IF i = Requests THEN "finally" ELSE "send"

Work(t) ==
    /\ cpc[t] = "new"
    /\ Goto(t, IF copen[t] THEN NextRequest(0) ELSE "finally")
    /\ UNCHANGED <<netVars, it, copen, cint, accepted, lines, result, workers, mainVars>>

SendRequest(t) ==
    /\ cpc[t] = "send"
    /\ \/ copen[t] /\ Send(Request(t, it[t])) /\ Goto(t, "receive")
       \/ ~copen[t] /\ Goto(t, "finally") /\ UNCHANGED netVars
    /\ UNCHANGED <<it, copen, cint, accepted, lines, result, workers, mainVars>>

\* Mutant of Accepts: the text is not compared with the request.
AcceptsAnyHello(t, m) == m.from = Server /\ m.hello

Accepts(t, m) == m.from = Server /\ m.hello /\ m.body = <<t, it[t]>>

\* Whatever else arrives is passed over, and receive() waits another second.
ReceiveAnswer(t) ==
    /\ cpc[t] = "receive" /\ copen[t]
    /\ \E m \in net :
        /\ m.to = t
        /\ Deliver(m)
        /\ \/ /\ Accepts(t, m)
              /\ accepted' = [accepted EXCEPT ![t] = m]
              /\ Goto(t, "put")
           \/ ~Accepts(t, m) /\ UNCHANGED <<accepted, cpc>>
    /\ UNCHANGED <<it, copen, cint, lines, result, workers, mainVars>>

\* Mutant of TimeOut: after a second without an answer it goes on waiting.
WaitOn(t, nothingComes) ==
    /\ cpc[t] = "receive" /\ copen[t]
    /\ \/ nothingComes /\ UNCHANGED netVars
       \/ ~nothingComes /\ Fault /\ UNCHANGED net
    /\ UNCHANGED clientVars

\* SocketTimeoutException: the request is sent again. Either it is true that
\* nothing comes, or what comes is late.
TimeOut(t, nothingComes) ==
    /\ cpc[t] = "receive" /\ copen[t]
    /\ \/ nothingComes /\ UNCHANGED netVars
       \/ ~nothingComes /\ Fault /\ UNCHANGED net
    /\ Goto(t, "send")
    /\ UNCHANGED <<it, copen, cint, accepted, lines, result, workers, mainVars>>

ReceiveClosed(t) ==
    /\ cpc[t] = "receive" /\ ~copen[t]
    /\ Goto(t, "finally")
    /\ UNCHANGED <<netVars, it, copen, cint, accepted, lines, result, workers, mainVars>>

\* Mutant of PutResult: the counter of the loop goes up by two.
PutAndSkip(t) ==
    /\ cpc[t] = "put" /\ ~cint[t]
    /\ result' = Append(result, accepted[t])
    /\ lines' = [lines EXCEPT ![t] = Append(@, accepted[t])]
    /\ it' = [it EXCEPT ![t] = IF @ + 2 > Requests THEN Requests ELSE @ + 2]
    /\ Goto(t, NextRequest(it'[t]))
    /\ accepted' = [accepted EXCEPT ![t] = NoDatagram]
    /\ UNCHANGED <<netVars, copen, cint, workers, mainVars>>

PutResult(t) ==
    /\ cpc[t] = "put" /\ ~cint[t]
    /\ result' = Append(result, accepted[t])
    /\ lines' = [lines EXCEPT ![t] = Append(@, accepted[t])]
    /\ it' = [it EXCEPT ![t] = @ + 1]
    /\ Goto(t, NextRequest(it[t] + 1))
    /\ accepted' = [accepted EXCEPT ![t] = NoDatagram]
    /\ UNCHANGED <<netVars, copen, cint, workers, mainVars>>

PutInterrupted(t) ==
    /\ cpc[t] = "put" /\ cint[t]
    /\ cint' = [cint EXCEPT ![t] = FALSE]
    /\ accepted' = [accepted EXCEPT ![t] = NoDatagram]
    /\ Goto(t, "finally")
    /\ UNCHANGED <<netVars, it, copen, lines, result, workers, mainVars>>

\* Mutant of Finally: nobody tells print() that the last worker is gone.
FinallySilent(t) ==
    /\ cpc[t] = "finally"
    /\ copen' = [copen EXCEPT ![t] = FALSE]
    /\ workers' = workers - 1
    /\ Goto(t, "dead")
    /\ UNCHANGED <<netVars, it, cint, accepted, lines, result, mainVars>>

Finally(t) ==
    /\ cpc[t] = "finally"
    /\ copen' = [copen EXCEPT ![t] = FALSE]
    /\ workers' = workers - 1
    /\ Goto(t, IF workers' = 0 THEN "last" ELSE "dead")
    /\ UNCHANGED <<netVars, it, cint, accepted, lines, result, mainVars>>

\* result.put(" "), which an interrupt prevents.
PutBlank(t) ==
    /\ cpc[t] = "last"
    /\ result' = IF cint[t] THEN result ELSE Append(result, Blank)
    /\ cint' = [cint EXCEPT ![t] = FALSE]
    /\ Goto(t, "dead")
    /\ UNCHANGED <<netVars, it, copen, accepted, lines, workers, mainVars>>

ThreadStep(t, nothingComes) ==
    \/ Work(t) \/ SendRequest(t) \/ ReceiveAnswer(t) \/ TimeOut(t, nothingComes)
    \/ ReceiveClosed(t) \/ PutResult(t) \/ PutInterrupted(t)
    \/ Finally(t) \/ PutBlank(t)

-----------------------------------------------------------------------------
(* print() and close().                                                    *)

ThreadsEnded == \A t \in Numbers : cpc[t] = "dead"

CheckWorkers ==
    /\ mpc = "workers"
    /\ mpc' = IF workers > 0 THEN "take" ELSE "size"
    /\ UNCHANGED <<netVars, threadVars, result, workers, mint, stopped>>

CheckSize ==
    /\ mpc = "size"
    /\ mpc' = IF result # <<>> THEN "take" ELSE "close"
    /\ UNCHANGED <<netVars, threadVars, result, workers, mint, stopped>>

TakeLine ==
    /\ mpc = "take" /\ ~mint
    /\ result # <<>>
    /\ result' = Tail(result)
    /\ mpc' = IF workers < 0 THEN "close" ELSE "workers"
    /\ UNCHANGED <<netVars, threadVars, workers, mint, stopped>>

\* The exception clears the flag. run() sets it again after close(), where
\* nothing of the client is left that could see it.
TakeLineInterrupted ==
    /\ mpc = "take" /\ mint
    /\ mint' = FALSE
    /\ mpc' = "close"
    /\ UNCHANGED <<netVars, threadVars, result, workers, stopped>>

\* The sockets are closed one after the other.
CloseClientSocket ==
    /\ mpc = "close"
    /\ \E t \in Numbers :
        /\ copen[t] /\ \A u \in 0..t - 1 : ~copen[u]
        /\ copen' = [copen EXCEPT ![t] = FALSE]
    /\ UNCHANGED <<netVars, cpc, it, cint, accepted, lines, result, workers, mainVars>>

\* Mutant of ShutdownThreads: the threads are not waited for.
ShutdownOnly ==
    /\ mpc = "close" /\ \A t \in Numbers : ~copen[t]
    /\ mpc' = "end"
    /\ UNCHANGED <<netVars, threadVars, result, workers, mint, stopped>>

ShutdownThreads ==
    /\ mpc = "close" /\ \A t \in Numbers : ~copen[t]
    /\ \/ ThreadsEnded /\ mpc' = "end" /\ UNCHANGED cint
       \/ ~ThreadsEnded /\ mpc' = "await" /\ cint' = [t \in Numbers |-> cpc[t] # "dead"]
    /\ UNCHANGED <<netVars, cpc, it, copen, accepted, lines, result, workers, mint, stopped>>

AwaitThreads ==
    /\ mpc = "await"
    /\ ThreadsEnded \/ mint
    /\ mpc' = "end"
    /\ UNCHANGED <<netVars, threadVars, result, workers, mint, stopped>>

\* workers.set(0), and result.put(" ").
EndRun ==
    /\ mpc = "end"
    /\ mpc' = "returned"
    /\ workers' = 0
    /\ result' = IF mint THEN result ELSE Append(result, Blank)
    /\ UNCHANGED <<netVars, threadVars, mint, stopped>>

MainStep ==
    \/ CheckWorkers \/ CheckSize \/ TakeLine \/ TakeLineInterrupted
    \/ CloseClientSocket \/ ShutdownThreads \/ AwaitThreads \/ EndRun

\* Somebody interrupts the thread that is in run().
InterruptRun ==
    /\ mpc # "returned" /\ ~mint
    /\ Fault
    /\ mint' = TRUE /\ stopped' = TRUE
    /\ UNCHANGED <<net, threadVars, result, workers, mpc>>

-----------------------------------------------------------------------------
\* The k-th line of a thread holds the server's answer to the k-th request of
\* that thread: not a late answer to an earlier one, not one to the request of
\* another thread, and not what a stranger has sent.
OwnAnswers ==
    \A t \in Numbers : \A k \in DOMAIN lines[t] :
        lines[t][k] = Hello(Server, t, <<t, k - 1>>)

\* A run that nobody interrupts returns with all the requests answered and
\* their lines taken out, its threads ended and its sockets closed.
RunComplete ==
    mpc = "returned" /\ ~stopped =>
        /\ ThreadsEnded
        /\ \A t \in Numbers : ~copen[t] /\ Len(lines[t]) = Requests
        /\ \A k \in DOMAIN result : result[k] = Blank

\* print() never sleeps in take() for ever: if the queue is empty then there
\* is a thread that will still put something into it.
PrintWakes ==
    mpc = "take" /\ result = <<>> /\ ~mint =>
        \E t \in Numbers : cpc[t] # "dead" /\ (cpc[t] # "last" => workers > 0)
=============================================================================
