----------------------------- MODULE WebCrawler -----------------------------
(***************************************************************************)
(* WebCrawler: one call of download(url, depth). Its thread (main) walks   *)
(* the queue of vertices; every new url becomes a task of the download     *)
(* pool, every document a task of the extract pool, and the counter work   *)
(* tells main when nothing is outstanding. close() shuts the pools down.   *)
(***************************************************************************)
EXTENDS Integers, Sequences, FiniteSets, SequencesExt

CONSTANTS
    Urls,
    StartUrl,
    Links,          \* Links[u]: what extractLinks() returns for the page u
    Outcome,        \* Outcome[u]: how the download of u ends, see Outcomes
    MaxDepth,
    Downloaders,    \* the threads of executorDownload
    Extractors,     \* the threads of executorExtractor
    MayClose,       \* whether close() is called
    MayInterrupt    \* whether the thread in download() is interrupted

Outcomes == {"ok",              \* downloaded, links extracted
             "download fails",  \* downloader.download throws IOException
             "extract fails",   \* extractLinks throws IOException
             "crash",           \* downloader.download throws something else
             "extract crash"}   \* extractLinks throws something else

Downloaded == {"ok", "extract fails", "extract crash"}

ASSUME UrlsAssumption ==
    /\ StartUrl \in Urls
    /\ Links \in [Urls -> Seq(Urls)]
    /\ Outcome \in [Urls -> Outcomes]
    /\ MaxDepth \in Nat
ASSUME PoolsAssumption ==
    /\ IsFiniteSet(Downloaders) /\ Downloaders # {}
    /\ IsFiniteSet(Extractors) /\ Extractors # {}
ASSUME ChoicesAssumption == MayClose \in BOOLEAN /\ MayInterrupt \in BOOLEAN

Vertex == [url : Urls, level : Nat \ {0}]
Start == [url |-> StartUrl, level |-> 1]
NoVertex == Start   \* fills the local variables of a thread without a task

VARIABLES
    queue,          \* BlockingQueue<Vertex>
    work,           \* AtomicInteger
    passedUrl,      \* keys of the map
    downloads,      \* List<String>
    badDownloads,   \* keys of the map
    mpc, mv,        \* main: position, localVertex
    mint,           \* main's interrupt flag
    dlPool, dlQueue,\* executorDownload: state and tasks not yet started
    dpc, dv, dint,  \* its threads: position, vertex, interrupt flag
    exPool, exQueue,\* executorExtractor
    epc, ev, eint,
    ek,             \* the next link to put
    kpc             \* close(): position

mainVars == <<mpc, mv, mint, passedUrl>>
dlVars == <<dlPool, dlQueue, dpc, dv, dint>>
exVars == <<exPool, exQueue, epc, ev, eint, ek>>
dataVars == <<queue, work, downloads, badDownloads>>
vars == <<queue, work, passedUrl, downloads, badDownloads, mpc, mv, mint,
          dlPool, dlQueue, dpc, dv, dint, exPool, exQueue, epc, ev, eint, ek, kpc>>

Init ==
    /\ queue = <<>>
    /\ work = 0
    /\ passedUrl = {}
    /\ downloads = <<>>
    /\ badDownloads = {}
    /\ mpc = "put" /\ mv = NoVertex /\ mint = FALSE
    /\ dlPool = "running" /\ dlQueue = <<>>
    /\ dpc = [d \in Downloaders |-> "idle"]
    /\ dv = [d \in Downloaders |-> NoVertex]
    /\ dint = [d \in Downloaders |-> FALSE]
    /\ exPool = "running" /\ exQueue = <<>>
    /\ epc = [e \in Extractors |-> "idle"]
    /\ ev = [e \in Extractors |-> NoVertex]
    /\ eint = [e \in Extractors |-> FALSE]
    /\ ek = [e \in Extractors |-> 1]
    /\ kpc = "open"

-----------------------------------------------------------------------------
(* The thread in download(): runBFS, lines 122-137.                        *)

\* queue.put(new Vertex(startUrl, 1))
MainPut ==
    /\ mpc = "put"
    /\ ~mint
    /\ queue' = Append(queue, Start)
    /\ mpc' = "check"
    /\ UNCHANGED <<work, downloads, badDownloads, mv, mint, passedUrl, dlVars, exVars, kpc>>

\* work.get() > 0 || queue.size() > 0: two reads, the second one only if the
\* first is false.
MainCheckWork ==
    /\ mpc = "check"
    /\ mpc' = IF work > 0 THEN "take" ELSE "size"
    /\ UNCHANGED <<dataVars, mv, mint, passedUrl, dlVars, exVars, kpc>>

MainCheckSize ==
    /\ mpc = "size"
    /\ mpc' = IF queue # <<>> THEN "take" ELSE "done"
    /\ UNCHANGED <<dataVars, mv, mint, passedUrl, dlVars, exVars, kpc>>

\* Mutant of TooDeep: off by one.
JustTooDeep(v) == v.level > MaxDepth + 1

TooDeep(v) == v.level > MaxDepth

Skipped(v) == TooDeep(v) \/ v.url \in passedUrl

\* take() and putIfAbsent: passedUrl is only ever used by this thread.
MainTake ==
    /\ mpc = "take"
    /\ ~mint
    /\ queue # <<>>
    /\ queue' = Tail(queue)
    /\ LET v == Head(queue) IN
        IF Skipped(v)
        THEN /\ mpc' = "check"
             /\ UNCHANGED <<mv, passedUrl>>
        ELSE /\ mpc' = "count"
             /\ mv' = v
             /\ passedUrl' = passedUrl \cup {v.url}
    /\ UNCHANGED <<work, downloads, badDownloads, mint, dlVars, exVars, kpc>>

MainCount ==
    /\ mpc = "count"
    /\ work' = work + 1
    /\ mpc' = "submit"
    /\ UNCHANGED <<queue, downloads, badDownloads, mv, mint, passedUrl, dlVars, exVars, kpc>>

\* A pool that was shut down rejects the task; the exception is ignored, and
\* work keeps what was added for it.
MainSubmit ==
    /\ mpc = "submit"
    /\ dlQueue' = IF dlPool = "running" THEN Append(dlQueue, mv) ELSE dlQueue
    /\ mpc' = "check"
    /\ mv' = NoVertex
    /\ UNCHANGED <<dataVars, mint, passedUrl, dlPool, dpc, dv, dint, exVars, kpc>>

\* put() and take() throw InterruptedException: download() returns null.
MainInterrupted ==
    /\ mpc \in {"put", "take"}
    /\ mint
    /\ mint' = FALSE
    /\ mpc' = "null"
    /\ UNCHANGED <<dataVars, mv, passedUrl, dlVars, exVars, kpc>>

InterruptMain ==
    /\ MayInterrupt
    /\ mpc \notin {"done", "null"}
    /\ mint' = TRUE
    /\ UNCHANGED <<dataVars, mpc, mv, passedUrl, dlVars, exVars, kpc>>

MainStep ==
    \/ MainPut \/ MainCheckWork \/ MainCheckSize \/ MainTake
    \/ MainCount \/ MainSubmit \/ MainInterrupted

-----------------------------------------------------------------------------
(* A task of the download pool: lines 102-120.                             *)

DTake(d) ==
    /\ dpc[d] = "idle"
    /\ dlQueue # <<>>
    /\ dlQueue' = Tail(dlQueue)
    /\ dv' = [dv EXCEPT ![d] = Head(dlQueue)]
    /\ dpc' = [dpc EXCEPT ![d] = "download"]
    /\ UNCHANGED <<dataVars, mainVars, dlPool, dint, exVars, kpc>>

\* A downloader whose thread is interrupted may fail for that reason.
DownloadEnds(d) ==
    {Outcome[dv[d].url]} \cup IF dint[d] THEN {"download fails"} ELSE {}

DDownload(d) ==
    /\ dpc[d] = "download"
    /\ \E end \in DownloadEnds(d) :
        /\ dpc' = [dpc EXCEPT ![d] = IF end \in Downloaded
                                     THEN "submit" ELSE "finish"]
        /\ badDownloads' = IF end = "download fails"
                           THEN badDownloads \cup {dv[d].url} ELSE badDownloads
    /\ UNCHANGED <<queue, work, downloads, mainVars, dlPool, dlQueue, dv, dint, exVars, kpc>>

\* Mutant of DSubmit: the unit of work is given back here and in finally.
DSubmitReleases(d) ==
    /\ dpc[d] = "submit"
    /\ IF exPool = "running"
       THEN /\ exQueue' = Append(exQueue, dv[d])
            /\ dpc' = [dpc EXCEPT ![d] = "count"]
            /\ UNCHANGED work
       ELSE /\ dpc' = [dpc EXCEPT ![d] = "finish"]
            /\ work' = work - 1
            /\ UNCHANGED exQueue
    /\ UNCHANGED <<queue, downloads, badDownloads, mainVars, dlPool, dlQueue, dv, dint,
                   exPool, epc, ev, eint, ek, kpc>>

DSubmit(d) ==
    /\ dpc[d] = "submit"
    /\ IF exPool = "running"
       THEN /\ exQueue' = Append(exQueue, dv[d])
            /\ dpc' = [dpc EXCEPT ![d] = "count"]
       ELSE /\ dpc' = [dpc EXCEPT ![d] = "finish"]
            /\ UNCHANGED exQueue
    /\ UNCHANGED <<dataVars, mainVars, dlPool, dlQueue, dv, dint, exPool, epc, ev, eint, ek, kpc>>

\* Mutant of DCount: line 106 is missing.
DForgetsCount(d) ==
    /\ dpc[d] = "count"
    /\ dpc' = [dpc EXCEPT ![d] = "finish"]
    /\ UNCHANGED <<dataVars, mainVars, dlPool, dlQueue, dv, dint, exVars, kpc>>

\* The extract task is counted only now, and may be over already.
DCount(d) ==
    /\ dpc[d] = "count"
    /\ work' = work + 1
    /\ dpc' = [dpc EXCEPT ![d] = "finish"]
    /\ UNCHANGED <<queue, downloads, badDownloads, mainVars, dlPool, dlQueue, dv, dint, exVars, kpc>>

DFinish(d) ==
    /\ dpc[d] = "finish"
    /\ work' = work - 1
    /\ dpc' = [dpc EXCEPT ![d] = IF work' = 0 THEN "wake" ELSE "idle"]
    /\ dv' = [dv EXCEPT ![d] = IF work' = 0 THEN @ ELSE NoVertex]
    /\ UNCHANGED <<queue, downloads, badDownloads, mainVars, dlPool, dlQueue, dint, exVars, kpc>>

\* queue.put(vertex) to wake main up. An interrupted thread does not put.
DWake(d) ==
    /\ dpc[d] = "wake"
    /\ queue' = IF dint[d] THEN queue ELSE Append(queue, dv[d])
    /\ dint' = [dint EXCEPT ![d] = FALSE]
    /\ dpc' = [dpc EXCEPT ![d] = "idle"]
    /\ dv' = [dv EXCEPT ![d] = NoVertex]
    /\ UNCHANGED <<work, downloads, badDownloads, mainVars, dlPool, dlQueue, exVars, kpc>>

DStep(d) ==
    \/ DTake(d) \/ DDownload(d) \/ DSubmit(d) \/ DCount(d) \/ DFinish(d) \/ DWake(d)

-----------------------------------------------------------------------------
(* A task of the extract pool: lines 80-100.                               *)

ETake(e) ==
    /\ epc[e] = "idle"
    /\ exQueue # <<>>
    /\ exQueue' = Tail(exQueue)
    /\ ev' = [ev EXCEPT ![e] = Head(exQueue)]
    /\ epc' = [epc EXCEPT ![e] = "extract"]
    /\ UNCHANGED <<dataVars, mainVars, dlVars, exPool, eint, ek, kpc>>

EExtract(e) ==
    /\ epc[e] = "extract"
    /\ LET end == Outcome[ev[e].url] IN
        /\ epc' = [epc EXCEPT ![e] = IF end = "ok" THEN "links" ELSE "finish"]
        /\ badDownloads' = IF end = "extract fails"
                           THEN badDownloads \cup {ev[e].url} ELSE badDownloads
    /\ UNCHANGED <<queue, work, downloads, mainVars, dlVars, exPool, exQueue, ev, eint, ek, kpc>>

\* Mutant of LinkOf: the level is counted twice.
LinkTwiceAsDeep(e) == [url |-> Links[ev[e].url][ek[e]], level |-> ev[e].level + 2]

LinkOf(e) == [url |-> Links[ev[e].url][ek[e]], level |-> ev[e].level + 1]

\* One put per link. The thread interrupted by close() gives up: its page is
\* neither among the downloads nor among the errors.
EPut(e) ==
    /\ epc[e] = "links"
    /\ ek[e] <= Len(Links[ev[e].url])
    /\ IF eint[e]
       THEN /\ eint' = [eint EXCEPT ![e] = FALSE]
            /\ epc' = [epc EXCEPT ![e] = "finish"]
            /\ ek' = [ek EXCEPT ![e] = 1]
            /\ UNCHANGED queue
       ELSE /\ queue' = Append(queue, LinkOf(e))
            /\ ek' = [ek EXCEPT ![e] = @ + 1]
            /\ UNCHANGED <<eint, epc>>
    /\ UNCHANGED <<work, downloads, badDownloads, mainVars, dlVars, exPool, exQueue, ev, kpc>>

EAdd(e) ==
    /\ epc[e] = "links"
    /\ ek[e] > Len(Links[ev[e].url])
    /\ downloads' = Append(downloads, ev[e].url)
    /\ epc' = [epc EXCEPT ![e] = "finish"]
    /\ ek' = [ek EXCEPT ![e] = 1]
    /\ UNCHANGED <<queue, work, badDownloads, mainVars, dlVars, exPool, exQueue, ev, eint, kpc>>

\* Mutant of EFinish: line 94 is missing, nobody wakes main up.
EFinishSilently(e) ==
    /\ epc[e] = "finish"
    /\ work' = work - 1
    /\ epc' = [epc EXCEPT ![e] = "idle"]
    /\ ev' = [ev EXCEPT ![e] = NoVertex]
    /\ UNCHANGED <<queue, downloads, badDownloads, mainVars, dlVars, exPool, exQueue, eint, ek, kpc>>

EFinish(e) ==
    /\ epc[e] = "finish"
    /\ work' = work - 1
    /\ epc' = [epc EXCEPT ![e] = IF work' = 0 THEN "wake" ELSE "idle"]
    /\ ev' = [ev EXCEPT ![e] = IF work' = 0 THEN @ ELSE NoVertex]
    /\ UNCHANGED <<queue, downloads, badDownloads, mainVars, dlVars, exPool, exQueue, eint, ek, kpc>>

EWake(e) ==
    /\ epc[e] = "wake"
    /\ queue' = IF eint[e] THEN queue ELSE Append(queue, ev[e])
    /\ eint' = [eint EXCEPT ![e] = FALSE]
    /\ epc' = [epc EXCEPT ![e] = "idle"]
    /\ ev' = [ev EXCEPT ![e] = NoVertex]
    /\ UNCHANGED <<work, downloads, badDownloads, mainVars, dlVars, exPool, exQueue, ek, kpc>>

EStep(e) ==
    \/ ETake(e) \/ EExtract(e) \/ EPut(e) \/ EAdd(e) \/ EFinish(e) \/ EWake(e)

-----------------------------------------------------------------------------
(* close(): lines 166-173. shutdownNow of a pool that has terminated does  *)
(* nothing, so that the tests of isTerminated make no difference.          *)

\* executorDownload.shutdown(), then executorExtractor.shutdown()
CloseDownload ==
    /\ MayClose
    /\ kpc = "open"
    /\ dlPool' = "shutdown"
    /\ kpc' = "closing extract"
    /\ UNCHANGED <<dataVars, mainVars, dlQueue, dpc, dv, dint, exVars>>

CloseExtract ==
    /\ kpc = "closing extract"
    /\ exPool' = "shutdown"
    /\ kpc' = "stopping download"
    /\ UNCHANGED <<dataVars, mainVars, dlVars, exQueue, epc, ev, eint, ek>>

\* Mutant of StopDownload: the tasks not started stay in the pool.
InterruptDownload ==
    /\ kpc = "stopping download"
    /\ dlPool' = "stop"
    /\ dint' = [d \in Downloaders |-> dint[d] \/ dpc[d] # "idle"]
    /\ kpc' = "stopping extract"
    /\ UNCHANGED <<dataVars, mainVars, dlQueue, dpc, dv, exVars>>

\* shutdownNow(): the tasks not started are dropped, the running ones are
\* interrupted.
StopDownload ==
    /\ kpc = "stopping download"
    /\ dlPool' = "stop"
    /\ dlQueue' = <<>>
    /\ dint' = [d \in Downloaders |-> dint[d] \/ dpc[d] # "idle"]
    /\ kpc' = "stopping extract"
    /\ UNCHANGED <<dataVars, mainVars, dpc, dv, exVars>>

StopExtract ==
    /\ kpc = "stopping extract"
    /\ exPool' = "stop"
    /\ exQueue' = <<>>
    /\ eint' = [e \in Extractors |-> eint[e] \/ epc[e] # "idle"]
    /\ kpc' = "closed"
    /\ UNCHANGED <<dataVars, mainVars, dlVars, epc, ev, ek>>

CloseStep == CloseExtract \/ StopDownload \/ StopExtract

-----------------------------------------------------------------------------
Next ==
    \/ MainStep \/ InterruptMain
    \/ \E d \in Downloaders : DStep(d)
    \/ \E e \in Extractors : EStep(e)
    \/ CloseDownload \/ CloseStep

Spec == Init /\ [][Next]_vars

\* Threads that can run do run, downloads end. Nobody has to call close().
Fairness ==
    /\ WF_vars(MainStep)
    /\ \A d \in Downloaders : WF_vars(DStep(d))
    /\ \A e \in Extractors : WF_vars(EStep(e))
    /\ WF_vars(CloseStep)

FairSpec == Spec /\ Fairness

-----------------------------------------------------------------------------
(* Properties.                                                             *)

MainStates == {"put", "check", "size", "take", "count", "submit", "done", "null"}
DStates == {"idle", "download", "submit", "count", "finish", "wake"}
EStates == {"idle", "extract", "links", "finish", "wake"}
PoolStates == {"running", "shutdown", "stop"}
CloseStates == {"open", "closing extract", "stopping download", "stopping extract", "closed"}

\* Every variable has its type.
TypeOK ==
    /\ queue \in Seq(Vertex)
    /\ work \in Int
    /\ passedUrl \in SUBSET Urls
    /\ downloads \in Seq(Urls)
    /\ badDownloads \in SUBSET Urls
    /\ mpc \in MainStates /\ mv \in Vertex /\ mint \in BOOLEAN
    /\ dlPool \in PoolStates /\ dlQueue \in Seq(Vertex)
    /\ dpc \in [Downloaders -> DStates]
    /\ dv \in [Downloaders -> Vertex]
    /\ dint \in [Downloaders -> BOOLEAN]
    /\ exPool \in PoolStates /\ exQueue \in Seq(Vertex)
    /\ epc \in [Extractors -> EStates]
    /\ ev \in [Extractors -> Vertex]
    /\ eint \in [Extractors -> BOOLEAN]
    /\ ek \in [Extractors -> Nat \ {0}]
    /\ kpc \in CloseStates

\* The tasks that work stands for. A download between submit() and
\* incrementAndGet() stands for nothing: it has handed its own unit of work
\* over to the extract task that is not counted yet.
DCounted == {d \in Downloaders : dpc[d] \in {"download", "submit", "finish"}}
ECounted == {e \in Extractors : epc[e] \in {"extract", "links", "finish"}}
Outstanding ==
    Len(dlQueue) + Cardinality(DCounted) + Len(exQueue) + Cardinality(ECounted)
        + (IF mpc = "submit" THEN 1 ELSE 0)

\* work counts the outstanding tasks: never less, whatever close() drops, and
\* exactly as long as close() is not called.
WorkCounts ==
    /\ work >= Outstanding
    /\ kpc = "open" => work = Outstanding

\* Nothing is outstanding that could still change the result.
Quiet ==
    /\ dlQueue = <<>> /\ exQueue = <<>>
    /\ \A d \in Downloaders : dpc[d] \in {"idle", "count", "finish", "wake"}
    /\ \A e \in Extractors : epc[e] \in {"idle", "finish", "wake"}

\* download() does not return early: the lists it returns, which are not
\* copies, are never modified after it has returned, not even if the crawler is
\* closed while it runs.
ResultFinal == mpc = "done" => Quiet

\* The result tells what became of every page that was visited: unless the
\* downloader or the document crashed each is reported once, in the list that it belongs to.
ResultReports ==
    mpc = "done" /\ kpc = "open" =>
        /\ ToSet(downloads) = {u \in passedUrl : Outcome[u] = "ok"}
        /\ badDownloads = {u \in passedUrl : Outcome[u] \in {"download fails", "extract fails"}}
        /\ Len(downloads) = Cardinality(ToSet(downloads))

\* Levels[k]: the pages at most k - 1 links away from the start.
Levels[k \in 0..MaxDepth] ==
    IF k = 0 THEN {}
    ELSE {StartUrl} \cup
         UNION {ToSet(Links[u]) : u \in {x \in Levels[k - 1] : Outcome[x] = "ok"}}

\* No page deeper than the depth asked for is visited.
WithinDepth == passedUrl \subseteq Levels[MaxDepth]

\* "Downloads web site up to specified depth." (WebCrawler.java:145): every
\* page up to the depth is visited.
WholeDepth == mpc = "done" /\ kpc = "open" => passedUrl = Levels[MaxDepth]

\* Whatever way the threads find to a page first, a depth that no way without
\* repetitions can exceed cuts off nothing: every page that can be reached is
\* visited.
WholeWeb == MaxDepth >= Cardinality(Urls) => WholeDepth

\* download() returns, if nobody closes the crawler.
CrawlReturns == mpc = "put" ~> mpc \in {"done", "null"}

\* When close() has returned no download and no extraction starts any more,
\* and the tasks under way are all that is left.
NoStartAfterClose ==
    [][kpc = "closed" =>
        /\ \A d \in Downloaders : dpc[d] = "idle" => dpc'[d] = "idle"
        /\ \A e \in Extractors : epc[e] = "idle" => epc'[e] = "idle"]_vars
=============================================================================
