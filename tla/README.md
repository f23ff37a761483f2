# TLA+ specifications of the Java solutions

The repository holds a course's Java assignments, each a small program of its
own (package `ru.ifmo.rain.konovalov`, under
`src/java-solutions/ru/ifmo/rain/konovalov/`). What they have in common is
concurrency written by hand: monitors, thread pools, remote objects, datagrams.
This directory specifies those programs, model-checks the specifications with
TLC, and proves the most important invariants with TLAPS.

Paths below are relative to `src/java-solutions/ru/ifmo/rain/konovalov/`.

## 1. Inventory

| Component | State | Operations | Interacts with | Hard behaviour |
|---|---|---|---|---|
| `concurrent/ParallelMapperImpl` | task queue (a monitor), the workers' positions and interrupt flags, `aClose`, per call a result list with a counter (a monitor) | `map`, `close`, the workers' loop | called by several clients at a time; used by `IterativeParallelism` | one `notify()` per event, interrupts at every `wait`, tasks that throw, a field that is read without synchronization, `close` during a call |
| `concurrent/IterativeParallelism`, `IterativeParallelism7HW` | `result`, per task a position and a local result | `maximum`, `minimum`, `all`, `any` | a `ParallelMapper`, or threads of its own | parts that end in any order, racy reads of `result`, splitting of short lists, interrupts |
| `crawler/WebCrawler` | queue of pages, counter `work`, visited pages, downloads, errors, two pools | `download`, `close`, the two kinds of tasks | `Downloader` and `Document` (given), two executors | termination by a counter, tasks counted after they were submitted, `close` during a crawl, the order of the queue |
| `bank/RemoteBank`, `RemotePerson`, `RemoteAccount`, `LocalPerson`, `LocalAccount`, `Client.change` | map of accounts, map of persons, per person a map of accounts, amounts; local copies | `createPerson`, `createAccount`, `createPersonAccount`, `getAccount`, `setAmount`, `getLocalPerson`, `change` | RMI calls from several clients | two maps without a common lock, read-modify-write over two remote calls, concatenated keys, `int` overflow |
| `bank/BankServerImpl`, `Client.start/close` | two start flags, registry, exported bank | `start`, `close` | RMI registry, the port, other programs | failed start, start after close, double close, two owners |
| `hello/HelloUDPClient`, `HelloUDPServer`, `UDPSocketWorker` | sockets, queues, worker counter | `run`, `start`, `close`, request loop | UDP | loss, duplication, reordering; timeout against late answer; close while a worker sends |
| `hello/HelloUDPNonblockingClient` | selector keys, iteration per channel, buffer | `run` | a selector, UDP | the same with one thread; interest sets, one timeout for all channels |
| `hello/HelloUDPNonblockingServer` | selector, channel, buffer, two flags, executor | `start`, `close`, `send` | a selector, UDP | buffer after a failed send, flags after close, failed start, an old loop that ends late |
| `arrayset/ArraySet` | an immutable sorted list | the operations of `NavigableSet` | - | boundaries of the binary search |
| `walk/*` | - | FNV hash of files | files | 32 bit arithmetic |
| `student/StudentDB` | - | queries over lists | - | none: library streams |
| `implementor/JarImplementor` | the files in `temp`, of this call and of earlier ones | `implement`, `implementJar` | reflection, compiler, files | methods collected from two sources, failures that are swallowed, names that are not unique |
| `i18n/*` | - | statistics of a text | library text iterators | none: library |

Given code (`info/kgeorgiy/java/advanced`, `ru/ifmo/test`): the interfaces the
solutions implement and the course's tests. It is read for what it demands and
not modelled. The javadoc under `implementor/` is generated.

What makes each component correct:

* **ParallelMapperImpl**: no wakeup is lost, no task is lost or run twice, a call
  returns a full list (a mapper that is not closed and has a thread left), a task that fails with an
  `Exception` hurts nobody else, `close` returns when the threads have ended, and it returns.
* **IterativeParallelism**: the result is that of the sequential function, in
  every order of the tasks and for every division of the list.
* **WebCrawler**: `download` returns when, and only when, nothing is left to do; what it
  returns is complete within the depth, without duplicates, and final; after
  `close` nothing is started.
* **Bank**: bank and persons agree on the accounts, creation is idempotent, a
  change goes to the account of the person who is named, no money gets lost.
* **Hello**: every request is answered once and by its own answer; `close` releases
  what `start` took, and a server can be started again.
* **Bank server**: a started server serves the bank that it made, a closed one holds neither port nor
  bank, and a client gets the bank of its own server.
* **ArraySet**: each operation is that of a mathematical sorted set.
* **JarImplementor**: each abstract method is written once, so that the class compiles, and a call that
  returns leaves the class in the jar.

## 2. Modules

| Module | Models | Relation |
|---|---|---|
| `MapperPromise` | what `map` and `close` promise, without threads | abstract specification |
| `ParallelMapper` | `ParallelMapperImpl` | implements `MapperPromise` (`INSTANCE ... WITH`) |
| `ParallelMapperProofs` | - | theorems about `ParallelMapper` |
| `IterativeParallelism` | `IterativeParallelism` with the threads of its mapper and `close`, `IterativeParallelism7HW` | |
| `IterativeParallelismProofs` | - | theorems about `IterativeParallelism` |
| `WebCrawler` | `WebCrawler` with its two executors | |
| `WebCrawlerProofs` | - | theorems about `WebCrawler` |
| `Bank` | `RemoteBank`, its persons and accounts, `Client.change` | |
| `BankProofs` | - | theorems about `Bank` |
| `HelloNetwork` | the datagrams between clients and servers | |
| `HelloUDPClient` | one `run()` of `HelloUDPClient` | on `HelloNetwork` |
| `HelloUDPServer` | `start()` and `close()` of `HelloUDPServer`, its threads | on `HelloNetwork` |
| `HelloUDP` | - | composes client, server and network |
| `HelloUDPProofs` | - | theorems about `HelloUDP` |
| `ConnectedNetwork` | the datagrams between connected channels and a server | |
| `HelloUDPNonblockingClient` | one `run()` of `HelloUDPNonblockingClient` | on `ConnectedNetwork` |
| `HelloUDPNonblockingServer` | `HelloUDPNonblockingServer`: its handler, its loop, `start()`, `close()` | on `ConnectedNetwork` |
| `HelloUDPNonblocking` | - | composes client, server and network |
| `HelloUDPNonblockingProofs` | - | theorems about `HelloUDPNonblocking` |
| `BankServer` | `start()` and `close()` of `BankServerImpl` and `Client` | |
| `BankServerProofs` | - | theorems about `BankServer` |
| `ArraySet` | `ArraySet` | |
| `Implementor` | `JarImplementor` | |
| `SequentialProofs` | - | theorems about `ArraySet` and `Implementor` |
| `MCSequential` | - | `ArraySet` and `Implementor`, one after the other, with values of the constants for TLC |
| `MCParallelMapper`, `MCWebCrawler`, `MCBank`, `MCBankServer` | - | values of the constants for TLC |

Operators named "Mutant of X" are not part of a specification. Each is X with a
plausible mistake, and makes the property that it is paired with in
`PROJECT.json` fail: they show that the properties can tell.

### ParallelMapper

`functionQueue` is the queue of tasks `<<call, position>>`. `wpc[w]` is where
worker `w` is: `top` (before the monitor), `waiting` (in the wait set), `woken`
(notified, not yet in the monitor again), `taken`, `run`, `accept` (in
`ResultCollector.set`), `exit`, `dead`. The body of a synchronized block up to
a `wait()` is one step (`Enter`, `Resume`, `Add`, `Accept`, `WakeAll`), because nobody else can see its
intermediate states. `notify()` moves one waiting thread, any of them;
`wait()` also ends by a spurious wakeup or by an interrupt.

`aClose` is a plain `int`. `Start` and `Loop` read it without the lock, so a read may return any value the field has
had (`aCloseValues`), and `--aClose` of two workers may lose one decrement
(`Exit`). In `MyFunction.run` an interrupt that arrives while `f` runs is
cleared, turned into an exception and swallowed by the worker's
`catch (Exception ignored)` (`Swallows`); a task that throws an `Exception` is dropped
(`Throws`). An `Error` is caught by nobody (`Dies`): the thread ends, and as `--aClose` is skipped the mapper
still counts it. What a task in `Throwing` throws, if it does, is open. `close` visits the threads one by one (`Visit`), wakes all, joins
one after the other, and survives interrupts (`JoinInterrupted`).

### IterativeParallelism

A behaviour is one call; all calls with up to `MaxLength` elements and
`MaxThreads` threads are initial states. An element is its rank in the order of
the comparator. `Balanced` and `LastLonger` are the two ways the classes split the list. A task reads
`result` when it begins (`Begin`, any value that `result` has held, since the
read is not synchronized), goes through its part element by element (`Scan`,
`Test`) and merges under the lock (`Merge`). Which of the tasks under way goes on is
arbitrary. Comparators and predicates are assumed to return.

Tasks on a mapper are taken in the order of its queue by a thread without a task (`Take`). Threads are not named but counted: `fresh` have no
task, the others are with the tasks that are under way. A mapper that the call made for itself is closed
before the call returns, also if it was interrupted (`Closing`): `close()` interrupts each thread once, one
without a task (`VisitIdle`), which ends, or one with task `t` (`Visit`), which is then in `visited`. A visited thread that has not yet
looked at its flag ends and drops the task (`Drop`); one that has, and is in `f`, loses the interrupt (`Finish`): it is one of the
`back` threads that `close()` has passed and that wait, or take the next task. `close()` returns when no thread is
left (`CloseReturns`), and while it waits a second interrupt of the caller is passed on to the thread that it waits for (`InterruptAgain`).
How the threads wait and are woken is the matter of `ParallelMapper`, and left out here.

### WebCrawler

`mpc` follows the thread in `download()` through `runBFS`: the two reads of the
loop condition (`MainCheckWork`, `MainCheckSize`) are two steps, and so are
`incrementAndGet` and `submit`. `dpc` and `epc` follow the threads of the two pools; each executor is its queue of
tasks and a state `running`/`shutdown`/`stop`. `DSubmit` and `DCount` are separate because the code submits the extract
task before it counts it. `close()` is four steps in the code's order. A web
is `Links`, and `Outcome` says how a page fails: in the download or in the
extraction, in each with an `IOException` or with an exception that nobody catches. `perHost` is not used by the code.

### Bank

A `RemoteAccount` is a position in `heap`; identity matters since a map may hold
an object that another map has replaced. A person is its passport, because
`persons` never replaces an entry. Every access to a `ConcurrentHashMap` and every
synchronized method is one step; `change` and `createPersonAccount` are the
sequences of them. `IdOf[p][n]` stands for `p + ':' + n`, which is not injective
if a colon occurs in it: where a property needs that, it says so
(`DistinctIds`). Amounts are added modulo `2 * HalfRange`. `credited` is a history
variable: the exact sum of what was added. `getLocalPerson` copies account by
account while others go on.

### HelloUDP

`net` is the set of datagrams on their way; any of them may arrive next, so they
are reordered at will. A datagram may be lost (`Lose`), arrive and stay
(`Deliver`, a duplicate), or come from a stranger (`Forge`); a second copy of what
is on its way already is no other state. The text `prefix + thread + "_" + i` of a request is the pair
`<<t, i>>`, and an answer is "Hello, " with it (`hello`).

*Client.* `cpc[t]` follows a thread through `work()` and `request()`: `send`,
`receive`, `put`, `finally` (closing its socket, `workers.decrementAndGet()`), and
`last`, the `put(" ")` of the thread that counts to zero. An answer is accepted from the address
the request went to, with the greeting and with the text of this request
(`Accepts`); anything else is passed over. After a second (`TimeOut`) the request is sent
again: either nothing is on its way to the thread (`NothingComes`) or, as a
fault, it is late and still comes. `mpc` follows the caller of `run()` through `print()`, whose condition
is two reads (`CheckWorkers`, `CheckSize`), and `close()`, which closes the sockets one by
one, interrupts the threads and waits for them.

*Server.* `reader` is the thread that receives and puts into `packets`, `spc[w]`
a worker of the pool, `kpc` the caller of `start()` and `close()`. `close()` closes the socket, interrupts
and joins the reader (`JoinInterrupted`: an interrupt is swallowed and the join repeated), then
shuts the pool down and waits; an interrupt there ends `close()` early
(`AwaitInterrupted`). A thread that works on a closed socket fails and ends.

`lines`, `owed` and `stopped` are history variables.

### HelloUDPNonblocking

Here the number of copies of a datagram matters (`NoStorm`), so that `up` and `down` are bags. The channels of
the client are connected: there are no strangers.

*Client.* A key's interest is `both` at the beginning, then `write` and `read` in turns. `Read`, `Write` and `Finish` are
the branches of the handler `receiveSend`, one step each, as nobody runs at the same time; `select`
calls it for the channels that are ready in any order. Everything that is read, also what is not
accepted, turns the channel to writing. `TimeOut` is `select` returning 0: no channel has been ready for
half a second. An exception in the handler changes nothing, except that a later timeout is needed.

*Server.* `buffer` holds the texts in `byteBuffer`. `SelectRequest` is the handler: receive behind what is
there, answer with all of it, and clear the buffer only if the send succeeds. At most `Fits` texts can be
sent in one datagram. `lpc[n]` is where the loop of the `n`-th `start()` is, with the two resets at its
end as two steps; `opc` is where the caller of `start()` and `close()` is. He may call them in
any order: `close()` before `start()` (the executor is null, and the flag stays set) or twice, and `close()` may give up
waiting. `close()` leaves the old channel open and bound; what arrives there is read by nobody (`OpenChannel`).
`running`, `regular` and `answered` are history variables.

### BankServer

Each `start()` that gets so far makes a bank and perhaps a registry, named by the same number. `exported` are the
banks that can be called, `port` is the registry that holds the port, and `bound` what the registries
know. The steps of `start()` and `close()` are the calls of the RMI library; two callers may use one server
at a time. Every exception path is there: the port taken by another server or program (`PortTaken`, after which
the bank stays exported: `orphans`), a bank exported twice, a bank that is null or not exported.
What two callers do to one server at a time has no order that the code defends, so that the properties speak of servers
that were never used by two at a time (`shared`).

### ArraySet

An initial state is the set made from any collection; the steps replace the set by a view of it. An element is
its rank and which object of that rank it is. `content` is the mathematical set of ranks with the same views
taken; the queries are operators, compared with what they should find in `content` in every state.

### Implementor

`classes` is a hierarchy, each class the superclass of the next one; `Extend` adds any class that the compiler accepts
below the others. A class declares some of the methods (`Signatures`: a name with the types of parameters),
each with an access and as abstract, concrete or final, and implements some of the interfaces. What reflection and the compiler know of a hierarchy are the operators
`ReflectedMethods` (`Class.getMethods`), `IsAbstract`, `Access` and `Compiles`; what the code
writes is `Written`. Private and static methods, several packages and
the types of results are left out.

`implementJar()` is called for any class of the hierarchy, several times. `step` is where it is, between the calls that may fail with
an `IOException`, the compiler's writing of the class among them; `lost` is a history variable: a failure of this call was swallowed. Files are kept by the simple name of their class, since that is what their names are made from: two nested
classes may have the same. `source` and `compiled` are the files in `temp`, which are deleted only when the program ends.

## 3. Runs

| Run | Constants | Shows |
|---|---|---|
| `mapper_close` | 2 workers, calls with 2 and 1 tasks, one of which may throw an `Exception` or an `Error`, one caller interrupted, 2 calls of `close` that may be interrupted | types, `WakeupInFlight`, `OnePlace`, `ClosedMeansDead`, refinement of `MapperPromise`; `CloseStopsIdleWorkers` and `MapReturns` under fairness |
| `mapper_stop_busy` | 2 workers, one `close` | *violation*: `close` may never return |
| `parallel_results` | lists up to 3, ranks 0..2, threads 0..3, a shared mapper of 2 threads, `close` of a mapper of its own, interrupts at any moment | `ResultRight`; `CallEnds` under fairness |
| `crawl_result` | 5 pages with cycles and ways of different length, two of which crash, 1 downloader, 2 extractors, depth 5 | `WholeWeb`; `CrawlReturns` under fairness |
| `crawl_close` | 4 pages, one whose links cannot be read, 2 + 2 threads, depth 2, `close` and interrupt at any moment | `WorkCounts`, `ResultFinal`, `ResultReports`, `WithinDepth`, `NoStartAfterClose` |
| `crawl_depth` | a page with a short and a long way, 2 extractors, depth 3 | *violation*: pages within the depth are missed |
| `bank_accounts` | 2 callers, 3 calls each, 2 persons, amounts -4..3 | `AccountsAgree`, `RightAccount`, `MoneyAddsUpAlone` |
| `bank_server` | 2 servers and a client, one server used by both of 2 callers, 3 banks, 4 calls each, another program | `StartedServes`, `ClosedFrees`, `ClientHasOwnBank` |
| `hello_exchange` | 2 threads with 2 requests each, 1 worker, 1 fault | types, `OwnAnswers`, `RunComplete`, `PrintWakes`, `AnsweredOnce` |
| `hello_close` | 1 thread with 1 request, 2 workers, 1 fault, one `close` | `ServerStops`; `CloseReturns` and `RunReturns` under fairness |
| `nio_exchange` | 2 channels with 2 requests each, 2 starts and one `close`, 2 faults, 2 texts fit into an answer | types, `OneLoop`, `Restartable`, `AnsweredInTurn`, `NoStorm`; `RunReturns` under fairness |
| `sequential_parts` | collections up to 4 of 4 ranks with 2 objects each, 2 views; 3 classes, the first two of the same simple name, the last one without constructors, 2 interfaces, 1 method, 2 calls, 1 failure of input or output | `SameElements`, `SameAnswers`; `ImplementsHierarchy`, `JarHasClass` |

**The bounds and why they are enough.** With two workers a notification can go to one
that finds the queue empty again, or is interrupted, while the other sleeps; two calls with different lists are needed for tasks of
one to stand between tasks of the other. `close` twice, because the second call
finds dead threads and an `aClose` below zero. In `parallel_results` three elements on two threads leave a remainder, three threads have more parts than
a short list has elements, and three tasks are more than the two threads of a mapper, so that a thread takes a second task, or
finds one after `close()` has interrupted it in vain. In the crawler two extractors are
enough for a page to be reached by two ways in both orders, and two
downloaders for a pool's thread to be idle while the other one is between
`submit` and `incrementAndGet`. A counterexample to the bank's properties
needs two callers between the same two steps; three calls per caller let
one of them create what the other uses, replace it, and use it again.
`HalfRange = 4` lets two additions overflow.
Two threads with two requests each are the least client in which an answer can
belong to an earlier request or to another thread. `MaxFaults` is one budget for
losses, duplicates, strangers, late datagrams and interrupts; with one fault an
answer can already come twice or after the next request was sent, since
retries need no fault when nothing comes. `nio_exchange` has two: one failed send leaves a text in the buffer,
so that the next answer is garbled, and after a second one nothing can be sent any more. Two starts
let an old loop meet a new one. Three banks and two servers let a failed `start()` be followed by a successful one while
another server comes and goes; four calls are two rounds of `start()` and `close()`. Four
elements are enough for an argument on either side of, between and on the elements, with duplicates
among them, and two views for one of a reversed one. Methods do not influence each other, so that one is enough; three
classes let one declare a method, the next one redeclare it and the last one inherit it, and two calls let the second one find the files of the first. `implementJar` is not called for hierarchies
in which a class implements an interface that one above it implements already (`ImplementedOnce`): that changes nothing. The theorems of section 4 have no such bound.
The constants whose names begin with `Max` are the bounds; no action is cut off by anything else.

**Deadlock** is not checked: all the programs end, and a mapper without calls
sleeps.

**Fairness.** Weak fairness of each thread's steps: the JVM schedules runnable
threads, and `f`, downloads, comparators and predicates are assumed to end.
No fairness for `close`, interrupts or spurious wakeups, which need not happen, and none
for who gets a monitor or a notification: which waiting thread `notify` picks is
arbitrary. Every thread of `HelloUDP` is weakly fair, and so is, in `HelloUDPNonblocking`, every channel
(a call of `select` handles all that are ready); the network owes nothing: what
bounds its losses is `MaxFaults`. That `start` is called is not fair either, and
`RunReturns` is stated for a server that is up from some moment on.
`MapReturns` is stated for a mapper that is not closed and has a thread left, `CallEnds` for calls whose `close()`
meets no thread inside `f` (the first of the differences below), and
`CrawlReturns` for a crawler that is not closed, since a closed one leaves
"unfinished mappings in undefined state", and a crawl whose tasks were
dropped waits for ever in `queue.take()`.

### Where the code and what is said of it differ

1. `ParallelMapperImpl.java:93`: "Stops all threads" (line 142) fails for
   a worker that is interrupted while it runs `f`: the interrupt is swallowed with
   the exceptions of `f`, the worker goes back to `wait()`, and `close()` joins it
   for ever (`CloseStopsWorkers`). If no worker is interrupted there,
   `close` does end (`CloseStopsIdleWorkers`). The same happens to a call of `IterativeParallelism` that is interrupted and
   closes its own mapper (`IterativeParallelism.java:122`, `171`): the interrupt of a part under way is set again (line 79), and
   cleared and swallowed as above, so that the call may never end and leaves a thread, although "@throws InterruptedException if executing
   thread was interrupted" (line 99). `CallEnds` excludes exactly that, and fails without its hypothesis.
2. `WebCrawler.java:128`: "up to specified depth" (line 145) fails when the longer of two
   ways to a page is taken first: the page is visited, but at a level at which the pages behind it
   are cut off (`WholeDepth`). A depth of at least the number of pages cuts nothing off (`WholeWeb`).

More things the reader should know, which the models show and no run is about:

* `ParallelMapperImpl.java:93`: an `Error` of a task ends its worker without `--aClose`. When no worker is left the next
  `map()` is still accepted (line 113), and waits for ever; nor does the call of that task ever end. `MapReturns` assumes a worker that is left
  (`\E w \in Workers : wpc[w] # "dead"`).
* `Client.java:74`: of two concurrent changes of an account one may be lost, since the amount is read
  and written in two calls. `MoneyAddsUpAlone` is about accounts that one caller changes.
* `IterativeParallelism.java:84`: the maximum need not be the *first* one, as the assignment asks
  (`src/README.md:180`): the parts are merged in the order in which they end.
* `RemoteBank.java:60`: `createAccount` replaces an account that exists; `AccountsAgree`
  therefore assumes that nobody uses it for a person's account (`OnlyPersonsOwn`). `createPersonAccount` of a
  `LocalPerson` (`RemoteBank.java:87`) does the same to the local person's own map.
* `HelloUDPNonblockingServer.java:110`: a `close()` of a server that does not run leaves `isClose` set, and the
  loop of the next `start()` ends at once, although `start()` returns. `Restartable` is about
  callers who do not do that (`regular`). A failed `start()` leaves `startFlag` set for ever (line 94), and
  "deallocates all resources" (line 106) does not hold for channel and selector, which nobody closes.
* `HelloUDPNonblockingServer.java:49`: when so much is left in the buffer that the answer exceeds a datagram, every further
  send fails and nothing clears the buffer: `RunReturns` is stated for a server that can answer (`CanAnswer`).
* `BankServerImpl.java:50`: a failed `start()` leaves its bank exported, and `close()` does not find it
  (`orphans`). `Client.java:42`: a client can be started once, also if that failed; `close()` of a client that
  was never started throws.
* `ArraySet.java:32`: without a comparator duplicates are recognized by `==`, so that two equal
  objects both stay in the set. `SameElements` is about collections without such pairs (`Proper`).
* `JarImplementor.java:271`: a protected or package-private abstract method that is declared again further down is written
  once more, also if it is implemented there; if it is declared again as abstract, if it was made public or final,
  the class does not compile. Nor does it if a method comes from two unrelated interfaces (line 285).
  `ImplementsHierarchy` says that these are all the cases. `implement()` reports none of them.
* `JarImplementor.java:390`: an `IOException` while the source is written is only printed (line 355), and the exit code of
  the compiler is not looked at (line 129), neither for a source that does not compile nor for a class file that cannot be written.
  If a class of the same simple name was implemented before (a nested one), its old class file then gets into the jar and the
  call returns normally; if there is none, or the compiler has deleted one half written, `implementJar()` throws. `JarHasClass` allows the older class
  in exactly these cases (`lost`, `~Compiles`). A class with private constructors only leaves an empty file behind (line 327).

## 4. Proofs

All theorems hold for every value of the constants, from the `ASSUME`s of the
modules only (sizes are natural numbers, sets of threads are finite and not
empty, the null values differ from the others); TLC evaluates these assumptions in every run.
Two theorems, named below, have one hypothesis more.

| Theorem | States | Rests on |
|---|---|---|
| `ParallelMapperProofs!TypeCorrect` | `TypeOK` | - |
| `NoLostWakeup` | `WakeupInFlight` | inductive with `TypeOK` |
| `OncePerTask` | `OnePlace` | `Placement` |
| `WholeResults` | `ResultComplete`, `RejectedOnlyIfClosed` | `OpenInv`, `Placement` |
| `CloseIsComplete` | `ClosedMeansDead` | `CloseInv` |
| `MapperImplementsPromise` | `ImplementsPromise` | all of these |
| `IterativeParallelismProofs!ResultIsRight` | `ResultRight` | `PlaceInv`, `MaximumInv`, `AllInv` |
| `WebCrawlerProofs!TypeCorrect` | `TypeOK` | - |
| `WorkNeverUnderestimates` | `WorkCounts` | `OpenPools` |
| `ResultIsFinal` | `ResultFinal` | `QuietWhenSeen` |
| `NothingStartsAfterClose` | `NoStartAfterClose` | `Drained` |
| `NothingTooDeep` | `WithinDepth` | `DepthInv` |
| `ResultIsReport` | `ResultReports` | `ReportInv`, `WorkCounts`, `QuietWhenSeen` |
| `WholeWebIsVisited` | `WholeWeb`, for a finite `Urls` | `LevelInv`, `WholeInv` and those above |
| `BankProofs!TypeCorrect` | `TypeOK` (of `Bank`) | `Control` |
| `MapsAgree` | `AccountsAgree` | `AgreeInv` |
| `ChangesRightAccount` | `RightAccount` | `HomeInv`, `ChangeInv` |
| `MoneyAddsUp` | `MoneyAddsUpAlone` | `HomeInv`, `MoneyInv` |
| `HelloUDPProofs!TypeCorrect` | `TypeOK` | `ClientControl`, `ServerControl` |
| `AnswersAreOwn` | `OwnAnswers` | `LinesInv` |
| `ServerHasStopped` | `ServerStops` | `CloseInv` |
| `RunIsComplete` | `RunComplete` | `LinesInv`, `RunInv` |
| `PrintIsWoken` | `PrintWakes` | `RunInv`, `WakeInv` |
| `EveryRequestIsAnsweredOnce` | `AnsweredOnce` | `OwedInv` |
| `HelloUDPNonblockingProofs!TypeCorrect` | `TypeOK` | `TypeInv` |
| `LoopIsAlone` | `OneLoop` | `LoopInv` |
| `StartsAgain` | `Restartable` | `LifeInv` |
| `AnswersInTurn` | `AnsweredInTurn` | `AnswerInv` |
| `ThereIsNoStorm` | `NoStorm` | `StormInv`, `LoopInv` |
| `BankServerProofs!TypeCorrect` | `TypeOK` | - |
| `StartedServersServe` | `StartedServes` | `OwnInv`, `ServerInv` |
| `ClosedServersFree` | `ClosedFrees` | `OwnInv`, `ServerInv` |
| `ClientsHaveTheirBank` | `ClientHasOwnBank` | `OwnInv`, `ClientInv`, `ServerInv` |
| `SequentialProofs!ViewsHoldTheirElements` | `SameElements` | `SetInv` |
| `ViewsAnswerRight` | `SameAnswers` | `SetInv` |
| `HierarchyImplemented` | `ImplementsHierarchy` | `HierarchyOK` |
| `JarIsUsable` | `JarHasClass` | `JarInv` |

The inductive invariants:

* `Placement` adds to `OnePlace` that what is done was a task of a submitted call: a call
  that is still adding has no task anywhere, so that `Add` cannot duplicate one.
* `OpenInv`: before `close()` nobody is interrupted and `aClose` has only had its
  first value. That is why a racy read cannot end or reject a call early.
* `CloseInv` (of `ParallelMapper`): a thread that `close()` has passed is in `threadList` or has ended (`Accounted`), so that
  those it joins are all of them; an ended one never comes back.
* `PlaceInv`: a call that returns, also one that still closes its mapper, has all tasks done, and a task's position is in its part, or behind it. `MaximumInv`: no element that
  a task has looked at is larger than its local result or, when it is done, than `result`; an old `result` that it
  began with is still an element of the list, and merging never makes `result` smaller. `AllInv`: the flag is up only if the predicate
  fails somewhere, and is up when a task has seen an element where it fails. That each element is in some part
  is what `BalancedParts` and `LastLongerParts` say (quotients and remainders, `Division`).
* `OpenPools`: until `close()` the pools accept tasks, which is when `work` is
  exact and not only an upper bound.
* `QuietWhenSeen`: between the two reads of the loop condition nothing is
  outstanding. It lasts, because only an outstanding task, or main, can make new ones.
* `Drained`: after `shutdownNow()` the pools' queues stay empty.
* `DepthInv`: a page that is anywhere under way with a level within the depth can be reached in so many links.
* `ReportInv`: until `close()` each page is in exactly one of eight places (`At`): not passed yet, in main's hands, in a queue or with
  a thread of a pool, or in one of the two lists. Together with an exact `work` that is zero, all are in the lists.
* `LevelInv`: a page found at level n has n - 1 visited pages before it, which is why a depth of the number of pages
  cuts nothing off. `WholeInv`: what was found is visited or in the queue, and a page is among the downloads
  only after all its links were found.
* `Control` ties the program counter of a call to its operation and to the variables it needs.
* `AgreeInv`: what a caller holds between `putIfAbsent` on the bank's map and `putIfAbsent` on the
  person's is what the bank's map has, and no map entry ever goes back to null.
* `HomeInv`: an account is known under one identifier only, in the bank's map, in the persons' maps and in the hands of callers.
  `ChangeInv`: a `change()` that goes on has found the name that it was given, and the account that it put into the
  person's map is still there. `MoneyInv`: of an account with one writer, the amount that the writer has read is still the one in the account.
* `LinesInv`: a thread has put as many lines as its counter says, each the answer to the request
  of that number, and the answer it is about to put is the one to its current request.
* `CloseInv`: each stage of `close()` keeps what the stages before have ended.
* `RunInv`: while nobody interrupts `run()`, `workers` is the number of threads that have not counted
  themselves out (`CountInv`), such a thread has an open socket and no interrupt, a thread counts itself
  out only with all requests answered (`ThreadInv`), and from the moment `print()` saw zero no thread is
  left that could put an answer (`QuietInv`).
* `WakeInv`: while `print()` prints nobody has interrupted a thread, so that the last one does put its blank line; and whoever has decided to
  take a line has one, or somebody who will put one.
* `OwedInv`: until `close()` each datagram received and not answered is with the reader, in the queue or with one
  worker, counted by its body, copies included.
* `TypeInv` (of `HelloUDPNonblocking`): the client's counter `workerClose`, which ends its loop, is the number of the channels that are closed.
* `LoopInv`: a loop that lives has `startFlag` set, only one lives, and none does while `start()` works: it is the flag
  that keeps a second loop away, also when `close()` has given up waiting for the first one.
* `LifeInv`: what flags and loops are in each phase of an owner who starts and closes the server in turns (`regular`); in particular
  `close()` waits for the loop that will reset the flags.
* `AnswerInv`: an answer with one text on its way to the client is one that the server has given, and a channel that has advanced
  past a request has had its answer.
* `StormInv`: what is on its way for a channel, and one if the channel is about to send, is at most one and one for each fault and each
  ended loop; and while the server cannot serve (`~Serves`) it is at most the faults and the ended loops. Without the second part the first is not
  inductive: while the server cannot serve a timeout, after which the channel sends again, is not counted as a fault; but then the
  datagram that the channel waited for was lost by a fault, or its answer is one that the end of the loop allows. The network is
  a bag, and its elements are counted as pairs of a datagram and the number of a copy (`Copies`), because the library defines
  `BagCardinality` by recursion; that the two numbers are the same is `WayIsOnTheWay`.
* `OwnInv`: each bank and registry belongs to the one server that made it, and the registry that holds the port is the
  last one of its server. `ServerInv` says what port, bank and registry are between two calls on a server that nobody
  shares (`Rested`) and at each step of a call (`Stage`); a step of a call on another server cannot change that (`OthersUntouched`). `ClientInv`: a
  client has no bank before its only `start()` has found one.
* `SetInv`: the list is in the order of its comparator without equal elements, and has the ranks that the mathematical set has.
  `SortSetIsRight` gives this for the constructor, `Cut` and `Turned` for the views; `Search` says what `binarySearch`
  returns for an element that is or is not in the list, from which `Answers` follows for every query.
* `HierarchyOK` is the type of the hierarchy; the rest of `ImplementsHierarchy` is about what is written for one: of the classes that
  declare a method the nearest one exists (`Greatest`, a maximum found by minimality and not by induction), what is written is
  the nearest declaration if none is redeclared (`OnceIfNever`), and a redeclared one is written wrongly (`NeverIfOnce`).
* `JarInv`: a source or class file holds a class of its name, each class file compiles, and after `compile` the class file
  is the token's unless a failure of this call was swallowed (`lost`) or the source is not accepted.

The refinement is proved from at least one thread, since a mapper of zero threads
rejects every call.

`WholeWebIsVisited` has a hypothesis of its own, that `Urls` is finite. `WholeWeb` is about a depth of at
least the number of pages, and only finitely many have such a number.

What a recursive function computes (`Levels`, the sorting of `ArraySet`, `BagCardinality`) is proved without the
library's induction theorems, which take a predicate as a parameter, something these provers cannot instantiate. The proofs take a
smallest element of the *set* of counterexamples instead: `LeastNumber` for natural numbers, `SmallerSets` for the subsets of
a finite set (`WFMin` on `StrictSubsetOrdering`).

**Only model-checked**: liveness (`MapReturns`, `CloseStopsIdleWorkers`,
`CrawlReturns`, `CallEnds`, `RunReturns`, `CloseReturns`), which TLAPS cannot do with fairness. Every
invariant, action property and refinement that a passing run checks is proved.

## 5. Not modelled, and the plan

Not modelled by choice:

* `main` methods (argument parsing);
* the text that `JarImplementor` writes, beyond which methods are in it;
* `StudentDB`, `i18n` and the walks: no state of their own, library calls, text and files. The FNV
  hash is one multiplication and one xor per byte, which a model could only repeat;
* the scripts and pages of the javadoc under `implementor/` (jQuery, jQuery UI, the search index):
  generated by the javadoc tool, no part of these programs;
* the course's interfaces and tests: given code;
* a second `download` on the same crawler, comparators that throw, errors while a client opens its sockets.

Planned:

1. An abstract specification of one `run()` that both Hello clients implement: the requests of each channel answered in
   order. `OwnAnswers` and `AnsweredInTurn` are its invariants, `LinesInv` and `AnswerInv` what the mappings need.
2. `IterativeParallelism` over `ParallelMapper` itself (`INSTANCE`), instead of over a mapper of counted threads. `MapperPromise` does not
   suffice for that: what `close()` does to a task under way is not among its promises.
