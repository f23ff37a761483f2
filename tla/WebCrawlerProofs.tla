-------------------------- MODULE WebCrawlerProofs --------------------------
(* Proofs about WebCrawler, for any web, any depth and pools of any size.  *)
EXTENDS WebCrawler, FiniteSetTheorems, WellFoundedInduction, TLAPS

\* Where a queue of vertices gives its head away.
LEMMA HeadAndTail ==
    ASSUME NEW q \in Seq(Vertex), q # <<>>
    PROVE  /\ Head(q) \in Vertex
           /\ Tail(q) \in Seq(Vertex)
           /\ Len(q) \in Nat \ {0}
           /\ Len(Tail(q)) = Len(q) - 1
OBVIOUS

\* And where it takes one more (LinkedBlockingQueue.put, the pools' queues).
LEMMA AppendVertex ==
    ASSUME NEW q \in Seq(Vertex), NEW v \in Vertex
    PROVE  Append(q, v) \in Seq(Vertex) /\ Len(Append(q, v)) = Len(q) + 1
OBVIOUS

LEMMA VertexParts ==
    ASSUME NEW v \in Vertex
    PROVE  v.url \in Urls /\ v.level \in Nat \ {0}
BY DEF Vertex

LEMMA StartIsVertex == Start \in Vertex /\ NoVertex \in Vertex
BY UrlsAssumption DEF Start, NoVertex, Vertex

-----------------------------------------------------------------------------
(* Type correctness, by the owner of the variables.                        *)

MainTypeOK ==
    /\ mpc \in MainStates /\ mv \in Vertex /\ mint \in BOOLEAN
    /\ passedUrl \in SUBSET Urls
DTypeOK ==
    /\ dlPool \in PoolStates /\ dlQueue \in Seq(Vertex)
    /\ dpc \in [Downloaders -> DStates]
    /\ dv \in [Downloaders -> Vertex]
    /\ dint \in [Downloaders -> BOOLEAN]
ETypeOK ==
    /\ exPool \in PoolStates /\ exQueue \in Seq(Vertex)
    /\ epc \in [Extractors -> EStates]
    /\ ev \in [Extractors -> Vertex]
    /\ eint \in [Extractors -> BOOLEAN]
    /\ ek \in [Extractors -> Nat \ {0}]
DataTypeOK ==
    /\ queue \in Seq(Vertex)
    /\ work \in Int
    /\ downloads \in Seq(Urls)
    /\ badDownloads \in SUBSET Urls

LEMMA TypeOKParts ==
    TypeOK <=> MainTypeOK /\ DTypeOK /\ ETypeOK /\ DataTypeOK /\ kpc \in CloseStates
BY DEF TypeOK, MainTypeOK, DTypeOK, ETypeOK, DataTypeOK

LEMMA InitTypeOK == Init => TypeOK
<1>. SUFFICES ASSUME Init PROVE TypeOK
  OBVIOUS
<1>. USE StartIsVertex
<1>0. MainTypeOK
  BY DEF Init, MainTypeOK, MainStates
<1>1. DTypeOK
  BY DEF Init, DTypeOK, PoolStates, DStates
<1>2. ETypeOK /\ DataTypeOK /\ kpc \in CloseStates
  BY DEF Init, ETypeOK, DataTypeOK, PoolStates, EStates, CloseStates
<1>. QED BY <1>0, <1>1, <1>2, TypeOKParts

\* The steps of the thread in download().
LEMMA MainStepTypeOK ==
    ASSUME TypeOK, MainStep \/ InterruptMain
    PROVE  TypeOK'
<1>. USE DEF MainStates
<1>0. MainTypeOK /\ DTypeOK /\ ETypeOK /\ DataTypeOK /\ kpc \in CloseStates
  BY TypeOKParts
<1>1. CASE UNCHANGED <<dlVars, exVars, kpc>>
  <2>1. DTypeOK' /\ ETypeOK' /\ kpc' \in CloseStates
    BY <1>0, <1>1 DEF DTypeOK, ETypeOK, dlVars, exVars
  <2>2. CASE MainPut
    <3>1. queue' \in Seq(Vertex)
      BY <1>0, <2>2, StartIsVertex, AppendVertex DEF MainPut, DataTypeOK
    <3>. QED
      BY <1>0, <2>1, <2>2, <3>1, TypeOKParts DEF MainPut, MainTypeOK, DataTypeOK, TypeOK, DTypeOK, ETypeOK
  <2>3. CASE MainTake
    <3>1. Head(queue) \in Vertex /\ Head(queue).url \in Urls /\ queue' \in Seq(Vertex)
      BY <1>0, <2>3, HeadAndTail, VertexParts DEF MainTake, DataTypeOK
    <3>2. mv' \in Vertex /\ passedUrl' \in SUBSET Urls /\ mpc' \in MainStates
      BY <1>0, <2>3, <3>1 DEF MainTake, MainTypeOK
    <3>. QED
      BY <1>0, <2>1, <2>3, <3>1, <3>2 DEF MainTake, MainTypeOK, DataTypeOK, TypeOK, DTypeOK, ETypeOK
  <2>4. CASE MainCheckWork \/ MainCheckSize \/ MainCount \/ MainInterrupted \/ InterruptMain
    <3>1. MainTypeOK'
      BY <1>0, <2>4 DEF MainCheckWork, MainCheckSize, MainCount, MainInterrupted,
                        InterruptMain, MainTypeOK
    <3>2. work' \in Int
      BY <1>0, <2>4 DEF MainCheckWork, MainCheckSize, MainCount, MainInterrupted,
                        InterruptMain, DataTypeOK, dataVars
    <3>3. DataTypeOK'
      BY <1>0, <2>4, <3>2 DEF MainCheckWork, MainCheckSize, MainCount, MainInterrupted,
                        InterruptMain, DataTypeOK, dataVars
    <3>. QED
      BY <2>1, <3>1, <3>3 DEF MainTypeOK, DataTypeOK, TypeOK, DTypeOK, ETypeOK
  <2>5. CASE MainSubmit
    <3>1. MainTypeOK' /\ DataTypeOK'
      BY <1>0, <2>5, StartIsVertex DEF MainSubmit, MainTypeOK, DataTypeOK, dataVars
    <3>. QED
      BY <2>1, <3>1 DEF MainTypeOK, DataTypeOK, TypeOK, DTypeOK, ETypeOK
  <2>. QED
    BY <2>2, <2>3, <2>4, <2>5 DEF MainStep
<1>2. CASE MainSubmit
  <2>1. dlQueue' \in Seq(Vertex)
    BY <1>0, <1>2, AppendVertex DEF MainSubmit, DTypeOK, MainTypeOK
  <2>. QED
    BY <1>0, <1>2, <2>1, StartIsVertex
       DEF MainSubmit, MainTypeOK, DTypeOK, ETypeOK, DataTypeOK, TypeOK, dataVars, exVars
<1>. QED
  BY <1>1, <1>2
     DEF MainStep, InterruptMain, MainPut, MainCheckWork, MainCheckSize, MainTake,
         MainCount, MainInterrupted

\* The steps of a task of the download pool.
LEMMA DStepTypeOK ==
    ASSUME TypeOK, NEW d \in Downloaders, DStep(d)
    PROVE  TypeOK'
<1>. USE DEF DStates
<1>0. MainTypeOK /\ DTypeOK /\ ETypeOK /\ DataTypeOK /\ kpc \in CloseStates
  BY TypeOKParts
<1>1. /\ UNCHANGED <<mainVars, dlPool, kpc, downloads>>
      /\ UNCHANGED exVars \/ DSubmit(d)
  BY DEF DStep, DTake, DDownload, DSubmit, DCount, DFinish, DWake, dataVars
<1>2. MainTypeOK' /\ kpc' \in CloseStates
  BY <1>0, <1>1 DEF MainTypeOK, mainVars
<1>3. dv[d] \in Vertex /\ dv[d].url \in Urls
  BY <1>0, VertexParts DEF DTypeOK
<1>4. ETypeOK'
  <2>1. CASE UNCHANGED exVars
    BY <1>0, <2>1 DEF ETypeOK, exVars
  <2>2. CASE DSubmit(d)
    <3>1. exQueue' \in Seq(Vertex)
      BY <1>0, <1>3, <2>2, AppendVertex DEF DSubmit, ETypeOK
    <3>. QED BY <1>0, <2>2, <3>1 DEF DSubmit, ETypeOK
  <2>. QED BY <1>1, <2>1, <2>2
<1>5. DTypeOK'
  <2>1. CASE DTake(d)
    <3>1. Head(dlQueue) \in Vertex /\ Tail(dlQueue) \in Seq(Vertex)
      BY <1>0, <2>1, HeadAndTail DEF DTake, DTypeOK
    <3>. QED BY <1>0, <2>1, <3>1 DEF DTake, DTypeOK
  <2>2. CASE DDownload(d) \/ DSubmit(d) \/ DCount(d)
    BY <1>0, <2>2 DEF DDownload, DSubmit, DCount, DTypeOK
  <2>3. CASE DFinish(d) \/ DWake(d)
    BY <1>0, <2>3, StartIsVertex DEF DFinish, DWake, DTypeOK
  <2>. QED BY <2>1, <2>2, <2>3 DEF DStep
<1>6. DataTypeOK'
  <2>1. CASE DTake(d) \/ DSubmit(d)
    BY <1>0, <2>1 DEF DTake, DSubmit, DataTypeOK, dataVars
  <2>2. CASE DDownload(d) \/ DCount(d) \/ DFinish(d)
    <3>1. CASE DDownload(d)
      BY <1>0, <1>3, <3>1 DEF DDownload, DataTypeOK
    <3>2. CASE DCount(d)
      BY <1>0, <3>2 DEF DCount, DataTypeOK
    <3>3. CASE DFinish(d)
      BY <1>0, <3>3 DEF DFinish, DataTypeOK
    <3>. QED BY <2>2, <3>1, <3>2, <3>3
  <2>3. CASE DWake(d)
    BY <1>0, <1>3, <2>3, AppendVertex DEF DWake, DataTypeOK
  <2>. QED BY <2>1, <2>2, <2>3 DEF DStep
<1>. QED
  BY <1>2, <1>4, <1>5, <1>6 DEF MainTypeOK, DataTypeOK, TypeOK, DTypeOK, ETypeOK

\* The steps of a task of the extract pool.
LEMMA EStepTypeOK ==
    ASSUME TypeOK, NEW e \in Extractors, EStep(e)
    PROVE  TypeOK'
<1>. USE DEF EStates
<1>0. MainTypeOK /\ DTypeOK /\ ETypeOK /\ DataTypeOK /\ kpc \in CloseStates
  BY TypeOKParts
<1>1. UNCHANGED <<mainVars, dlVars, exPool, kpc>>
  BY DEF EStep, ETake, EExtract, EPut, EAdd, EFinish, EWake
<1>2. MainTypeOK' /\ DTypeOK' /\ kpc' \in CloseStates
  BY <1>0, <1>1 DEF MainTypeOK, DTypeOK, mainVars, dlVars
<1>3. /\ ev[e] \in Vertex /\ ev[e].url \in Urls /\ ev[e].level \in Nat \ {0}
      /\ ek[e] \in Nat \ {0}
  BY <1>0, VertexParts DEF ETypeOK
<1>4. ETypeOK'
  <2>1. CASE ETake(e)
    <3>1. Head(exQueue) \in Vertex /\ Tail(exQueue) \in Seq(Vertex)
      BY <1>0, <2>1, HeadAndTail DEF ETake, ETypeOK
    <3>. QED BY <1>0, <2>1, <3>1 DEF ETake, ETypeOK
  <2>2. CASE EExtract(e)
    BY <1>0, <2>2 DEF EExtract, ETypeOK
  <2>5. CASE EAdd(e)
    <3>1. ek' \in [Extractors -> Nat \ {0}]
      BY <1>0, <2>5 DEF EAdd, ETypeOK
    <3>. QED BY <1>0, <2>5, <3>1 DEF EAdd, ETypeOK
  <2>3. CASE EPut(e)
    <3>. DEFINE Positive == Nat \ {0}
    <3>0. ek[e] + 1 \in Positive /\ 1 \in Positive /\ ek \in [Extractors -> Positive]
      BY <1>0, <1>3 DEF ETypeOK
    <3>. HIDE DEF Positive
    <3>1. ek' \in [Extractors -> Positive]
      BY <2>3, <3>0 DEF EPut
    <3>. USE DEF Positive
    <3>. QED BY <1>0, <2>3, <3>1 DEF EPut, ETypeOK
  <2>4. CASE EFinish(e) \/ EWake(e)
    <3>1. epc' \in [Extractors -> EStates]
      BY <1>0, <2>4 DEF EFinish, EWake, ETypeOK
    <3>2. ev' \in [Extractors -> Vertex]
      BY <1>0, <2>4, StartIsVertex DEF EFinish, EWake, ETypeOK
    <3>3. eint' \in [Extractors -> BOOLEAN]
      BY <1>0, <2>4 DEF EFinish, EWake, ETypeOK
    <3>. QED BY <1>0, <2>4, <3>1, <3>2, <3>3 DEF EFinish, EWake, ETypeOK
  <2>. QED BY <2>1, <2>2, <2>3, <2>4, <2>5 DEF EStep
<1>5. DataTypeOK'
  <2>1. CASE ETake(e)
    BY <1>0, <2>1 DEF ETake, DataTypeOK, dataVars
  <2>2. CASE EExtract(e)
    BY <1>0, <1>3, <2>2 DEF EExtract, DataTypeOK
  <2>6. CASE EFinish(e)
    BY <1>0, <2>6 DEF EFinish, DataTypeOK
  <2>3. CASE EAdd(e)
    BY <1>0, <1>3, <2>3 DEF EAdd, DataTypeOK
  <2>4. CASE EPut(e)
    <3>1. ek[e] \in 1..Len(Links[ev[e].url]) /\ Links[ev[e].url] \in Seq(Urls)
      BY <1>3, <2>4, UrlsAssumption DEF EPut
    <3>2. Links[ev[e].url][ek[e]] \in Urls
      BY <3>1
    <3>3. LinkOf(e) \in Vertex
      BY <1>3, <3>2 DEF LinkOf, Vertex
    <3>. QED BY <1>0, <2>4, <3>3, AppendVertex DEF EPut, DataTypeOK
  <2>5. CASE EWake(e)
    BY <1>0, <1>3, <2>5, AppendVertex DEF EWake, DataTypeOK
  <2>. QED BY <2>1, <2>2, <2>3, <2>4, <2>5, <2>6 DEF EStep
<1>. QED
  BY <1>2, <1>4, <1>5 DEF MainTypeOK, DataTypeOK, TypeOK, DTypeOK, ETypeOK

\* The steps of close().
LEMMA CloseTypeOK ==
    ASSUME TypeOK, CloseDownload \/ CloseStep
    PROVE  TypeOK'
<1>1. <<>> \in Seq(Vertex)
  OBVIOUS
<1>. QED
  BY <1>1 DEF CloseDownload, CloseStep, CloseExtract, StopDownload, StopExtract, TypeOK,
              CloseStates, PoolStates, dataVars, mainVars, dlVars, exVars

LEMMA NextTypeOK == TypeOK /\ [Next]_vars => TypeOK'
<1>. SUFFICES ASSUME TypeOK, [Next]_vars PROVE TypeOK'
  OBVIOUS
<1>1. CASE UNCHANGED vars
  BY <1>1 DEF TypeOK, vars
<1>. QED
  BY <1>1, MainStepTypeOK, DStepTypeOK, EStepTypeOK, CloseTypeOK DEF Next

\* The variables of the crawler always have their types: no step applies an
\* operation to a value it is not meant for.
THEOREM TypeCorrect == Spec => []TypeOK
BY InitTypeOK, NextTypeOK, PTL DEF Spec

-----------------------------------------------------------------------------
(* Termination detection: work counts what is outstanding.                 *)

DWorking == {"download", "submit", "finish"}
EWorking == {"extract", "links", "finish"}
One(b) == IF b THEN 1 ELSE 0

LEMMA CountedFinite ==
    /\ IsFiniteSet(DCounted) /\ Cardinality(DCounted) \in Nat
    /\ IsFiniteSet(ECounted) /\ Cardinality(ECounted) \in Nat
<1>1. DCounted \subseteq Downloaders /\ ECounted \subseteq Extractors
  BY DEF DCounted, ECounted
<1>2. IsFiniteSet(DCounted) /\ IsFiniteSet(ECounted)
  BY <1>1, PoolsAssumption, FS_Subset
<1>. QED
  BY <1>2, FS_CardinalityType

LEMMA CountedFiniteNext == Cardinality(DCounted') \in Nat /\ Cardinality(ECounted') \in Nat
<1>1. DCounted' \subseteq Downloaders /\ ECounted' \subseteq Extractors
  BY DEF DCounted, ECounted
<1>. QED
  BY <1>1, PoolsAssumption, FS_Subset, FS_CardinalityType

\* A download task that begins, ends, or goes on.
LEMMA DBegins ==
    ASSUME DTypeOK, NEW d \in Downloaders, NEW st \in DWorking,
           dpc[d] \notin DWorking, dpc' = [dpc EXCEPT ![d] = st]
    PROVE  Cardinality(DCounted') = Cardinality(DCounted) + 1
<1>1. DCounted' = DCounted \cup {d} /\ d \notin DCounted
  BY DEF DTypeOK, DCounted, DWorking
<1>. QED
  BY <1>1, CountedFinite, FS_AddElement

LEMMA DEnds ==
    ASSUME DTypeOK, NEW d \in Downloaders, NEW st \in DStates \ DWorking,
           dpc[d] \in DWorking, dpc' = [dpc EXCEPT ![d] = st]
    PROVE  Cardinality(DCounted') = Cardinality(DCounted) - 1
<1>1. DCounted' = DCounted \ {d} /\ d \in DCounted
  BY DEF DTypeOK, DCounted, DWorking
<1>. QED
  BY <1>1, CountedFinite, FS_RemoveElement

LEMMA DGoesOn ==
    ASSUME DTypeOK, NEW d \in Downloaders, NEW st \in DStates,
           dpc[d] \in DWorking <=> st \in DWorking, dpc' = [dpc EXCEPT ![d] = st]
    PROVE  DCounted' = DCounted
BY DEF DTypeOK, DCounted, DWorking

\* An extract task that begins, ends, or goes on.
LEMMA EBegins ==
    ASSUME ETypeOK, NEW e \in Extractors, NEW st \in EWorking,
           epc[e] \notin EWorking, epc' = [epc EXCEPT ![e] = st]
    PROVE  Cardinality(ECounted') = Cardinality(ECounted) + 1
<1>1. ECounted' = ECounted \cup {e} /\ e \notin ECounted
  BY DEF ETypeOK, ECounted, EWorking
<1>. QED
  BY <1>1, CountedFinite, FS_AddElement

LEMMA EEnds ==
    ASSUME ETypeOK, NEW e \in Extractors, NEW st \in EStates \ EWorking,
           epc[e] \in EWorking, epc' = [epc EXCEPT ![e] = st]
    PROVE  Cardinality(ECounted') = Cardinality(ECounted) - 1
<1>1. ECounted' = ECounted \ {e} /\ e \in ECounted
  BY DEF ETypeOK, ECounted, EWorking
<1>. QED
  BY <1>1, CountedFinite, FS_RemoveElement

LEMMA EGoesOn ==
    ASSUME ETypeOK, NEW e \in Extractors, NEW st \in EStates,
           epc[e] \in EWorking <=> st \in EWorking, epc' = [epc EXCEPT ![e] = st]
    PROVE  ECounted' = ECounted
BY DEF ETypeOK, ECounted, EWorking

\* An open crawler has running pools: nothing is rejected.
OpenPools == kpc = "open" => dlPool = "running"

\* The parts of Outstanding that belong to the pools.
InDownload == Len(dlQueue) + Cardinality(DCounted)
InExtract == Len(exQueue) + Cardinality(ECounted)

LEMMA OutstandingParts ==
    ASSUME TypeOK
    PROVE  /\ Outstanding = InDownload + InExtract + One(mpc = "submit")
           /\ InDownload \in Nat /\ InExtract \in Nat
<1>1. Len(dlQueue) \in Nat /\ Len(exQueue) \in Nat
  BY DEF TypeOK
<1>. QED
  BY <1>1, CountedFinite DEF Outstanding, InDownload, InExtract, One

\* Each step of a download task changes work and Outstanding alike.
LEMMA DStepBalance ==
    ASSUME TypeOK, NEW d \in Downloaders, DStep(d)
    PROVE  /\ InDownload' + InExtract' - work' = InDownload + InExtract - work
           /\ UNCHANGED <<mpc, kpc, dlPool>>
<1>. DTypeOK /\ ETypeOK /\ DataTypeOK
  BY TypeOKParts
<1>. /\ Len(dlQueue) \in Nat /\ Len(exQueue) \in Nat /\ work \in Int
     /\ Cardinality(DCounted) \in Nat /\ Cardinality(ECounted) \in Nat
  BY CountedFinite DEF TypeOK
<1>. USE DEF InDownload, InExtract
<1>0. UNCHANGED <<mpc, kpc, dlPool>>
  BY DEF DStep, DTake, DDownload, DSubmit, DCount, DFinish, DWake, mainVars
<1>1. UNCHANGED ECounted
  BY DEF DStep, DTake, DDownload, DSubmit, DCount, DFinish, DWake, exVars, ECounted
<1>2. CASE DTake(d)
  <2>1. Cardinality(DCounted') = Cardinality(DCounted) + 1
    BY <1>2, DBegins DEF DTake, DStates, DWorking
  <2>2. Len(dlQueue') = Len(dlQueue) - 1 /\ UNCHANGED <<work, exQueue>>
    BY <1>2, HeadAndTail DEF DTake, DTypeOK, dataVars, exVars
  <2>. QED BY <1>0, <1>1, <2>1, <2>2
<1>3. CASE DDownload(d)
  <2>1. PICK st \in {"submit", "finish"} : dpc' = [dpc EXCEPT ![d] = st]
    BY <1>3 DEF DDownload
  <2>2. DCounted' = DCounted
    BY <1>3, <2>1, DGoesOn DEF DDownload, DStates, DWorking
  <2>3. UNCHANGED <<work, dlQueue, exQueue>>
    BY <1>3 DEF DDownload, exVars
  <2>. QED BY <1>0, <1>1, <2>2, <2>3
<1>4. CASE DSubmit(d)
  <2>1. CASE exPool = "running"
    <3>1. Cardinality(DCounted') = Cardinality(DCounted) - 1
      BY <1>4, <2>1, DEnds DEF DSubmit, DStates, DWorking
    <3>2. dv[d] \in Vertex
      BY DEF DTypeOK
    <3>3. Len(exQueue') = Len(exQueue) + 1 /\ UNCHANGED <<work, dlQueue>>
      BY <1>4, <2>1, <3>2, AppendVertex DEF DSubmit, ETypeOK, dataVars
    <3>. QED BY <1>0, <1>1, <3>1, <3>3
  <2>2. CASE exPool # "running"
    <3>1. DCounted' = DCounted
      BY <1>4, <2>2, DGoesOn DEF DSubmit, DStates, DWorking
    <3>2. UNCHANGED <<work, dlQueue, exQueue>>
      BY <1>4, <2>2 DEF DSubmit, dataVars
    <3>. QED BY <1>0, <1>1, <3>1, <3>2
  <2>. QED BY <2>1, <2>2
<1>5. CASE DCount(d)
  <2>1. Cardinality(DCounted') = Cardinality(DCounted) + 1
    BY <1>5, DBegins DEF DCount, DStates, DWorking
  <2>2. work' = work + 1 /\ UNCHANGED <<dlQueue, exQueue>>
    BY <1>5 DEF DCount, exVars
  <2>. QED BY <1>0, <1>1, <2>1, <2>2
<1>6. CASE DFinish(d)
  <2>1. PICK st \in {"wake", "idle"} : dpc' = [dpc EXCEPT ![d] = st]
    BY <1>6 DEF DFinish
  <2>2. Cardinality(DCounted') = Cardinality(DCounted) - 1
    BY <1>6, <2>1, DEnds DEF DFinish, DStates, DWorking
  <2>3. work' = work - 1 /\ UNCHANGED <<dlQueue, exQueue>>
    BY <1>6 DEF DFinish, exVars
  <2>. QED BY <1>0, <1>1, <2>2, <2>3
<1>7. CASE DWake(d)
  <2>1. DCounted' = DCounted
    BY <1>7, DGoesOn DEF DWake, DStates, DWorking
  <2>2. UNCHANGED <<work, dlQueue, exQueue>>
    BY <1>7 DEF DWake, exVars
  <2>. QED BY <1>0, <1>1, <2>1, <2>2
<1>. QED
  BY <1>2, <1>3, <1>4, <1>5, <1>6, <1>7 DEF DStep

\* And so does each step of an extract task.
LEMMA EStepBalance ==
    ASSUME TypeOK, NEW e \in Extractors, EStep(e)
    PROVE  /\ InDownload' + InExtract' - work' = InDownload + InExtract - work
           /\ UNCHANGED <<mpc, kpc, dlPool>>
<1>. ETypeOK /\ DataTypeOK
  BY TypeOKParts
<1>. /\ Len(dlQueue) \in Nat /\ Len(exQueue) \in Nat /\ work \in Int
     /\ Cardinality(DCounted) \in Nat /\ Cardinality(ECounted) \in Nat
  BY CountedFinite DEF TypeOK
<1>. USE DEF InDownload, InExtract
<1>0. UNCHANGED <<mpc, kpc, dlPool, dlQueue>>
  BY DEF EStep, ETake, EExtract, EPut, EAdd, EFinish, EWake, mainVars, dlVars
<1>1. UNCHANGED DCounted
  BY DEF EStep, ETake, EExtract, EPut, EAdd, EFinish, EWake, dlVars, DCounted
<1>2. CASE ETake(e)
  <2>1. Cardinality(ECounted') = Cardinality(ECounted) + 1
    BY <1>2, EBegins DEF ETake, EStates, EWorking
  <2>2. Len(exQueue') = Len(exQueue) - 1 /\ UNCHANGED work
    BY <1>2, HeadAndTail DEF ETake, ETypeOK, dataVars
  <2>. QED BY <1>0, <1>1, <2>1, <2>2
<1>3. CASE EExtract(e) \/ EAdd(e)
  <2>1. PICK st \in {"links", "finish"} : epc' = [epc EXCEPT ![e] = st]
    BY <1>3 DEF EExtract, EAdd
  <2>2. ECounted' = ECounted
    BY <1>3, <2>1, EGoesOn DEF EExtract, EAdd, EStates, EWorking
  <2>3. UNCHANGED <<work, exQueue>>
    BY <1>3 DEF EExtract, EAdd
  <2>. QED BY <1>0, <1>1, <2>2, <2>3
<1>4. CASE EPut(e)
  <2>1. ECounted' = ECounted
    <3>1. CASE eint[e]
      BY <1>4, <3>1, EGoesOn DEF EPut, EStates, EWorking
    <3>2. CASE ~eint[e]
      BY <1>4, <3>2 DEF EPut, ECounted
    <3>. QED BY <3>1, <3>2
  <2>2. UNCHANGED <<work, exQueue>>
    BY <1>4 DEF EPut
  <2>. QED BY <1>0, <1>1, <2>1, <2>2
<1>5. CASE EFinish(e)
  <2>1. PICK st \in {"wake", "idle"} : epc' = [epc EXCEPT ![e] = st]
    BY <1>5 DEF EFinish
  <2>2. Cardinality(ECounted') = Cardinality(ECounted) - 1
    BY <1>5, <2>1, EEnds DEF EFinish, EStates, EWorking
  <2>3. work' = work - 1 /\ UNCHANGED exQueue
    BY <1>5 DEF EFinish
  <2>. QED BY <1>0, <1>1, <2>2, <2>3
<1>6. CASE EWake(e)
  <2>1. ECounted' = ECounted
    BY <1>6, EGoesOn DEF EWake, EStates, EWorking
  <2>2. UNCHANGED <<work, exQueue>>
    BY <1>6 DEF EWake
  <2>. QED BY <1>0, <1>1, <2>1, <2>2
<1>. QED
  BY <1>2, <1>3, <1>4, <1>5, <1>6 DEF EStep

LEMMA NextOpenPools == TypeOK /\ OpenPools /\ [Next]_vars => OpenPools'
<1>. SUFFICES ASSUME TypeOK, OpenPools, [Next]_vars PROVE OpenPools'
  OBVIOUS
<1>1. CASE CloseDownload \/ CloseStep
  BY <1>1 DEF CloseDownload, CloseStep, CloseExtract, StopDownload, StopExtract, OpenPools
<1>2. CASE UNCHANGED <<kpc, dlPool>>
  BY <1>2 DEF OpenPools
<1>. QED
  BY <1>1, <1>2, DStepBalance, EStepBalance
     DEF Next, MainStep, InterruptMain, MainPut, MainCheckWork, MainCheckSize, MainTake,
         MainCount, MainSubmit, MainInterrupted, vars, dlVars

\* Main counts a download before it submits it. A rejected one stays counted.
LEMMA MainStepBalance ==
    ASSUME TypeOK, OpenPools, WorkCounts, MainStep \/ InterruptMain
    PROVE  WorkCounts'
<1>. MainTypeOK /\ DTypeOK /\ ETypeOK /\ DataTypeOK
  BY TypeOKParts
<1>. /\ Len(dlQueue) \in Nat /\ Len(exQueue) \in Nat /\ work \in Int
     /\ Cardinality(DCounted) \in Nat /\ Cardinality(ECounted) \in Nat
  BY CountedFinite DEF TypeOK
<1>0. UNCHANGED <<kpc, dlPool, DCounted, ECounted, exQueue>>
  BY DEF MainStep, InterruptMain, MainPut, MainCheckWork, MainCheckSize, MainTake,
         MainCount, MainSubmit, MainInterrupted, dlVars, exVars, DCounted, ECounted
<1>1. CASE MainCount
  <2>1. work' = work + 1 /\ mpc # "submit" /\ mpc' = "submit" /\ UNCHANGED dlQueue
    BY <1>1 DEF MainCount, dlVars
  <2>. QED BY <1>0, <2>1 DEF WorkCounts, Outstanding
<1>2. CASE MainSubmit
  <2>1. work' = work /\ mpc = "submit" /\ mpc' # "submit"
    BY <1>2 DEF MainSubmit, dataVars
  <2>2. CASE dlPool = "running"
    <3>1. Len(dlQueue') = Len(dlQueue) + 1
      BY <1>2, <2>2, AppendVertex DEF MainSubmit, MainTypeOK, DTypeOK
    <3>. QED BY <1>0, <2>1, <3>1 DEF WorkCounts, Outstanding
  <2>3. CASE dlPool # "running"
    <3>1. dlQueue' = dlQueue /\ kpc # "open"
      BY <1>2, <2>3 DEF MainSubmit, OpenPools
    <3>. QED BY <1>0, <2>1, <3>1 DEF WorkCounts, Outstanding
  <2>. QED BY <2>2, <2>3
<1>3. CASE ~MainCount /\ ~MainSubmit
  <2>1. /\ UNCHANGED <<work, dlQueue>>
        /\ mpc' = "submit" <=> mpc = "submit"
    BY <1>3 DEF MainStep, InterruptMain, MainPut, MainCheckWork, MainCheckSize, MainTake,
                MainInterrupted, dlVars, dataVars
  <2>. QED BY <1>0, <2>1 DEF WorkCounts, Outstanding
<1>. QED BY <1>1, <1>2, <1>3

\* shutdownNow() only takes tasks away.
LEMMA CloseBalance ==
    ASSUME TypeOK, WorkCounts, CloseDownload \/ CloseStep
    PROVE  WorkCounts'
<1>. /\ Len(dlQueue) \in Nat /\ Len(exQueue) \in Nat /\ work \in Int
     /\ Cardinality(DCounted) \in Nat /\ Cardinality(ECounted) \in Nat
  BY CountedFinite DEF TypeOK
<1>1. UNCHANGED <<work, mpc, DCounted, ECounted>> /\ kpc' # "open"
  BY DEF CloseDownload, CloseStep, CloseExtract, StopDownload, StopExtract,
         dataVars, mainVars, dlVars, exVars, DCounted, ECounted
<1>2. /\ dlQueue' = dlQueue \/ Len(dlQueue') = 0
      /\ exQueue' = exQueue \/ Len(exQueue') = 0
  BY DEF CloseDownload, CloseStep, CloseExtract, StopDownload, StopExtract,
         dlVars, exVars
<1>3. /\ Len(dlQueue') \in Nat /\ Len(dlQueue') <= Len(dlQueue)
      /\ Len(exQueue') \in Nat /\ Len(exQueue') <= Len(exQueue)
  <2>1. Len(dlQueue') \in Nat /\ Len(dlQueue') <= Len(dlQueue)
    BY <1>2
  <2>2. Len(exQueue') \in Nat /\ Len(exQueue') <= Len(exQueue)
    BY <1>2
  <2>. QED BY <2>1, <2>2
<1>4. Outstanding \in Int /\ Outstanding' \in Int /\ Outstanding' <= Outstanding
  <2>1. PICK a \in Nat, b \in Nat, c \in 0..1 :
          /\ a = Cardinality(DCounted) /\ b = Cardinality(ECounted)
          /\ c = IF mpc = "submit" THEN 1 ELSE 0
    OBVIOUS
  <2>2. Outstanding = Len(dlQueue) + a + Len(exQueue) + b + c
    BY <2>1 DEF Outstanding
  <2>3. Outstanding' = Len(dlQueue') + a + Len(exQueue') + b + c
    BY <1>1, <2>1 DEF Outstanding
  <2>. QED BY <1>3, <2>2, <2>3
<1>5. work' \in Int /\ work' >= Outstanding'
  BY <1>1, <1>4 DEF WorkCounts
<1>. QED BY <1>1, <1>5 DEF WorkCounts

LEMMA NextWorkCounts ==
    TypeOK /\ TypeOK' /\ OpenPools /\ WorkCounts /\ [Next]_vars => WorkCounts'
<1>. SUFFICES ASSUME TypeOK, TypeOK', OpenPools, WorkCounts, [Next]_vars
              PROVE  WorkCounts'
  OBVIOUS
<1>0. work \in Int /\ work' \in Int
  BY DEF TypeOK
<1>1. CASE \/ \E d \in Downloaders : DStep(d)
           \/ \E e \in Extractors : EStep(e)
  <2>. DEFINE Main == IF mpc = "submit" THEN 1 ELSE 0
  <2>1. InDownload' + InExtract' - work' = InDownload + InExtract - work
    BY <1>1, DStepBalance, EStepBalance
  <2>2. mpc' = mpc /\ kpc' = kpc
    BY <1>1, DStepBalance, EStepBalance
  <2>3. /\ Len(dlQueue) \in Nat /\ Len(exQueue) \in Nat
        /\ Cardinality(DCounted) \in Nat /\ Cardinality(ECounted) \in Nat
    BY CountedFinite DEF TypeOK
  <2>4. /\ Len(dlQueue') \in Nat /\ Len(exQueue') \in Nat
        /\ Cardinality(DCounted') \in Nat /\ Cardinality(ECounted') \in Nat
    BY CountedFiniteNext DEF TypeOK
  <2>5. /\ InDownload \in Nat /\ InDownload' \in Nat
        /\ InExtract \in Nat /\ InExtract' \in Nat
    BY <2>3, <2>4 DEF InDownload, InExtract
  <2>6. /\ Outstanding = InDownload + InExtract + Main
        /\ Outstanding' = InDownload' + InExtract' + Main
    BY <2>3, <2>4, <2>2 DEF Outstanding, InDownload, InExtract
  <2>7. Main \in Nat
    OBVIOUS
  <2>. HIDE DEF Main
  <2>8. PICK a \in Nat, b \in Nat, a1 \in Nat, b1 \in Nat, w \in Int, w1 \in Int, m \in Nat :
          /\ a = InDownload /\ b = InExtract /\ w = work /\ m = Main
          /\ a1 = InDownload' /\ b1 = InExtract' /\ w1 = work'
    BY <1>0, <2>5, <2>7
  <2>9. a1 + b1 - w1 = a + b - w
    BY <2>1, <2>8
  <2>10. /\ w >= a + b + m => w1 >= a1 + b1 + m
         /\ w = a + b + m => w1 = a1 + b1 + m
    BY <2>9
  <2>11. /\ work >= Outstanding => work' >= Outstanding'
         /\ work = Outstanding => work' = Outstanding'
    BY <2>6, <2>8, <2>10
  <2>. QED
    BY <2>2, <2>11 DEF WorkCounts
<1>2. CASE UNCHANGED vars
  BY <1>2 DEF WorkCounts, Outstanding, DCounted, ECounted, vars
<1>. QED
  BY <1>1, <1>2, MainStepBalance, CloseBalance DEF Next

LEMMA InitWorkCounts == Init => WorkCounts /\ OpenPools
<1>. SUFFICES ASSUME Init PROVE WorkCounts /\ OpenPools
  OBVIOUS
<1>1. DCounted = {} /\ ECounted = {}
  BY DEF Init, DCounted, ECounted
<1>2. work = 0 /\ Len(dlQueue) = 0 /\ Len(exQueue) = 0 /\ mpc # "submit"
  BY DEF Init
<1>. QED
  BY <1>1, <1>2, FS_EmptySet DEF Init, WorkCounts, Outstanding, OpenPools

\* The counter never underestimates what is outstanding, although the extract
\* task is submitted before it is counted (lines 105 and 106), and is exact
\* until close() is called.
THEOREM WorkNeverUnderestimates == Spec => []WorkCounts
BY InitWorkCounts, TypeCorrect, NextOpenPools, NextWorkCounts, PTL DEF Spec

-----------------------------------------------------------------------------
(* The result is final when download() returns. Main has already seen      *)
(* work = 0 when it looks at the size of the queue: from then on all is    *)
(* quiet, since only main could start something new.                       *)

QuietWhenSeen == mpc \in {"size", "done"} => Quiet

LEMMA NoWorkIsQuiet ==
    ASSUME TypeOK, WorkCounts, ~(work > 0)
    PROVE  Quiet
<1>1. /\ Outstanding = InDownload + InExtract + One(mpc = "submit")
      /\ InDownload \in Nat /\ InExtract \in Nat
  BY OutstandingParts
<1>2. One(mpc = "submit") \in Nat /\ work \in Int
  BY DEF One, TypeOK
<1>3. InDownload = 0 /\ InExtract = 0
  <2>. HIDE DEF InDownload, InExtract, One, Outstanding
  <2>. QED BY <1>1, <1>2 DEF WorkCounts
<1>4. Len(dlQueue) \in Nat /\ Len(exQueue) \in Nat
  BY DEF TypeOK
<1>5. /\ Len(dlQueue) = 0 /\ Len(exQueue) = 0
      /\ Cardinality(DCounted) = 0 /\ Cardinality(ECounted) = 0
  BY <1>3, <1>4, CountedFinite DEF InDownload, InExtract
<1>6. DCounted = {} /\ ECounted = {}
  BY <1>5, CountedFinite, FS_EmptySet
<1>7. dlQueue = <<>> /\ exQueue = <<>>
  BY <1>5 DEF TypeOK
<1>8. \A d \in Downloaders : dpc[d] \in {"idle", "count", "finish", "wake"}
  BY <1>6 DEF DCounted, TypeOK, DStates
<1>9. \A e \in Extractors : epc[e] \in {"idle", "finish", "wake"}
  BY <1>6 DEF ECounted, TypeOK, EStates
<1>. QED
  BY <1>7, <1>8, <1>9 DEF Quiet

\* Quiet lasts as long as main submits nothing.
LEMMA QuietLasts ==
    ASSUME TypeOK, Quiet, [Next]_vars, ~MainSubmit
    PROVE  Quiet'
<1>1. ASSUME NEW d \in Downloaders, DStep(d)
      PROVE  Quiet'
  BY <1>1 DEF Quiet, TypeOK, DStep, DTake, DDownload, DSubmit, DCount, DFinish, DWake, exVars
<1>2. ASSUME NEW e \in Extractors, EStep(e)
      PROVE  Quiet'
  BY <1>2 DEF Quiet, TypeOK, EStep, ETake, EExtract, EPut, EAdd, EFinish, EWake, dlVars
<1>3. CASE CloseDownload \/ CloseStep
  BY <1>3 DEF Quiet, CloseDownload, CloseStep, CloseExtract, StopDownload, StopExtract,
              dlVars, exVars
<1>4. CASE UNCHANGED <<dlVars, exVars>>
  BY <1>4 DEF Quiet, dlVars, exVars
<1>. QED
  BY <1>1, <1>2, <1>3, <1>4
     DEF Next, vars, MainStep, InterruptMain, MainPut, MainCheckWork, MainCheckSize,
         MainTake, MainCount, MainInterrupted, dlVars, exVars

LEMMA NextQuiet ==
    TypeOK /\ WorkCounts /\ QuietWhenSeen /\ [Next]_vars => QuietWhenSeen'
<1>. SUFFICES ASSUME TypeOK, WorkCounts, QuietWhenSeen, [Next]_vars,
                     mpc' \in {"size", "done"}
              PROVE  Quiet'
  BY DEF QuietWhenSeen
<1>1. ~MainSubmit
  BY DEF MainSubmit
<1>2. CASE mpc \in {"size", "done"}
  BY <1>1, <1>2, QuietLasts DEF QuietWhenSeen
<1>3. CASE mpc \notin {"size", "done"}
  <2>1. MainCheckWork
    BY <1>3, DStepBalance, EStepBalance
       DEF Next, vars, MainStep, InterruptMain, MainPut, MainCheckSize, MainTake, MainCount,
           MainSubmit, MainInterrupted, CloseDownload, CloseStep, CloseExtract,
           StopDownload, StopExtract, mainVars
  <2>2. ~(work > 0)
    BY <2>1 DEF MainCheckWork
  <2>. QED BY <1>1, <2>2, NoWorkIsQuiet, QuietLasts
<1>. QED BY <1>2, <1>3

\* download() never returns while a task could still change the lists that it
\* returns, whether or not the crawler is closed meanwhile.
THEOREM ResultIsFinal == Spec => []ResultFinal
<1>1. Init => QuietWhenSeen
  BY DEF Init, QuietWhenSeen
<1>2. QuietWhenSeen => ResultFinal
  BY DEF QuietWhenSeen, ResultFinal
<1>. QED
  BY <1>1, <1>2, TypeCorrect, WorkNeverUnderestimates, NextQuiet, PTL DEF Spec

-----------------------------------------------------------------------------
(* close(): each pool is drained after it has stopped accepting.           *)

Drained ==
    /\ kpc # "open" => dlPool # "running"
    /\ kpc \in {"stopping download", "stopping extract", "closed"} => exPool # "running"
    /\ kpc \in {"stopping extract", "closed"} => dlQueue = <<>>
    /\ kpc = "closed" => exQueue = <<>>

LEMMA NextDrained == TypeOK /\ Drained /\ [Next]_vars => Drained'
<1>. SUFFICES ASSUME TypeOK, Drained, [Next]_vars PROVE Drained'
  OBVIOUS
<1>1. CASE CloseDownload \/ CloseStep
  BY <1>1 DEF CloseDownload, CloseStep, CloseExtract, StopDownload, StopExtract, Drained,
              dlVars, exVars
<1>2. CASE UNCHANGED <<dlVars, exVars, kpc>>
  BY <1>2 DEF Drained, dlVars, exVars
<1>3. CASE MainSubmit
  BY <1>3 DEF MainSubmit, Drained, exVars
<1>4. ASSUME NEW d \in Downloaders, DStep(d)
      PROVE  Drained'
  BY <1>4 DEF DStep, DTake, DDownload, DSubmit, DCount, DFinish, DWake, Drained, exVars
<1>5. ASSUME NEW e \in Extractors, EStep(e)
      PROVE  Drained'
  BY <1>5 DEF EStep, ETake, EExtract, EPut, EAdd, EFinish, EWake, Drained, dlVars
<1>. QED
  BY <1>1, <1>2, <1>3, <1>4, <1>5
     DEF Next, MainStep, InterruptMain, MainPut, MainCheckWork, MainCheckSize, MainTake,
         MainCount, MainInterrupted, vars, dlVars, exVars

\* A thread without a task only starts one that it takes from the queue.
LEMMA DStartNeedsTask ==
    ASSUME TypeOK, NEW d \in Downloaders, dlQueue = <<>>, [Next]_vars, dpc[d] = "idle"
    PROVE  dpc'[d] = "idle"
<1>1. ASSUME NEW x \in Downloaders, DStep(x)
      PROVE  x # d /\ \E st : dpc' = [dpc EXCEPT ![x] = st]
  BY <1>1 DEF DStep, DTake, DDownload, DSubmit, DCount, DFinish, DWake
<1>2. ASSUME NEW x \in Downloaders, DStep(x)
      PROVE  dpc'[d] = "idle"
  BY <1>1, <1>2 DEF TypeOK
<1>3. CASE UNCHANGED dpc
  BY <1>3
<1>. QED
  BY <1>2, <1>3
     DEF Next, MainStep, InterruptMain, MainPut, MainCheckWork, MainCheckSize, MainTake,
         MainCount, MainSubmit, MainInterrupted, CloseDownload, CloseStep, CloseExtract,
         StopDownload, StopExtract, EStep, ETake, EExtract, EPut, EAdd, EFinish, EWake,
         vars, dlVars

LEMMA EStartNeedsTask ==
    ASSUME TypeOK, NEW e \in Extractors, exQueue = <<>>, [Next]_vars, epc[e] = "idle"
    PROVE  epc'[e] = "idle"
<1>1. ASSUME NEW x \in Extractors, EStep(x)
      PROVE  \/ epc' = epc
             \/ x # e /\ \E st : epc' = [epc EXCEPT ![x] = st]
  BY <1>1 DEF EStep, ETake, EExtract, EPut, EAdd, EFinish, EWake
<1>2. ASSUME NEW x \in Extractors, EStep(x)
      PROVE  epc'[e] = "idle"
  BY <1>1, <1>2 DEF TypeOK
<1>3. CASE UNCHANGED epc
  BY <1>3
<1>. QED
  BY <1>2, <1>3
     DEF Next, MainStep, InterruptMain, MainPut, MainCheckWork, MainCheckSize, MainTake,
         MainCount, MainSubmit, MainInterrupted, CloseDownload, CloseStep, CloseExtract,
         StopDownload, StopExtract, DStep, DTake, DDownload, DSubmit, DCount, DFinish, DWake,
         vars, exVars

\* Once close() has returned no thread of the pools starts a task.
THEOREM NothingStartsAfterClose == Spec => NoStartAfterClose
<1>. DEFINE Closed == kpc = "closed"
            Idle == /\ \A d \in Downloaders : dpc[d] = "idle" => dpc'[d] = "idle"
                    /\ \A e \in Extractors : epc[e] = "idle" => epc'[e] = "idle"
<1>1. Init => Drained
  BY DEF Init, Drained
<1>2. TypeOK /\ Drained /\ [Next]_vars => [Closed => Idle]_vars
  BY DStartNeedsTask, EStartNeedsTask DEF Drained
<1>. QED
  BY <1>1, <1>2, TypeCorrect, NextDrained, PTL DEF Spec, NoStartAfterClose
-----------------------------------------------------------------------------
(* Induction over the natural numbers, from the well-foundedness of <.     *)

\* A set of natural numbers that is not empty has a least element.
LEMMA LeastNumber ==
    ASSUME NEW T \in SUBSET Nat, T # {}
    PROVE  \E x \in T : \A y \in T : x <= y
<1>. DEFINE R == {ss \in Nat \X Nat : ss[1] < ss[2]}
<1>1. OpToRel(<, Nat) = R
  BY Zenon DEF OpToRel
<1>2. IsWellFoundedOn(R, Nat)
  BY <1>1, NatLessThanWellFounded, Zenon
<1>3. PICK x \in T : \A y \in T : <<y, x>> \notin R
  <2>. HIDE DEF R
  <2>. QED BY <1>2, WFMin, Zenon
<1>4. ASSUME NEW y \in T
      PROVE  x <= y
  <2>1. y < x => <<y, x>> \in R
    OBVIOUS
  <2>. HIDE DEF R
  <2>. QED BY <1>3, <2>1
<1>. QED BY <1>4

\* What holds of 0, and of n + 1 if it holds of n, holds of every number.
LEMMA Induction ==
    ASSUME NEW S, 0 \in S, \A n \in Nat : n \in S => n + 1 \in S
    PROVE  Nat \subseteq S
<1>. SUFFICES ASSUME Nat \ S # {} PROVE FALSE
  OBVIOUS
<1>1. PICK x \in Nat \ S : \A y \in Nat \ S : x <= y
  BY LeastNumber
<1>2. x - 1 \in Nat /\ x - 1 \in S
  BY <1>1
<1>. QED BY <1>1, <1>2

-----------------------------------------------------------------------------
(* The levels of the web.                                                  *)

NextLevel(L) == UNION {ToSet(Links[u]) : u \in {x \in L : Outcome[x] = "ok"}}

Level(f, k) == IF k = 0 THEN {} ELSE {StartUrl} \cup NextLevel(f[k - 1])

\* The recursion of Levels goes down to 0: there is such a function.
LEMMA LevelsExist ==
    ASSUME NEW n \in Nat
    PROVE  \E f : f = [k \in 0..n |-> Level(f, k)]
<1>. DEFINE Defined == {m \in Nat : \E f : f = [k \in 0..m |-> Level(f, k)]}
<1>1. 0 \in Defined
  <2>. DEFINE f == [k \in 0..0 |-> {}]
  <2>1. \A k \in 0..0 : Level(f, k) = {}
    BY DEF Level
  <2>2. f = [k \in 0..0 |-> Level(f, k)]
    BY <2>1
  <2>. QED BY <2>2
<1>2. ASSUME NEW m \in Nat, m \in Defined
      PROVE  m + 1 \in Defined
  <2>1. PICK f : f = [k \in 0..m |-> Level(f, k)]
    BY <1>2
  <2>. DEFINE g == [k \in 0..(m + 1) |-> IF k = m + 1 THEN Level(f, m + 1) ELSE f[k]]
  <2>2. ASSUME NEW k \in 0..(m + 1)
        PROVE  g[k] = Level(g, k)
    <3>1. k # 0 => k - 1 \in 0..m /\ g[k - 1] = f[k - 1]
      OBVIOUS
    <3>2. Level(g, k) = Level(f, k)
      <4>. HIDE DEF g
      <4>. QED BY <3>1 DEF Level
    <3>3. k # m + 1 => k \in 0..m /\ g[k] = f[k]
      OBVIOUS
    <3>4. k # m + 1 => f[k] = Level(f, k)
      <4>. HIDE DEF g
      <4>. QED BY <2>1, <3>3, Zenon
    <3>5. k = m + 1 => g[k] = Level(f, k)
      OBVIOUS
    <3>. HIDE DEF g
    <3>. QED BY <3>2, <3>3, <3>4, <3>5
  <2>3. g = [k \in 0..(m + 1) |-> Level(g, k)]
    <3>1. g = [k \in 0..(m + 1) |-> g[k]]
      OBVIOUS
    <3>. HIDE DEF g
    <3>2. [k \in 0..(m + 1) |-> g[k]] = [k \in 0..(m + 1) |-> Level(g, k)]
      BY <2>2, Zenon
    <3>. QED BY <3>1, <3>2, Zenon
  <2>4. m + 1 \in Nat
    OBVIOUS
  <2>. HIDE DEF g
  <2>. QED BY <2>3, <2>4, Zenon
<1>. HIDE DEF Defined
<1>3. n \in Defined
  BY <1>1, <1>2, Induction
<1>. QED BY <1>3 DEF Defined

LEMMA LevelsEquation ==
    /\ DOMAIN Levels = 0..MaxDepth
    /\ \A k \in 0..MaxDepth : Levels[k] = Level(Levels, k)
<1>1. \E f : f = [k \in 0..MaxDepth |-> Level(f, k)]
  BY LevelsExist, UrlsAssumption
<1>2. Levels = CHOOSE f : f = [k \in 0..MaxDepth |-> Level(f, k)]
  BY Zenon DEF Levels, Level, NextLevel
<1>3. Levels = [k \in 0..MaxDepth |-> Level(Levels, k)]
  BY <1>1, <1>2, Zenon
<1>. QED BY <1>3

-----------------------------------------------------------------------------
(* No page deeper than asked for is visited. Every vertex under way is as  *)
(* many links away from the start as its level says, and each link that is *)
(* followed is one of a page that could be downloaded and read.            *)

Sound == {v \in Vertex : v.level <= MaxDepth => v.url \in Levels[v.level]}
Fetched == {v \in Sound : Outcome[v.url] \in Downloaded}
Parsed == {v \in Sound : Outcome[v.url] = "ok"}

DepthInv ==
    /\ queue \in Seq(Sound)
    /\ mv \in Sound
    /\ dlQueue \in Seq(Sound)
    /\ dv \in [Downloaders -> Sound]
    /\ \A d \in Downloaders : dpc[d] = "submit" => dv[d] \in Fetched
    /\ exQueue \in Seq(Fetched)
    /\ ev \in [Extractors -> Sound]
    /\ \A e \in Extractors : epc[e] = "extract" => ev[e] \in Fetched
    /\ \A e \in Extractors : epc[e] = "links" => ev[e] \in Parsed
    /\ WithinDepth

\* A level contains the one before it.
LEMMA LevelsStep ==
    \A k \in Nat : k < MaxDepth => Levels[k] \subseteq Levels[k + 1]
<1>. DEFINE S == {k \in Nat : k < MaxDepth => Levels[k] \subseteq Levels[k + 1]}
<1>. MaxDepth \in Nat
  BY UrlsAssumption
<1>1. 0 \in S
  <2>1. 0 < MaxDepth => Levels[0] = {}
    BY LevelsEquation DEF Level
  <2>. QED BY <2>1
<1>2. ASSUME NEW k \in Nat, k \in S
      PROVE  k + 1 \in S
  <2>. SUFFICES ASSUME k + 1 < MaxDepth
                PROVE  Levels[k + 1] \subseteq Levels[k + 2]
    OBVIOUS
  <2>1. Levels[k] \subseteq Levels[k + 1]
    BY <1>2
  <2>2. NextLevel(Levels[k]) \subseteq NextLevel(Levels[k + 1])
    BY <2>1 DEF NextLevel
  <2>3. /\ Levels[k + 1] = {StartUrl} \cup NextLevel(Levels[k])
        /\ Levels[k + 2] = {StartUrl} \cup NextLevel(Levels[k + 1])
    BY LevelsEquation DEF Level
  <2>. QED BY <2>2, <2>3
<1>. HIDE DEF S
<1>3. Nat \subseteq S
  BY <1>1, <1>2, Induction
<1>. QED BY <1>3 DEF S

\* So the last one contains them all.
LEMMA LevelsGrow ==
    \A k \in 0..MaxDepth : Levels[k] \subseteq Levels[MaxDepth]
<1>. DEFINE S == {j \in Nat : j <= MaxDepth => Levels[MaxDepth - j] \subseteq Levels[MaxDepth]}
<1>. MaxDepth \in Nat
  BY UrlsAssumption
<1>1. 0 \in S
  OBVIOUS
<1>2. ASSUME NEW j \in Nat, j \in S
      PROVE  j + 1 \in S
  <2>. SUFFICES ASSUME j + 1 <= MaxDepth
                PROVE  Levels[MaxDepth - (j + 1)] \subseteq Levels[MaxDepth]
    OBVIOUS
  <2>1. PICK k \in Nat : k = MaxDepth - (j + 1)
    OBVIOUS
  <2>2. Levels[k] \subseteq Levels[k + 1]
    BY <2>1, LevelsStep
  <2>3. k + 1 = MaxDepth - j
    BY <2>1
  <2>. QED BY <1>2, <2>1, <2>2, <2>3
<1>3. Nat \subseteq S
  <2>. HIDE DEF S
  <2>. QED BY <1>1, <1>2, Induction
<1>4. ASSUME NEW k \in 0..MaxDepth
      PROVE  Levels[k] \subseteq Levels[MaxDepth]
  <2>1. MaxDepth - k \in S /\ MaxDepth - k \in Nat /\ MaxDepth - k <= MaxDepth
    BY <1>3
  <2>2. MaxDepth - (MaxDepth - k) = k
    OBVIOUS
  <2>. QED BY <2>1, <2>2
<1>. QED BY <1>4

\* Where the levels begin, and how a link leads from one to the next.
LEMMA StartIsSound == Start \in Sound /\ NoVertex \in Sound
<1>1. ASSUME 1 <= MaxDepth
      PROVE  StartUrl \in Levels[1]
  <2>1. Levels[1] = Level(Levels, 1)
    BY <1>1, LevelsEquation, UrlsAssumption
  <2>. QED BY <2>1 DEF Level
<1>. QED
  BY <1>1, StartIsVertex DEF Sound, Start, NoVertex

LEMMA LinkIsSound ==
    ASSUME ETypeOK, NEW e \in Extractors, ev[e] \in Parsed,
           ek[e] <= Len(Links[ev[e].url])
    PROVE  /\ LinkOf(e) \in Sound
           /\ LinkOf(e).level = ev[e].level + 1
           /\ LinkOf(e).url = Links[ev[e].url][ek[e]]
           /\ ek[e] \in 1..Len(Links[ev[e].url])
<1>. DEFINE v == ev[e]
            u == Links[v.url][ek[e]]
<1>1. v \in Vertex /\ v.url \in Urls /\ v.level \in Nat \ {0} /\ Outcome[v.url] = "ok"
  BY VertexParts DEF Parsed, Sound
<1>2. Links[v.url] \in Seq(Urls)
  BY <1>1, UrlsAssumption
<1>3. ek[e] \in 1..Len(Links[v.url])
  BY <1>2 DEF ETypeOK
<1>4. u \in Urls /\ u \in ToSet(Links[v.url])
  BY <1>2, <1>3 DEF ToSet
<1>5. LinkOf(e) = [url |-> u, level |-> v.level + 1]
  BY DEF LinkOf
<1>6. LinkOf(e) \in Vertex
  BY <1>1, <1>4, <1>5 DEF Vertex
<1>7. ASSUME v.level + 1 <= MaxDepth
      PROVE  u \in Levels[v.level + 1]
  <2>1. v.url \in Levels[v.level]
    BY <1>1, <1>7, UrlsAssumption DEF Parsed, Sound
  <2>2. u \in NextLevel(Levels[v.level])
    <3>. HIDE DEF u
    <3>. QED BY <1>1, <1>4, <2>1 DEF NextLevel
  <2>3. Levels[v.level + 1] = {StartUrl} \cup NextLevel(Levels[v.level])
    BY <1>1, <1>7, LevelsEquation, UrlsAssumption DEF Level
  <2>. QED BY <2>2, <2>3
<1>. QED
  BY <1>3, <1>5, <1>6, <1>7 DEF Sound

\* A queue of vertices of one kind gives and takes such vertices.
LEMMA QueueOf ==
    ASSUME NEW S, NEW q \in Seq(S)
    PROVE  /\ q # <<>> => Head(q) \in S /\ Tail(q) \in Seq(S)
           /\ \A v \in S : Append(q, v) \in Seq(S)
OBVIOUS

LEMMA InitDepthInv == Init => DepthInv
<1>. SUFFICES ASSUME Init PROVE DepthInv
  OBVIOUS
<1>. QED
  BY StartIsSound DEF Init, DepthInv, WithinDepth

LEMMA MainStepDepth ==
    ASSUME TypeOK, DepthInv, MainStep \/ InterruptMain
    PROVE  DepthInv'
<1>0. UNCHANGED <<dpc, dv, exQueue, epc, ev>>
  BY DEF MainStep, InterruptMain, MainPut, MainCheckWork, MainCheckSize, MainTake,
         MainCount, MainSubmit, MainInterrupted, dlVars, exVars
<1>1. CASE MainPut
  <2>1. queue' \in Seq(Sound)
    BY <1>1, StartIsSound, QueueOf DEF MainPut, DepthInv
  <2>. QED
    BY <1>0, <1>1, <2>1 DEF MainPut, DepthInv, WithinDepth, dlVars
<1>2. CASE MainTake
  <2>1. Head(queue) \in Sound /\ queue' \in Seq(Sound)
    BY <1>2, QueueOf DEF MainTake, DepthInv
  <2>2. mv' \in Sound
    BY <1>2, <2>1 DEF MainTake, DepthInv
  <2>3. WithinDepth'
    <3>1. CASE Skipped(Head(queue))
      BY <1>2, <3>1 DEF MainTake, DepthInv, WithinDepth
    <3>2. CASE ~Skipped(Head(queue))
      <4>. DEFINE v == Head(queue)
      <4>1. v.level \in 1..MaxDepth /\ v.url \in Levels[v.level]
        BY <2>1, <3>2, VertexParts, UrlsAssumption DEF Sound, Skipped, TooDeep
      <4>2. v.url \in Levels[MaxDepth]
        <5>. HIDE DEF v
        <5>. QED BY <4>1, LevelsGrow
      <4>3. passedUrl' = passedUrl \cup {v.url}
        BY <1>2, <3>2 DEF MainTake
      <4>. QED BY <4>2, <4>3 DEF DepthInv, WithinDepth
    <3>. QED BY <3>1, <3>2
  <2>. QED
    BY <1>0, <1>2, <2>1, <2>2, <2>3 DEF MainTake, DepthInv, dlVars
<1>3. CASE MainSubmit
  <2>1. dlQueue' \in Seq(Sound)
    BY <1>3, QueueOf DEF MainSubmit, DepthInv
  <2>2. mv' \in Sound
    BY <1>3, StartIsSound DEF MainSubmit
  <2>. QED
    BY <1>0, <1>3, <2>1, <2>2 DEF MainSubmit, DepthInv, WithinDepth, dataVars
<1>4. CASE UNCHANGED <<queue, mv, dlQueue, passedUrl>>
  BY <1>0, <1>4 DEF DepthInv, WithinDepth
<1>. QED
  BY <1>1, <1>2, <1>3, <1>4
     DEF MainStep, InterruptMain, MainCheckWork, MainCheckSize, MainCount,
         MainInterrupted, dataVars, dlVars

LEMMA DStepDepth ==
    ASSUME TypeOK, DepthInv, NEW d \in Downloaders, DStep(d)
    PROVE  DepthInv'
<1>0. UNCHANGED <<mv, passedUrl, epc, ev>>
  BY DEF DStep, DTake, DDownload, DSubmit, DCount, DFinish, DWake, mainVars, exVars
<1>1. dv[d] \in Sound /\ WithinDepth'
  BY <1>0 DEF DepthInv, WithinDepth
<1>. DTypeOK
  BY TypeOKParts
<1>2. CASE DTake(d)
  <2>1. Head(dlQueue) \in Sound /\ dlQueue' \in Seq(Sound)
    BY <1>2, QueueOf DEF DTake, DepthInv
  <2>2. dv' \in [Downloaders -> Sound] /\ UNCHANGED <<queue, exQueue>>
    BY <1>2, <2>1 DEF DTake, DepthInv, dataVars, exVars
  <2>3. \A x \in Downloaders : dpc'[x] = "submit" => dpc[x] = "submit" /\ dv'[x] = dv[x]
    BY <1>2 DEF DTake, DTypeOK
  <2>. QED
    BY <1>0, <1>1, <2>1, <2>2, <2>3 DEF DepthInv
<1>3. CASE DDownload(d)
  <2>1. PICK end \in DownloadEnds(d) :
            dpc' = [dpc EXCEPT ![d] = IF end \in Downloaded
                                      THEN "submit" ELSE "finish"]
    BY <1>3 DEF DDownload
  <2>2. dpc'[d] = "submit" => dv[d] \in Fetched
    BY <1>1, <2>1 DEF DownloadEnds, Fetched, Downloaded, DTypeOK
  <2>3. \A x \in Downloaders \ {d} : dpc'[x] = dpc[x]
    BY <2>1 DEF DTypeOK
  <2>4. UNCHANGED <<queue, dlQueue, dv, exQueue>>
    BY <1>3 DEF DDownload, exVars
  <2>. QED
    BY <1>0, <1>1, <2>2, <2>3, <2>4 DEF DepthInv
<1>4. CASE DSubmit(d)
  <2>1. exQueue' \in Seq(Fetched)
    <3>1. dv[d] \in Fetched /\ exQueue \in Seq(Fetched)
      BY <1>4 DEF DSubmit, DepthInv
    <3>2. exQueue' = exQueue \/ exQueue' = Append(exQueue, dv[d])
      BY <1>4 DEF DSubmit
    <3>. QED BY <3>1, <3>2, QueueOf
  <2>2. \A x \in Downloaders : dpc'[x] = "submit" => dpc[x] = "submit"
    BY <1>4 DEF DSubmit, DTypeOK
  <2>3. UNCHANGED <<queue, dlQueue, dv>>
    BY <1>4 DEF DSubmit, dataVars
  <2>. QED
    BY <1>0, <1>1, <2>1, <2>2, <2>3 DEF DepthInv
<1>5. CASE DCount(d) \/ DFinish(d)
  <2>1. dv' \in [Downloaders -> Sound]
    BY <1>5, StartIsSound DEF DCount, DFinish, DepthInv
  <2>2. \A x \in Downloaders : dpc'[x] = "submit" => dpc[x] = "submit" /\ dv'[x] = dv[x]
    BY <1>5 DEF DCount, DFinish, DTypeOK
  <2>3. UNCHANGED <<queue, dlQueue, exQueue>>
    BY <1>5 DEF DCount, DFinish, exVars, dataVars
  <2>. QED
    BY <1>0, <1>1, <2>1, <2>2, <2>3 DEF DepthInv
<1>6. CASE DWake(d)
  <2>1. queue' \in Seq(Sound)
    BY <1>1, <1>6, QueueOf DEF DWake, DepthInv
  <2>2. dv' \in [Downloaders -> Sound]
    BY <1>6, StartIsSound DEF DWake, DepthInv
  <2>3. \A x \in Downloaders : dpc'[x] = "submit" => dpc[x] = "submit" /\ dv'[x] = dv[x]
    BY <1>6 DEF DWake, DTypeOK
  <2>4. UNCHANGED <<dlQueue, exQueue>>
    BY <1>6 DEF DWake, exVars
  <2>. QED
    BY <1>0, <1>1, <2>1, <2>2, <2>3, <2>4 DEF DepthInv
<1>. QED
  BY <1>2, <1>3, <1>4, <1>5, <1>6 DEF DStep

LEMMA EStepDepth ==
    ASSUME TypeOK, DepthInv, NEW e \in Extractors, EStep(e)
    PROVE  DepthInv'
<1>0. UNCHANGED <<mv, passedUrl, dlQueue, dpc, dv>>
  BY DEF EStep, ETake, EExtract, EPut, EAdd, EFinish, EWake, mainVars, dlVars
<1>1. ev[e] \in Sound /\ WithinDepth'
  BY <1>0 DEF DepthInv, WithinDepth
<1>. ETypeOK
  BY TypeOKParts
<1>2. CASE ETake(e)
  <2>1. Head(exQueue) \in Fetched /\ exQueue' \in Seq(Fetched)
    BY <1>2, QueueOf DEF ETake, DepthInv
  <2>2. ev' \in [Extractors -> Sound] /\ ev'[e] \in Fetched /\ UNCHANGED queue
    BY <1>2, <2>1 DEF ETake, DepthInv, Fetched, dataVars
  <2>3. /\ epc'[e] = "extract"
        /\ \A x \in Extractors \ {e} : epc'[x] = epc[x] /\ ev'[x] = ev[x]
    BY <1>2 DEF ETake, ETypeOK
  <2>. QED
    BY <1>0, <1>1, <2>1, <2>2, <2>3 DEF DepthInv
<1>3. CASE EExtract(e)
  <2>1. ev[e] \in Fetched
    BY <1>3 DEF EExtract, DepthInv
  <2>2. epc'[e] # "extract" /\ (epc'[e] = "links" => ev[e] \in Parsed)
    BY <1>3, <2>1 DEF EExtract, ETypeOK, Fetched, Downloaded, Parsed
  <2>3. \A x \in Extractors \ {e} : epc'[x] = epc[x]
    BY <1>3 DEF EExtract, ETypeOK
  <2>4. UNCHANGED <<queue, exQueue, ev>>
    BY <1>3 DEF EExtract
  <2>. QED
    BY <1>0, <1>1, <2>2, <2>3, <2>4 DEF DepthInv
<1>4. CASE EPut(e)
  <2>1. LinkOf(e) \in Sound
    BY <1>4, LinkIsSound DEF EPut, DepthInv
  <2>2. queue' \in Seq(Sound)
    <3>1. queue' = queue \/ queue' = Append(queue, LinkOf(e))
      BY <1>4 DEF EPut
    <3>2. queue \in Seq(Sound)
      BY DEF DepthInv
    <3>. QED BY <2>1, <3>1, <3>2, QueueOf
  <2>3. \A x \in Extractors : epc'[x] = epc[x] \/ epc'[x] = "finish"
    BY <1>4 DEF EPut, ETypeOK
  <2>4. UNCHANGED <<exQueue, ev>>
    BY <1>4 DEF EPut
  <2>. QED
    BY <1>0, <1>1, <2>2, <2>3, <2>4 DEF DepthInv
<1>5. CASE EAdd(e)
  <2>1. \A x \in Extractors : epc'[x] = epc[x] \/ epc'[x] = "finish"
    BY <1>5 DEF EAdd, ETypeOK
  <2>2. UNCHANGED <<queue, exQueue, ev>>
    BY <1>5 DEF EAdd
  <2>. QED
    BY <1>0, <1>1, <2>1, <2>2 DEF DepthInv
<1>6. CASE EFinish(e) \/ EWake(e)
  <2>1. queue' \in Seq(Sound)
    <3>1. queue' = queue \/ queue' = Append(queue, ev[e])
      BY <1>6 DEF EFinish, EWake
    <3>2. queue \in Seq(Sound)
      BY DEF DepthInv
    <3>. QED BY <1>1, <3>1, <3>2, QueueOf
  <2>2. ev' \in [Extractors -> Sound]
    BY <1>6, StartIsSound DEF EFinish, EWake, DepthInv
  <2>3. \A x \in Extractors :
            epc'[x] \in {"extract", "links"} => epc'[x] = epc[x] /\ ev'[x] = ev[x]
    BY <1>6 DEF EFinish, EWake, ETypeOK
  <2>4. UNCHANGED exQueue
    BY <1>6 DEF EFinish, EWake
  <2>. QED
    BY <1>0, <1>1, <2>1, <2>2, <2>3, <2>4 DEF DepthInv
<1>. QED
  BY <1>2, <1>3, <1>4, <1>5, <1>6 DEF EStep

LEMMA NextDepthInv == TypeOK /\ DepthInv /\ [Next]_vars => DepthInv'
<1>. SUFFICES ASSUME TypeOK, DepthInv, [Next]_vars PROVE DepthInv'
  OBVIOUS
<1>1. CASE CloseDownload \/ CloseStep
  <2>1. UNCHANGED <<queue, mv, passedUrl, dpc, dv, epc, ev>>
    BY <1>1 DEF CloseDownload, CloseStep, CloseExtract, StopDownload, StopExtract,
                dataVars, mainVars, dlVars, exVars
  <2>2. /\ dlQueue' = dlQueue \/ dlQueue' = <<>>
        /\ exQueue' = exQueue \/ exQueue' = <<>>
    BY <1>1 DEF CloseDownload, CloseStep, CloseExtract, StopDownload, StopExtract,
                dlVars, exVars
  <2>3. dlQueue' \in Seq(Sound) /\ exQueue' \in Seq(Fetched)
    <3>1. <<>> \in Seq(Sound) /\ <<>> \in Seq(Fetched)
      OBVIOUS
    <3>2. dlQueue \in Seq(Sound) /\ exQueue \in Seq(Fetched)
      BY DEF DepthInv
    <3>. QED BY <2>2, <3>1, <3>2, Zenon
  <2>. QED
    BY <2>1, <2>3 DEF DepthInv, WithinDepth
<1>2. CASE UNCHANGED vars
  BY <1>2 DEF DepthInv, WithinDepth, vars
<1>. QED
  BY <1>1, <1>2, MainStepDepth, DStepDepth, EStepDepth DEF Next

\* Whatever way leads to a page, and however many threads look for it, only
\* pages up to the depth asked for are visited (lines 126 and 86).
THEOREM NothingTooDeep == Spec => []WithinDepth
<1>1. DepthInv => WithinDepth
  BY DEF DepthInv
<1>. QED
  BY <1>1, TypeCorrect, InitDepthInv, NextDepthInv, PTL DEF Spec

-----------------------------------------------------------------------------
(* The result reports every page: until close() is called each page is in  *)
(* one place only on its way through the pools, and leaves it for the list *)
(* that it belongs to (or, if the downloader crashes, for none).           *)

Fetching == {d \in Downloaders : dpc[d] \in {"download", "submit"}}
Parsing == {e \in Extractors : epc[e] \in {"extract", "links"}}

\* The pages in a queue, and in the hands of the threads S.
UrlsIn(q) == {q[i].url : i \in 1..Len(q)}
UrlsOf(S, f) == {f[t].url : t \in S}

OnceIn(q) == \A i, j \in 1..Len(q) : q[i].url = q[j].url => i = j
OnceOf(S, f) == \A t, z \in S : f[t].url = f[z].url => t = z

Places == {"new", "main", "dlQueue", "download", "exQueue", "extract", "ok", "bad"}

\* The pages at each place.
At == [p \in Places |->
    CASE p = "new" -> Urls \ passedUrl
      [] p = "main" -> IF mpc \in {"count", "submit"} THEN {mv.url} ELSE {}
      [] p = "dlQueue" -> UrlsIn(dlQueue)
      [] p = "download" -> UrlsOf(Fetching, dv)
      [] p = "exQueue" -> UrlsIn(exQueue)
      [] p = "extract" -> UrlsOf(Parsing, ev)
      [] p = "ok" -> ToSet(downloads)
      [] p = "bad" -> badDownloads]

Disjoint(A) == \A p, q \in Places : p # q => A[p] \cap A[q] = {}
Crashes == {"crash", "extract crash"}
Covers(A) == \A u \in Urls : Outcome[u] \notin Crashes => \E p \in Places : u \in A[p]
NoTwice ==
    /\ OnceIn(dlQueue) /\ OnceOf(Fetching, dv)
    /\ OnceIn(exQueue) /\ OnceOf(Parsing, ev)
    /\ \A i, j \in 1..Len(downloads) : downloads[i] = downloads[j] => i = j
Listed ==
    /\ \A u \in ToSet(downloads) : Outcome[u] = "ok"
    /\ \A u \in badDownloads : Outcome[u] \in {"download fails", "extract fails"}

\* An open crawler interrupts none of its threads and rejects no task.
Calm ==
    /\ \A d \in Downloaders : ~dint[d]
    /\ \A e \in Extractors : ~eint[e]
    /\ dlPool = "running" /\ exPool = "running"

ReportInv ==
    kpc = "open" => Disjoint(At) /\ Covers(At) /\ NoTwice /\ Listed /\ Calm

LEMMA AtValues ==
    /\ At["new"] = Urls \ passedUrl
    /\ At["main"] = IF mpc \in {"count", "submit"} THEN {mv.url} ELSE {}
    /\ At["dlQueue"] = UrlsIn(dlQueue)
    /\ At["download"] = UrlsOf(Fetching, dv)
    /\ At["exQueue"] = UrlsIn(exQueue)
    /\ At["extract"] = UrlsOf(Parsing, ev)
    /\ At["ok"] = ToSet(downloads)
    /\ At["bad"] = badDownloads
BY DEF At, Places

LEMMA AtValuesNext ==
    /\ At'["new"] = Urls \ passedUrl'
    /\ At'["main"] = IF mpc' \in {"count", "submit"} THEN {mv'.url} ELSE {}
    /\ At'["dlQueue"] = UrlsIn(dlQueue')
    /\ At'["download"] = UrlsOf(Fetching', dv')
    /\ At'["exQueue"] = UrlsIn(exQueue')
    /\ At'["extract"] = UrlsOf(Parsing', ev')
    /\ At'["ok"] = ToSet(downloads')
    /\ At'["bad"] = badDownloads'
BY DEF At, Places

\* A page that goes from one place to another is still in one place only.
LEMMA MoveKeepsPlaces ==
    ASSUME NEW A, Disjoint(A), Covers(A),
           NEW p \in Places, NEW q \in Places, p # q, NEW u \in A[p],
           NEW B, B[p] = A[p] \ {u}, B[q] = A[q] \cup {u},
           \A r \in Places \ {p, q} : B[r] = A[r]
    PROVE  Disjoint(B) /\ Covers(B)
<1>1. \A r \in Places : r # p => u \notin A[r]
  BY DEF Disjoint
<1>2. ASSUME NEW r \in Places, NEW t \in Places, r # t
      PROVE  B[r] \cap B[t] = {}
  <2>1. A[r] \cap A[t] = {}
    BY <1>2 DEF Disjoint
  <2>2. \A z \in Places : B[z] \subseteq A[z] \cup {u} /\ (z # q => u \notin B[z])
    BY <1>1
  <2>. QED BY <1>2, <2>1, <2>2
<1>3. ASSUME NEW v \in Urls, Outcome[v] \notin Crashes
      PROVE  \E r \in Places : v \in B[r]
  <2>1. PICK r \in Places : v \in A[r]
    BY <1>3 DEF Covers
  <2>2. CASE v = u
    BY <2>2
  <2>3. CASE v # u
    BY <2>1, <2>3
  <2>. QED BY <2>2, <2>3
<1>. QED BY <1>2, <1>3 DEF Disjoint, Covers

\* The page of a crash goes nowhere.
LEMMA CrashKeepsPlaces ==
    ASSUME NEW A, Disjoint(A), Covers(A),
           NEW p \in Places, NEW u, Outcome[u] \in Crashes,
           NEW B, B[p] = A[p] \ {u}, \A r \in Places \ {p} : B[r] = A[r]
    PROVE  Disjoint(B) /\ Covers(B)
<1>1. \A r \in Places : B[r] \subseteq A[r]
  OBVIOUS
<1>2. Disjoint(B)
  BY <1>1 DEF Disjoint
<1>3. ASSUME NEW v \in Urls, Outcome[v] \notin Crashes
      PROVE  \E r \in Places : v \in B[r]
  <2>1. PICK r \in Places : v \in A[r]
    BY <1>3 DEF Covers
  <2>. QED BY <1>3, <2>1
<1>. QED BY <1>2, <1>3 DEF Covers

LEMMA SameKeepsPlaces ==
    ASSUME NEW A, Disjoint(A), Covers(A), NEW B, \A r \in Places : B[r] = A[r]
    PROVE  Disjoint(B) /\ Covers(B)
BY DEF Disjoint, Covers

\* Taking the head of a queue, and putting something at its end.
LEMMA TailUrls ==
    ASSUME NEW q \in Seq(Vertex), q # <<>>, OnceIn(q)
    PROVE  /\ UrlsIn(Tail(q)) = UrlsIn(q) \ {Head(q).url}
           /\ OnceIn(Tail(q))
           /\ Head(q).url \in UrlsIn(q)
<1>. DEFINE n == Len(q)
<1>0. n \in Nat \ {0} /\ Head(q) = q[1]
  OBVIOUS
<1>1. Len(Tail(q)) = n - 1 /\ \A i \in 1..(n - 1) : Tail(q)[i] = q[i + 1]
  OBVIOUS
<1>2. \A i \in 1..(n - 1) : i + 1 \in 2..n
  BY <1>0
<1>3. \A j \in 2..n : j - 1 \in 1..(n - 1) /\ j = (j - 1) + 1
  BY <1>0
<1>. HIDE DEF n
<1>4. UrlsIn(Tail(q)) = {q[j].url : j \in 2..n}
  <2>1. UrlsIn(Tail(q)) = {q[i + 1].url : i \in 1..(n - 1)}
    BY <1>1 DEF UrlsIn
  <2>. QED BY <1>2, <1>3, <2>1
<1>5. UrlsIn(q) = {q[j].url : j \in 1..n}
  BY DEF UrlsIn, n
<1>6. \A j \in 2..n : j \in 1..n /\ j # 1 /\ q[j].url # q[1].url
  BY <1>0 DEF OnceIn, n
<1>7. 1..n = {1} \cup 2..n
  BY <1>0
<1>8. OnceIn(Tail(q))
  <2>1. ASSUME NEW i \in 1..(n - 1), NEW j \in 1..(n - 1),
               q[i + 1].url = q[j + 1].url
        PROVE  i = j
    <3>1. i + 1 \in 1..n /\ j + 1 \in 1..n
      BY <1>0
    <3>2. i + 1 = j + 1
      BY <2>1, <3>1 DEF OnceIn, n
    <3>. QED BY <1>0, <3>2
  <2>. QED BY <1>1, <2>1 DEF OnceIn
<1>. QED BY <1>0, <1>4, <1>5, <1>6, <1>7, <1>8

LEMMA AppendUrls ==
    ASSUME NEW q \in Seq(Vertex), NEW v \in Vertex, OnceIn(q), v.url \notin UrlsIn(q)
    PROVE  /\ UrlsIn(Append(q, v)) = UrlsIn(q) \cup {v.url}
           /\ OnceIn(Append(q, v))
<1>. DEFINE n == Len(q)
            r == Append(q, v)
<1>1. n \in Nat /\ Len(r) = n + 1 /\ r[n + 1] = v /\ \A i \in 1..n : r[i] = q[i]
  OBVIOUS
<1>2. \A i \in 1..n : q[i].url # v.url
  BY DEF UrlsIn
<1>. HIDE DEF n, r
<1>3. 1..(n + 1) = (1..n) \cup {n + 1}
  BY <1>1
<1>4. UrlsIn(r) = {r[i].url : i \in (1..n) \cup {n + 1}}
  BY <1>1, <1>3 DEF UrlsIn
<1>5. UrlsIn(q) = {q[i].url : i \in 1..n}
  BY DEF UrlsIn, n
<1>6. \A i, j \in 1..n : q[i].url = q[j].url => i = j
  BY DEF OnceIn, n
<1>7. OnceIn(r)
  <2>. SUFFICES ASSUME NEW i \in (1..n) \cup {n + 1}, NEW j \in (1..n) \cup {n + 1},
                       r[i].url = r[j].url
                PROVE  i = j
    BY <1>1, <1>3 DEF OnceIn
  <2>. QED BY <1>1, <1>2, <1>6
<1>8. UrlsIn(r) = UrlsIn(q) \cup {v.url}
  BY <1>1, <1>4, <1>5
<1>. QED BY <1>7, <1>8 DEF r

LEMMA AppendDownload ==
    ASSUME NEW q \in Seq(Urls), NEW u \in Urls, u \notin ToSet(q),
           \A i, j \in 1..Len(q) : q[i] = q[j] => i = j
    PROVE  /\ ToSet(Append(q, u)) = ToSet(q) \cup {u}
           /\ \A i, j \in 1..Len(Append(q, u)) :
                Append(q, u)[i] = Append(q, u)[j] => i = j
<1>. DEFINE n == Len(q)
            r == Append(q, u)
<1>1. n \in Nat /\ Len(r) = n + 1 /\ r[n + 1] = u /\ \A i \in 1..n : r[i] = q[i]
  OBVIOUS
<1>2. DOMAIN q = 1..n /\ DOMAIN r = 1..(n + 1)
  OBVIOUS
<1>3. \A i \in 1..n : q[i] # u
  BY <1>2 DEF ToSet
<1>. HIDE DEF n, r
<1>4. 1..(n + 1) = (1..n) \cup {n + 1}
  BY <1>1
<1>5. ToSet(r) = ToSet(q) \cup {u}
  BY <1>1, <1>2, <1>4 DEF ToSet
<1>6. ASSUME NEW i \in 1..(n + 1), NEW j \in 1..(n + 1), r[i] = r[j]
      PROVE  i = j
  BY <1>1, <1>3, <1>4, <1>6 DEF n
<1>. QED BY <1>1, <1>5, <1>6 DEF r

\* A thread that takes a page, or is done with it.
LEMMA TakeUrl ==
    ASSUME NEW S, NEW f, NEW t, t \notin S, OnceOf(S, f), NEW v, v.url \notin UrlsOf(S, f),
           NEW g, g[t] = v, \A z \in S : g[z] = f[z]
    PROVE  /\ UrlsOf(S \cup {t}, g) = UrlsOf(S, f) \cup {v.url}
           /\ OnceOf(S \cup {t}, g)
<1>1. \A z \in S : f[z].url # v.url
  BY DEF UrlsOf
<1>2. OnceOf(S \cup {t}, g)
  BY <1>1 DEF OnceOf
<1>. QED BY <1>2 DEF UrlsOf

LEMMA DropUrl ==
    ASSUME NEW S, NEW f, NEW t \in S, OnceOf(S, f), NEW R, R = S \ {t},
           NEW u, u = f[t].url
    PROVE  UrlsOf(R, f) = UrlsOf(S, f) \ {u} /\ OnceOf(R, f)
<1>1. \A z \in R : f[z].url # u
  BY DEF OnceOf
<1>2. UrlsOf(R, f) = UrlsOf(S, f) \ {u}
  BY <1>1 DEF UrlsOf
<1>. QED BY <1>2 DEF OnceOf

LEMMA InitReportInv == Init => ReportInv
<1>. SUFFICES ASSUME Init PROVE ReportInv
  OBVIOUS
<1>1. Fetching = {} /\ Parsing = {} /\ UrlsIn(dlQueue) = {} /\ UrlsIn(exQueue) = {}
  BY DEF Init, Fetching, Parsing, UrlsIn
<1>2. At["new"] = Urls /\ \A p \in Places \ {"new"} : At[p] = {}
  BY <1>1, AtValues DEF Init, Places, UrlsOf, ToSet
<1>3. "new" \in Places
  BY DEF Places
<1>4. Disjoint(At) /\ Covers(At)
  <2>. HIDE DEF Places, At
  <2>. QED BY <1>2, <1>3 DEF Disjoint, Covers
<1>5. NoTwice /\ Listed /\ Calm
  BY <1>1 DEF Init, NoTwice, Listed, Calm, OnceIn, OnceOf, ToSet
<1>. QED BY <1>4, <1>5 DEF ReportInv

\* What the steps leave alone.
LEMMA DStepFrame ==
    ASSUME TypeOK, NEW d \in Downloaders, DStep(d)
    PROVE  /\ UNCHANGED <<mpc, mv, passedUrl, downloads, exPool, epc, ev, eint, dlPool, kpc>>
           /\ Parsing' = Parsing
           /\ (\A x \in Downloaders : ~dint[x]) => (\A x \in Downloaders : ~dint'[x])
<1>1. /\ UNCHANGED <<mpc, mv, passedUrl, downloads, exPool, epc, ev, eint, dlPool, kpc>>
      /\ dint' = dint \/ dint' = [dint EXCEPT ![d] = FALSE]
  BY DEF DStep, DTake, DDownload, DSubmit, DCount, DFinish, DWake, mainVars, exVars, dataVars
<1>2. ASSUME \A x \in Downloaders : ~dint[x]
      PROVE  \A x \in Downloaders : ~dint'[x]
  <2>1. dint \in [Downloaders -> BOOLEAN]
    BY DEF TypeOK
  <2>. QED BY <1>1, <1>2, <2>1, Zenon
<1>. QED BY <1>1, <1>2 DEF Parsing

LEMMA EStepFrame ==
    ASSUME TypeOK, NEW e \in Extractors, EStep(e)
    PROVE  /\ UNCHANGED <<mpc, mv, passedUrl, dlPool, dlQueue, dpc, dv, dint, exPool, kpc>>
           /\ Fetching' = Fetching
           /\ (\A x \in Extractors : ~eint[x]) => (\A x \in Extractors : ~eint'[x])
<1>1. /\ UNCHANGED <<mpc, mv, passedUrl, dlPool, dlQueue, dpc, dv, dint, exPool, kpc>>
      /\ eint' = eint \/ eint' = [eint EXCEPT ![e] = FALSE]
  BY DEF EStep, ETake, EExtract, EPut, EAdd, EFinish, EWake, mainVars, dlVars, dataVars
<1>2. ASSUME \A x \in Extractors : ~eint[x]
      PROVE  \A x \in Extractors : ~eint'[x]
  <2>1. eint \in [Extractors -> BOOLEAN]
    BY DEF TypeOK
  <2>. QED BY <1>1, <1>2, <2>1, Zenon
<1>. QED BY <1>1, <1>2 DEF Fetching

\* Main: a new page is taken from the queue, and submitted.
LEMMA MainStepReport ==
    ASSUME TypeOK, ReportInv, kpc = "open", MainStep \/ InterruptMain
    PROVE  ReportInv'
<1>0. Disjoint(At) /\ Covers(At) /\ NoTwice /\ Listed /\ Calm
  BY DEF ReportInv
<1>1. /\ UNCHANGED <<dlPool, dpc, dv, dint, exPool, exQueue, epc, ev, eint, downloads, badDownloads>>
      /\ Fetching' = Fetching /\ Parsing' = Parsing
  <2>1. UNCHANGED <<dlPool, dpc, dv, dint, exPool, exQueue, epc, ev, eint, downloads, badDownloads>>
    BY DEF MainStep, InterruptMain, MainPut, MainCheckWork, MainCheckSize, MainTake,
           MainCount, MainSubmit, MainInterrupted, dlVars, exVars, dataVars
  <2>. QED BY <2>1 DEF Fetching, Parsing
<1>2. Listed' /\ Calm'
  BY <1>0, <1>1 DEF Listed, Calm
<1>3. \A p \in Places \ {"new", "main", "dlQueue"} : At'[p] = At[p]
  BY <1>1, AtValues, AtValuesNext DEF Places
<1>4. ASSUME UNCHANGED <<dlQueue, passedUrl>>, At'["main"] = At["main"]
      PROVE  ReportInv'
  <2>1. \A p \in Places : At'[p] = At[p]
    BY <1>3, <1>4, AtValues, AtValuesNext DEF Places
  <2>2. Disjoint(At') /\ Covers(At')
    BY <1>0, <2>1, SameKeepsPlaces
  <2>3. NoTwice'
    BY <1>0, <1>1, <1>4 DEF NoTwice
  <2>. QED BY <1>2, <2>2, <2>3 DEF ReportInv, Disjoint, Covers
<1>5. CASE MainTake /\ ~Skipped(Head(queue))
  <2>. DEFINE u == Head(queue).url
  <2>1. u \in Urls /\ u \notin passedUrl
    BY <1>5, HeadAndTail, VertexParts DEF MainTake, Skipped, TypeOK
  <2>2. /\ mpc \notin {"count", "submit"} /\ mpc' = "count" /\ mv'.url = u
        /\ passedUrl' = passedUrl \cup {u} /\ UNCHANGED dlQueue
    BY <1>5 DEF MainTake, dlVars
  <2>. HIDE DEF u
  <2>3. /\ u \in At["new"] /\ At'["new"] = At["new"] \ {u}
        /\ At'["main"] = At["main"] \cup {u}
        /\ At'["dlQueue"] = At["dlQueue"]
    BY <2>1, <2>2, AtValues, AtValuesNext
  <2>4. \A p \in Places \ {"new", "main"} : At'[p] = At[p]
    BY <1>3, <2>3
  <2>5. "new" \in Places /\ "main" \in Places
    BY DEF Places
  <2>6. Disjoint(At') /\ Covers(At')
    BY <1>0, <2>3, <2>4, <2>5, MoveKeepsPlaces
  <2>7. NoTwice'
    BY <1>0, <1>1, <2>2 DEF NoTwice
  <2>. QED BY <1>2, <2>6, <2>7 DEF ReportInv, Disjoint, Covers
<1>6. CASE MainSubmit
  <2>1. /\ mpc = "submit" /\ mpc' \notin {"count", "submit"} /\ UNCHANGED passedUrl
        /\ dlQueue' = Append(dlQueue, mv)
    BY <1>0, <1>6 DEF MainSubmit, Calm
  <2>2. mv.url \in At["main"] /\ At["main"] = {mv.url} /\ At'["main"] = {}
    BY <2>1, AtValues, AtValuesNext
  <2>3. "main" \in Places /\ "dlQueue" \in Places
    BY DEF Places
  <2>4. mv.url \notin UrlsIn(dlQueue)
    BY <1>0, <2>2, <2>3, AtValues DEF Disjoint
  <2>5. UrlsIn(dlQueue') = UrlsIn(dlQueue) \cup {mv.url} /\ OnceIn(dlQueue')
    BY <1>0, <2>1, <2>4, AppendUrls DEF NoTwice, TypeOK
  <2>6. /\ At'["dlQueue"] = At["dlQueue"] \cup {mv.url}
        /\ At'["new"] = At["new"] /\ At'["main"] = At["main"] \ {mv.url}
    BY <2>1, <2>2, <2>5, AtValues, AtValuesNext
  <2>7. \A p \in Places \ {"main", "dlQueue"} : At'[p] = At[p]
    BY <1>3, <2>6
  <2>8. Disjoint(At') /\ Covers(At')
    BY <1>0, <2>2, <2>3, <2>6, <2>7, MoveKeepsPlaces
  <2>9. NoTwice'
    BY <1>0, <1>1, <2>5 DEF NoTwice
  <2>. QED BY <1>2, <2>8, <2>9 DEF ReportInv, Disjoint, Covers
<1>7. CASE MainTake /\ Skipped(Head(queue))
  <2>1. mpc \notin {"count", "submit"} /\ mpc' \notin {"count", "submit"}
        /\ UNCHANGED <<dlQueue, passedUrl>>
    BY <1>7 DEF MainTake, dlVars
  <2>. QED BY <1>4, <2>1, AtValues, AtValuesNext
<1>8. CASE MainCount
  <2>1. mpc = "count" /\ mpc' = "submit" /\ UNCHANGED <<mv, dlQueue, passedUrl>>
    BY <1>8 DEF MainCount, dlVars
  <2>. QED BY <1>4, <2>1, AtValues, AtValuesNext
<1>9. CASE MainPut \/ MainCheckWork \/ MainCheckSize \/ MainInterrupted \/ InterruptMain
  <2>1. /\ mpc' \in {"count", "submit"} <=> mpc \in {"count", "submit"}
        /\ mpc \in {"count", "submit"} => mv' = mv
        /\ UNCHANGED <<dlQueue, passedUrl>>
    BY <1>9 DEF MainPut, MainCheckWork, MainCheckSize, MainInterrupted, InterruptMain, dlVars
  <2>. QED BY <1>4, <2>1, AtValues, AtValuesNext
<1>. QED
  BY <1>5, <1>6, <1>7, <1>8, <1>9 DEF MainStep

\* A download: from the queue to a thread, and on to the extract pool or into
\* the list of errors.
LEMMA DStepReport ==
    ASSUME TypeOK, DepthInv, ReportInv, kpc = "open", NEW d \in Downloaders, DStep(d)
    PROVE  ReportInv'
<1>0. Disjoint(At) /\ Covers(At) /\ NoTwice /\ Listed /\ Calm
  BY DEF ReportInv
<1>1. /\ UNCHANGED <<mpc, mv, passedUrl, downloads, exPool, epc, ev, eint, dlPool>>
      /\ Parsing' = Parsing
      /\ Calm'
  BY <1>0, DStepFrame DEF Calm
<1>2. \A p \in Places \ {"dlQueue", "download", "exQueue", "bad"} : At'[p] = At[p]
  BY <1>1, AtValues, AtValuesNext DEF Places
<1>3. dpc \in [Downloaders -> DStates] /\ dv \in [Downloaders -> Vertex]
  BY DEF TypeOK
<1>. DEFINE u == dv[d].url
<1>4. u \in Urls /\ {"dlQueue", "download", "exQueue", "bad"} \subseteq Places
  BY <1>3, VertexParts DEF Places
<1>5. d \in Fetching => u \in At["download"]
  BY AtValues DEF UrlsOf
<1>6. ASSUME Fetching' = Fetching \ {d}, d \in Fetching, dv' = dv
      PROVE  /\ At'["download"] = At["download"] \ {u}
             /\ OnceOf(Fetching', dv')
  <2>1. OnceOf(Fetching, dv) /\ d \in Fetching
    BY <1>0, <1>6 DEF NoTwice
  <2>2. u = dv[d].url
    OBVIOUS
  <2>. HIDE DEF u
  <2>3. UrlsOf(Fetching', dv) = UrlsOf(Fetching, dv) \ {u} /\ OnceOf(Fetching', dv)
    BY <1>6, <2>1, <2>2, DropUrl
  <2>. QED BY <1>6, <2>3, AtValues, AtValuesNext
<1>. HIDE DEF u
<1>7. CASE DTake(d)
  <2>1. Head(dlQueue) \in Vertex /\ d \notin Fetching /\ Fetching' = Fetching \cup {d}
    BY <1>3, <1>7, HeadAndTail DEF DTake, Fetching, TypeOK
  <2>. DEFINE v == Head(dlQueue)
  <2>2. /\ UrlsIn(dlQueue') = UrlsIn(dlQueue) \ {v.url} /\ OnceIn(dlQueue')
        /\ v.url \in UrlsIn(dlQueue)
    BY <1>0, <1>7, TailUrls DEF DTake, NoTwice, TypeOK
  <2>3. dv'[d] = v /\ \A z \in Fetching : dv'[z] = dv[z]
    BY <1>3, <1>7, <2>1 DEF DTake, Fetching
  <2>4. UNCHANGED <<exQueue, badDownloads>>
    BY <1>7 DEF DTake, exVars, dataVars
  <2>. HIDE DEF v
  <2>5. v.url \in At["dlQueue"] /\ At'["dlQueue"] = At["dlQueue"] \ {v.url}
    BY <2>2, AtValues, AtValuesNext
  <2>6. v.url \notin UrlsOf(Fetching, dv)
    BY <1>0, <1>4, <2>5, AtValues DEF Disjoint
  <2>7. /\ UrlsOf(Fetching', dv') = UrlsOf(Fetching, dv) \cup {v.url}
        /\ OnceOf(Fetching', dv')
    BY <1>0, <2>1, <2>3, <2>6, TakeUrl DEF NoTwice
  <2>8. At'["download"] = At["download"] \cup {v.url}
    BY <2>7, AtValues, AtValuesNext
  <2>9. \A p \in Places \ {"dlQueue", "download"} : At'[p] = At[p]
    BY <1>2, <2>4, AtValues, AtValuesNext
  <2>10. Disjoint(At') /\ Covers(At')
    BY <1>0, <1>4, <2>5, <2>8, <2>9, MoveKeepsPlaces
  <2>11. NoTwice' /\ Listed'
    BY <1>0, <1>1, <2>2, <2>4, <2>7 DEF NoTwice, Listed
  <2>. QED BY <1>1, <2>10, <2>11 DEF ReportInv, Disjoint, Covers
<1>8. CASE DDownload(d)
  <2>. DEFINE end == Outcome[u]
  <2>1. DownloadEnds(d) = {end} /\ end \in Outcomes
    BY <1>0, <1>4, UrlsAssumption DEF DownloadEnds, Calm, u
  <2>2. /\ dpc[d] = "download" /\ d \in Fetching
        /\ dpc' = [dpc EXCEPT ![d] = IF end \in Downloaded
                                     THEN "submit" ELSE "finish"]
        /\ badDownloads' = IF end = "download fails"
                           THEN badDownloads \cup {u} ELSE badDownloads
        /\ UNCHANGED <<dlQueue, dv, exQueue>>
    BY <1>8, <2>1 DEF DDownload, Fetching, exVars, u
  <2>. HIDE DEF end
  <2>3. At'["dlQueue"] = At["dlQueue"] /\ At'["exQueue"] = At["exQueue"]
    BY <2>2, AtValues, AtValuesNext
  <2>4. CASE end \in Downloaded
    <3>1. Fetching' = Fetching /\ badDownloads' = badDownloads
      BY <1>3, <2>2, <2>4 DEF Fetching, Downloaded
    <3>2. \A p \in Places : At'[p] = At[p]
      BY <1>2, <2>2, <2>3, <3>1, AtValues, AtValuesNext
    <3>3. Disjoint(At') /\ Covers(At')
      BY <1>0, <3>2, SameKeepsPlaces
    <3>4. NoTwice' /\ Listed'
      BY <1>0, <1>1, <2>2, <3>1 DEF NoTwice, Listed
    <3>. QED BY <1>1, <3>3, <3>4 DEF ReportInv, Disjoint, Covers
  <2>5. CASE end = "download fails"
    <3>1. Fetching' = Fetching \ {d} /\ badDownloads' = badDownloads \cup {u}
      BY <1>3, <2>2, <2>5 DEF Fetching, Downloaded
    <3>2. At'["download"] = At["download"] \ {u} /\ OnceOf(Fetching', dv')
      BY <1>6, <2>2, <3>1
    <3>3. At'["bad"] = At["bad"] \cup {u}
      BY <3>1, AtValues, AtValuesNext
    <3>4. \A p \in Places \ {"download", "bad"} : At'[p] = At[p]
      BY <1>2, <2>3
    <3>5. u \in At["download"]
      BY <1>5, <2>2
    <3>6. Disjoint(At') /\ Covers(At')
      BY <1>0, <1>4, <3>2, <3>3, <3>4, <3>5, MoveKeepsPlaces
    <3>7. NoTwice'
      BY <1>0, <1>1, <2>2, <3>2 DEF NoTwice
    <3>8. Listed'
      BY <1>0, <1>1, <2>5, <3>1 DEF Listed, end
    <3>. QED BY <1>1, <3>6, <3>7, <3>8 DEF ReportInv, Disjoint, Covers
  <2>6. CASE end = "crash"
    <3>1. Fetching' = Fetching \ {d} /\ badDownloads' = badDownloads
      BY <1>3, <2>2, <2>6 DEF Fetching, Downloaded
    <3>2. At'["download"] = At["download"] \ {u} /\ OnceOf(Fetching', dv')
      BY <1>6, <2>2, <3>1
    <3>3. \A p \in Places \ {"download"} : At'[p] = At[p]
      BY <1>2, <2>3, <3>1, AtValues, AtValuesNext
    <3>4. Disjoint(At') /\ Covers(At')
      <4>1. Outcome[u] \in Crashes /\ "download" \in Places
        BY <1>4, <2>6 DEF end, Crashes
      <4>. QED BY <1>0, <3>2, <3>3, <4>1, CrashKeepsPlaces
    <3>5. NoTwice' /\ Listed'
      BY <1>0, <1>1, <2>2, <3>1, <3>2 DEF NoTwice, Listed
    <3>. QED BY <1>1, <3>4, <3>5 DEF ReportInv, Disjoint, Covers
  <2>. QED BY <2>1, <2>4, <2>5, <2>6 DEF Outcomes, Downloaded
<1>9. CASE DSubmit(d)
  <2>1. /\ dpc[d] = "submit" /\ dpc' = [dpc EXCEPT ![d] = "count"]
        /\ exQueue' = Append(exQueue, dv[d])
        /\ UNCHANGED <<dlQueue, dv, badDownloads>>
    BY <1>0, <1>9 DEF DSubmit, Calm, dataVars
  <2>2. d \in Fetching /\ Fetching' = Fetching \ {d}
    BY <1>3, <2>1 DEF Fetching
  <2>3. At'["download"] = At["download"] \ {u} /\ OnceOf(Fetching', dv')
    BY <1>6, <2>1, <2>2
  <2>4. u \in At["download"] /\ u \notin UrlsIn(exQueue)
    BY <1>0, <1>4, <1>5, <2>2, AtValues DEF Disjoint
  <2>5. UrlsIn(exQueue') = UrlsIn(exQueue) \cup {u} /\ OnceIn(exQueue')
    BY <1>0, <1>3, <2>1, <2>4, AppendUrls DEF NoTwice, TypeOK, u
  <2>6. At'["exQueue"] = At["exQueue"] \cup {u}
    BY <2>5, AtValues, AtValuesNext
  <2>7. \A p \in Places \ {"download", "exQueue"} : At'[p] = At[p]
    BY <1>2, <2>1, AtValues, AtValuesNext
  <2>8. Disjoint(At') /\ Covers(At')
    BY <1>0, <1>4, <2>3, <2>4, <2>6, <2>7, MoveKeepsPlaces
  <2>9. NoTwice' /\ Listed'
    BY <1>0, <1>1, <2>1, <2>3, <2>5 DEF NoTwice, Listed
  <2>. QED BY <1>1, <2>8, <2>9 DEF ReportInv, Disjoint, Covers
<1>10. CASE DCount(d) \/ DFinish(d) \/ DWake(d)
  <2>1. /\ dpc[d] \in {"count", "finish", "wake"}
        /\ \E st \in {"finish", "wake", "idle"} : dpc' = [dpc EXCEPT ![d] = st]
        /\ dv' = dv \/ dv' = [dv EXCEPT ![d] = NoVertex] \/ dv' = [dv EXCEPT ![d] = dv[d]]
        /\ UNCHANGED <<dlQueue, exQueue, badDownloads>>
    BY <1>10 DEF DCount, DFinish, DWake, dataVars, exVars
  <2>2. d \notin Fetching /\ Fetching' = Fetching
    BY <1>3, <2>1 DEF Fetching
  <2>3. \A z \in Fetching : dv'[z] = dv[z]
    BY <1>3, <2>1, <2>2 DEF Fetching
  <2>4. UrlsOf(Fetching', dv') = UrlsOf(Fetching, dv) /\ OnceOf(Fetching', dv')
    BY <1>0, <2>2, <2>3 DEF UrlsOf, OnceOf, NoTwice
  <2>5. \A p \in Places : At'[p] = At[p]
    BY <1>2, <2>1, <2>4, AtValues, AtValuesNext
  <2>6. Disjoint(At') /\ Covers(At')
    BY <1>0, <2>5, SameKeepsPlaces
  <2>7. NoTwice' /\ Listed'
    BY <1>0, <1>1, <2>1, <2>4 DEF NoTwice, Listed
  <2>. QED BY <1>1, <2>6, <2>7 DEF ReportInv, Disjoint, Covers
<1>. QED
  BY <1>7, <1>8, <1>9, <1>10 DEF DStep

\* An extraction: from the queue to a thread, and on to one of the lists.
LEMMA EStepReport ==
    ASSUME TypeOK, DepthInv, ReportInv, kpc = "open", NEW e \in Extractors, EStep(e)
    PROVE  ReportInv'
<1>0. Disjoint(At) /\ Covers(At) /\ NoTwice /\ Listed /\ Calm
  BY DEF ReportInv
<1>1. /\ UNCHANGED <<mpc, mv, passedUrl, dlPool, dlQueue, dpc, dv, dint, exPool>>
      /\ Fetching' = Fetching
      /\ Calm'
  BY <1>0, EStepFrame DEF Calm
<1>2. \A p \in Places \ {"exQueue", "extract", "ok", "bad"} : At'[p] = At[p]
  BY <1>1, AtValues, AtValuesNext DEF Places
<1>3. epc \in [Extractors -> EStates] /\ ev \in [Extractors -> Vertex]
  BY DEF TypeOK
<1>. DEFINE u == ev[e].url
<1>4. u \in Urls /\ {"exQueue", "extract", "ok", "bad"} \subseteq Places
  BY <1>3, VertexParts DEF Places
<1>5. e \in Parsing => u \in At["extract"]
  BY AtValues DEF UrlsOf
<1>6. ASSUME Parsing' = Parsing \ {e}, e \in Parsing, ev' = ev
      PROVE  /\ At'["extract"] = At["extract"] \ {u}
             /\ OnceOf(Parsing', ev')
  <2>1. OnceOf(Parsing, ev) /\ e \in Parsing
    BY <1>0, <1>6 DEF NoTwice
  <2>2. u = ev[e].url
    OBVIOUS
  <2>. HIDE DEF u
  <2>3. UrlsOf(Parsing', ev) = UrlsOf(Parsing, ev) \ {u} /\ OnceOf(Parsing', ev)
    BY <1>6, <2>1, <2>2, DropUrl
  <2>. QED BY <1>6, <2>3, AtValues, AtValuesNext
<1>. HIDE DEF u
<1>7. ASSUME Parsing' = Parsing, \A z \in Parsing : ev'[z] = ev[z],
             UNCHANGED <<exQueue, downloads, badDownloads>>
      PROVE  ReportInv'
  <2>1. UrlsOf(Parsing', ev') = UrlsOf(Parsing, ev) /\ OnceOf(Parsing', ev')
    BY <1>0, <1>7 DEF UrlsOf, OnceOf, NoTwice
  <2>2. \A p \in Places : At'[p] = At[p]
    BY <1>2, <1>7, <2>1, AtValues, AtValuesNext
  <2>3. Disjoint(At') /\ Covers(At')
    BY <1>0, <2>2, SameKeepsPlaces
  <2>4. NoTwice' /\ Listed'
    BY <1>0, <1>1, <1>7, <2>1 DEF NoTwice, Listed
  <2>. QED BY <1>1, <2>3, <2>4 DEF ReportInv, Disjoint, Covers
<1>8. CASE ETake(e)
  <2>1. Head(exQueue) \in Vertex /\ e \notin Parsing /\ Parsing' = Parsing \cup {e}
    BY <1>3, <1>8, HeadAndTail DEF ETake, Parsing, TypeOK
  <2>. DEFINE v == Head(exQueue)
  <2>2. /\ UrlsIn(exQueue') = UrlsIn(exQueue) \ {v.url} /\ OnceIn(exQueue')
        /\ v.url \in UrlsIn(exQueue)
    BY <1>0, <1>8, TailUrls DEF ETake, NoTwice, TypeOK
  <2>3. ev'[e] = v /\ \A z \in Parsing : ev'[z] = ev[z]
    BY <1>3, <1>8, <2>1 DEF ETake, Parsing
  <2>4. UNCHANGED <<downloads, badDownloads>>
    BY <1>8 DEF ETake, dataVars
  <2>. HIDE DEF v
  <2>5. v.url \in At["exQueue"] /\ At'["exQueue"] = At["exQueue"] \ {v.url}
    BY <2>2, AtValues, AtValuesNext
  <2>6. v.url \notin UrlsOf(Parsing, ev)
    BY <1>0, <1>4, <2>5, AtValues DEF Disjoint
  <2>7. /\ UrlsOf(Parsing', ev') = UrlsOf(Parsing, ev) \cup {v.url}
        /\ OnceOf(Parsing', ev')
    <3>1. OnceOf(Parsing, ev)
      BY <1>0 DEF NoTwice
    <3>. QED BY <2>1, <2>3, <2>6, <3>1, TakeUrl
  <2>8. At'["extract"] = At["extract"] \cup {v.url}
    BY <2>7, AtValues, AtValuesNext
  <2>9. \A p \in Places \ {"exQueue", "extract"} : At'[p] = At[p]
    BY <1>2, <2>4, AtValues, AtValuesNext
  <2>10. Disjoint(At') /\ Covers(At')
    BY <1>0, <1>4, <2>5, <2>8, <2>9, MoveKeepsPlaces
  <2>11. NoTwice' /\ Listed'
    BY <1>0, <1>1, <2>2, <2>4, <2>7 DEF NoTwice, Listed
  <2>. QED BY <1>1, <2>10, <2>11 DEF ReportInv, Disjoint, Covers
<1>9. CASE EExtract(e)
  <2>1. /\ epc[e] = "extract" /\ e \in Parsing
        /\ UNCHANGED <<exQueue, downloads, ev>>
    BY <1>9 DEF EExtract, Parsing
  <2>2. CASE Outcome[u] = "extract fails"
    <3>1. epc' = [epc EXCEPT ![e] = "finish"] /\ badDownloads' = badDownloads \cup {u}
      BY <1>9, <2>2 DEF EExtract, u
    <3>2. Parsing' = Parsing \ {e}
      BY <1>3, <3>1 DEF Parsing
    <3>3. At'["extract"] = At["extract"] \ {u} /\ OnceOf(Parsing', ev')
      BY <1>6, <2>1, <3>2
    <3>4. At'["bad"] = At["bad"] \cup {u}
      BY <3>1, AtValues, AtValuesNext
    <3>5. \A p \in Places \ {"extract", "bad"} : At'[p] = At[p]
      BY <1>2, <2>1, AtValues, AtValuesNext
    <3>6. Disjoint(At') /\ Covers(At')
      BY <1>0, <1>4, <1>5, <2>1, <3>3, <3>4, <3>5, MoveKeepsPlaces
    <3>7. NoTwice'
      BY <1>0, <1>1, <2>1, <3>3 DEF NoTwice
    <3>8. Listed'
      BY <1>0, <2>1, <2>2, <3>1 DEF Listed
    <3>. QED BY <1>1, <3>6, <3>7, <3>8 DEF ReportInv, Disjoint, Covers
  <2>3. CASE Outcome[u] \notin {"ok", "extract fails"}
    <3>1. epc' = [epc EXCEPT ![e] = "finish"] /\ badDownloads' = badDownloads
      BY <1>9, <2>3 DEF EExtract, u
    <3>2. Parsing' = Parsing \ {e}
      BY <1>3, <3>1 DEF Parsing
    <3>3. At'["extract"] = At["extract"] \ {u} /\ OnceOf(Parsing', ev')
      BY <1>6, <2>1, <3>2
    <3>4. \A p \in Places \ {"extract"} : At'[p] = At[p]
      BY <1>2, <2>1, <3>1, AtValues, AtValuesNext
    <3>5. Outcome[u] \in Crashes /\ "extract" \in Places
      <4>1. Outcome[u] \in Downloaded
        BY <2>1 DEF DepthInv, Fetched, u
      <4>. QED BY <1>4, <2>3, <4>1 DEF Downloaded, Crashes
    <3>6. Disjoint(At') /\ Covers(At')
      BY <1>0, <3>3, <3>4, <3>5, CrashKeepsPlaces
    <3>7. NoTwice' /\ Listed'
      BY <1>0, <1>1, <2>1, <3>1, <3>3 DEF NoTwice, Listed
    <3>. QED BY <1>1, <3>6, <3>7 DEF ReportInv, Disjoint, Covers
  <2>4. CASE Outcome[u] = "ok"
    <3>1. epc' = [epc EXCEPT ![e] = "links"] /\ badDownloads' = badDownloads
      BY <1>9, <2>4 DEF EExtract, u
    <3>2. Parsing' = Parsing
      BY <1>3, <2>1, <3>1 DEF Parsing
    <3>. QED BY <1>7, <2>1, <3>1, <3>2
  <2>. QED BY <2>2, <2>3, <2>4
<1>10. CASE EPut(e)
  <2>1. UNCHANGED <<exQueue, downloads, badDownloads, ev, epc>>
    BY <1>0, <1>10 DEF EPut, Calm
  <2>2. Parsing' = Parsing
    BY <2>1 DEF Parsing
  <2>. QED BY <1>7, <2>1, <2>2
<1>11. CASE EAdd(e)
  <2>1. /\ epc[e] = "links" /\ e \in Parsing
        /\ epc' = [epc EXCEPT ![e] = "finish"]
        /\ downloads' = Append(downloads, u)
        /\ UNCHANGED <<exQueue, badDownloads, ev>>
    BY <1>11 DEF EAdd, Parsing, u
  <2>2. Parsing' = Parsing \ {e}
    BY <1>3, <2>1 DEF Parsing
  <2>3. At'["extract"] = At["extract"] \ {u} /\ OnceOf(Parsing', ev')
    BY <1>6, <2>1, <2>2
  <2>4. u \in At["extract"] /\ u \notin ToSet(downloads)
    BY <1>0, <1>4, <1>5, <2>1, AtValues DEF Disjoint
  <2>5. /\ ToSet(downloads') = ToSet(downloads) \cup {u}
        /\ \A i, j \in 1..Len(downloads') : downloads'[i] = downloads'[j] => i = j
    <3>1. downloads \in Seq(Urls)
      BY DEF TypeOK
    <3>2. \A i, j \in 1..Len(downloads) : downloads[i] = downloads[j] => i = j
      BY <1>0 DEF NoTwice
    <3>. QED BY <1>4, <2>1, <2>4, <3>1, <3>2, AppendDownload
  <2>6. At'["ok"] = At["ok"] \cup {u}
    BY <2>5, AtValues, AtValuesNext
  <2>7. \A p \in Places \ {"extract", "ok"} : At'[p] = At[p]
    BY <1>2, <2>1, AtValues, AtValuesNext
  <2>8. Disjoint(At') /\ Covers(At')
    BY <1>0, <1>4, <2>3, <2>4, <2>6, <2>7, MoveKeepsPlaces
  <2>9. NoTwice'
    BY <1>0, <1>1, <2>1, <2>3, <2>5 DEF NoTwice
  <2>10. Outcome[u] = "ok"
    BY <2>1 DEF DepthInv, Parsed, u
  <2>11. Listed'
    BY <1>0, <2>1, <2>5, <2>10 DEF Listed
  <2>. QED BY <1>1, <2>8, <2>9, <2>11 DEF ReportInv, Disjoint, Covers
<1>12. CASE EFinish(e) \/ EWake(e)
  <2>1. /\ epc[e] \in {"finish", "wake"}
        /\ \E st \in {"wake", "idle"} : epc' = [epc EXCEPT ![e] = st]
        /\ ev' = [ev EXCEPT ![e] = NoVertex] \/ ev' = [ev EXCEPT ![e] = ev[e]]
        /\ UNCHANGED <<exQueue, downloads, badDownloads>>
    BY <1>12 DEF EFinish, EWake, dataVars
  <2>2. e \notin Parsing /\ Parsing' = Parsing
    BY <1>3, <2>1 DEF Parsing
  <2>3. \A z \in Parsing : ev'[z] = ev[z]
    BY <1>3, <2>1, <2>2 DEF Parsing
  <2>. QED BY <1>7, <2>1, <2>2, <2>3
<1>. QED
  BY <1>8, <1>9, <1>10, <1>11, <1>12 DEF EStep

LEMMA NextReportInv ==
    TypeOK /\ DepthInv /\ ReportInv /\ [Next]_vars => ReportInv'
<1>. SUFFICES ASSUME TypeOK, DepthInv, ReportInv, [Next]_vars PROVE ReportInv'
  OBVIOUS
<1>1. CASE kpc' # "open"
  BY <1>1 DEF ReportInv
<1>2. CASE kpc' = "open"
  <2>1. ~(CloseDownload \/ CloseStep)
    BY <1>2 DEF CloseDownload, CloseStep, CloseExtract, StopDownload, StopExtract
  <2>2. kpc = "open"
    BY <1>2, <2>1, DStepFrame, EStepFrame
       DEF Next, MainStep, InterruptMain, MainPut, MainCheckWork, MainCheckSize, MainTake,
           MainCount, MainSubmit, MainInterrupted, vars
  <2>3. CASE UNCHANGED vars
    <3>1. Fetching' = Fetching /\ Parsing' = Parsing
      BY <2>3 DEF vars, Fetching, Parsing
    <3>2. At' = At
      BY <2>3, <3>1 DEF At, vars
    <3>3. NoTwice' /\ Listed' /\ Calm'
      BY <2>2, <2>3, <3>1 DEF ReportInv, NoTwice, Listed, Calm, vars
    <3>. QED BY <2>2, <3>2, <3>3 DEF ReportInv, Disjoint, Covers
  <2>. QED
    BY <2>1, <2>2, <2>3, MainStepReport, DStepReport, EStepReport DEF Next
<1>. QED BY <1>1, <1>2

\* A sequence without repetitions is as long as its set of elements is large.
LEMMA OnceIsCardinality ==
    ASSUME NEW q \in Seq(Urls), \A i, j \in 1..Len(q) : q[i] = q[j] => i = j
    PROVE  Len(q) = Cardinality(ToSet(q))
<1>1. DOMAIN q = 1..Len(q) /\ Len(q) \in Nat
  OBVIOUS
<1>2. ToSet(q) = {q[i] : i \in 1..Len(q)}
  BY <1>1 DEF ToSet
<1>3. IsFiniteSet(1..Len(q)) /\ Cardinality(1..Len(q)) = Len(q)
  <2>1. PICK n \in Nat : n = Len(q)
    BY <1>1
  <2>2. IsFiniteSet(1..n) /\ Cardinality(1..n) = IF 1 > n THEN 0 ELSE n - 1 + 1
    BY FS_Interval
  <2>. QED BY <2>1, <2>2
<1>4. q \in [1..Len(q) -> ToSet(q)]
  BY <1>1, <1>2
<1>5. q \in Injection(1..Len(q), ToSet(q))
  BY <1>4 DEF Injection, IsInjective
<1>6. q \in Surjection(1..Len(q), ToSet(q))
  BY <1>2, <1>4 DEF Surjection
<1>7. ExistsBijection(1..Len(q), ToSet(q))
  BY <1>5, <1>6 DEF ExistsBijection, Bijection
<1>. QED BY <1>3, <1>7, FS_Bijection

\* The two lists that download() returns report exactly the pages visited,
\* each once and each in the list that its outcome calls for, however the
\* threads of the two pools take turns.
THEOREM ResultIsReport == Spec => []ResultReports
<1>1. ASSUME TypeOK, ReportInv, ResultFinal, mpc = "done", kpc = "open"
      PROVE  ResultReports
  <2>0. Disjoint(At) /\ Covers(At) /\ NoTwice /\ Listed
    BY <1>1 DEF ReportInv
  <2>1. Quiet
    BY <1>1 DEF ResultFinal
  <2>2. /\ UrlsIn(dlQueue) = {} /\ UrlsIn(exQueue) = {}
        /\ Fetching = {} /\ Parsing = {}
    BY <2>1 DEF Quiet, UrlsIn, Fetching, Parsing
  <2>3. \A p \in Places \ {"new", "ok", "bad"} : At[p] = {}
    BY <1>1, <2>2, AtValues DEF Places, UrlsOf
  <2>4. At["ok"] \subseteq passedUrl /\ At["bad"] \subseteq passedUrl
    <3>1. At["ok"] \subseteq Urls /\ At["bad"] \subseteq Urls
      BY <1>1, AtValues DEF TypeOK, ToSet
    <3>2. At["ok"] \cap At["new"] = {} /\ At["bad"] \cap At["new"] = {}
      BY <2>0 DEF Disjoint, Places
    <3>. QED BY <3>1, <3>2, AtValues
  <2>5. ASSUME NEW u \in passedUrl, Outcome[u] \notin Crashes
        PROVE  u \in At["ok"] \/ u \in At["bad"]
    <3>1. u \in Urls
      BY <1>1 DEF TypeOK
    <3>2. PICK p \in Places : u \in At[p]
      BY <2>0, <2>5, <3>1 DEF Covers
    <3>3. p # "new"
      BY <3>2, AtValues
    <3>. QED BY <2>3, <3>2, <3>3
  <2>6. ToSet(downloads) = {u \in passedUrl : Outcome[u] = "ok"}
    BY <2>0, <2>4, <2>5, AtValues DEF Listed, Crashes
  <2>7. badDownloads = {u \in passedUrl : Outcome[u] \in {"download fails", "extract fails"}}
    BY <2>0, <2>4, <2>5, AtValues DEF Listed, Crashes
  <2>8. Len(downloads) = Cardinality(ToSet(downloads))
    BY <1>1, <2>0, OnceIsCardinality DEF NoTwice, TypeOK
  <2>. QED BY <2>6, <2>7, <2>8 DEF ResultReports
<1>2. TypeOK /\ ReportInv /\ ResultFinal => ResultReports
  BY <1>1 DEF ResultReports
<1>. QED
  BY <1>2, TypeCorrect, InitDepthInv, NextDepthInv, InitReportInv, NextReportInv,
     ResultIsFinal, PTL DEF Spec

-----------------------------------------------------------------------------
(* A depth that is as large as the web cuts nothing off: each page on the  *)
(* way to a page at level n was visited before, so n - 1 pages were.       *)

Visited == {v \in Vertex : v.url \in passedUrl /\ v.level <= Cardinality(passedUrl)}
Found == {v \in Vertex : v.level <= Cardinality(passedUrl) + 1}

LevelInv ==
    /\ queue \in Seq(Found)
    /\ mpc \in {"count", "submit"} => mv \in Visited
    /\ dlQueue \in Seq(Visited)
    /\ \A d \in Downloaders : dpc[d] # "idle" => dv[d] \in Visited
    /\ exQueue \in Seq(Visited)
    /\ \A e \in Extractors : epc[e] # "idle" => ev[e] \in Visited

LEMMA PassedFinite ==
    ASSUME IsFiniteSet(Urls), TypeOK
    PROVE  IsFiniteSet(passedUrl) /\ Cardinality(passedUrl) \in Nat
<1>1. passedUrl \subseteq Urls
  BY DEF TypeOK
<1>. QED BY <1>1, FS_Subset, FS_CardinalityType

LEMMA SeqOfMore ==
    ASSUME NEW S, NEW T, S \subseteq T, NEW q \in Seq(S)
    PROVE  q \in Seq(T)
OBVIOUS

LEMMA InitLevelInv == Init => LevelInv
<1>. SUFFICES ASSUME Init PROVE LevelInv
  OBVIOUS
<1>. QED BY DEF Init, LevelInv

LEMMA MainTakeLevel ==
    ASSUME IsFiniteSet(Urls), TypeOK, LevelInv, MainTake
    PROVE  LevelInv'
<1>. DEFINE v == Head(queue)
            n == Cardinality(passedUrl)
<1>1. v \in Found /\ queue' \in Seq(Found)
  BY QueueOf DEF MainTake, LevelInv
<1>2. v \in Vertex /\ v.level <= n + 1 /\ v.url \in Urls
  BY <1>1, VertexParts DEF Found
<1>3. UNCHANGED <<dlQueue, dpc, dv, exQueue, epc, ev>>
  BY DEF MainTake, dlVars, exVars
<1>4. CASE Skipped(v)
  <2>1. passedUrl' = passedUrl /\ mpc' = "check"
    BY <1>4 DEF MainTake
  <2>2. Visited' = Visited /\ Found' = Found
    BY <2>1 DEF Visited, Found
  <2>. QED BY <1>1, <1>3, <2>1, <2>2 DEF LevelInv
<1>5. CASE ~Skipped(v)
  <2>1. mv' = v /\ v.url \notin passedUrl /\ passedUrl' = passedUrl \cup {v.url}
    BY <1>5 DEF MainTake, Skipped
  <2>2. Cardinality(passedUrl') = n + 1 /\ n \in Nat
    BY <2>1, PassedFinite, FS_AddElement
  <2>3. Visited \subseteq Visited' /\ Found \subseteq Found'
    <3>1. PICK c \in Nat : c = Cardinality(passedUrl)
      BY <2>2
    <3>2. Cardinality(passedUrl') = c + 1 /\ passedUrl \subseteq passedUrl'
      BY <2>1, <2>2, <3>1
    <3>3. ASSUME NEW w \in Vertex
          PROVE  /\ w \in Visited => w \in Visited'
                 /\ w \in Found => w \in Found'
      <4>1. w.level \in Nat
        BY VertexParts
      <4>2. w.level <= c => w.level <= c + 1
        BY <3>1, <4>1
      <4>3. w.level <= c + 1 => w.level <= c + 1 + 1
        BY <3>1, <4>1
      <4>. QED BY <3>1, <3>2, <4>2, <4>3 DEF Visited, Found
    <3>. QED BY <3>3 DEF Visited, Found
  <2>4. mv' \in Visited'
    BY <1>2, <2>1, <2>2 DEF Visited
  <2>5. queue' \in Seq(Found') /\ dlQueue' \in Seq(Visited') /\ exQueue' \in Seq(Visited')
    BY <1>1, <1>3, <2>3, SeqOfMore DEF LevelInv
  <2>6. /\ \A d \in Downloaders : dpc'[d] # "idle" => dv'[d] \in Visited'
        /\ \A e \in Extractors : epc'[e] # "idle" => ev'[e] \in Visited'
    BY <1>3, <2>3 DEF LevelInv
  <2>. QED BY <2>4, <2>5, <2>6 DEF LevelInv
<1>. QED BY <1>4, <1>5

LEMMA NextLevelInv ==
    ASSUME IsFiniteSet(Urls)
    PROVE  TypeOK /\ DepthInv /\ LevelInv /\ [Next]_vars => LevelInv'
<1>. SUFFICES ASSUME TypeOK, DepthInv, LevelInv, [Next]_vars PROVE LevelInv'
  OBVIOUS
<1>0. passedUrl' = passedUrl => Visited' = Visited /\ Found' = Found
  BY DEF Visited, Found
<1>1. Cardinality(passedUrl) \in Nat /\ Visited \subseteq Found
  BY PassedFinite, VertexParts DEF Visited, Found
<1>2. CASE MainTake
  BY <1>2, MainTakeLevel
<1>3. CASE MainPut
  <2>1. Start \in Found
    BY <1>1, StartIsVertex DEF Found, Start
  <2>2. queue' \in Seq(Found)
    BY <1>3, <2>1, QueueOf DEF MainPut, LevelInv
  <2>3. /\ mpc' = "check"
        /\ UNCHANGED <<passedUrl, dlQueue, dpc, dv, exQueue, epc, ev>>
    BY <1>3 DEF MainPut, dlVars, exVars
  <2>. QED BY <1>0, <2>2, <2>3 DEF LevelInv
<1>4. CASE MainCheckWork \/ MainCheckSize \/ MainCount \/ MainInterrupted \/ InterruptMain
  <2>1. /\ mpc' \in {"count", "submit"} => mpc \in {"count", "submit"}
        /\ UNCHANGED <<queue, mv, passedUrl, dlQueue, dpc, dv, exQueue, epc, ev>>
    BY <1>4 DEF MainCheckWork, MainCheckSize, MainCount, MainInterrupted, InterruptMain,
                dataVars, dlVars, exVars
  <2>. QED BY <1>0, <2>1 DEF LevelInv
<1>5. CASE MainSubmit
  <2>1. dlQueue' \in Seq(Visited)
    <3>1. mv \in Visited /\ dlQueue \in Seq(Visited)
      BY <1>5 DEF MainSubmit, LevelInv
    <3>2. dlQueue' = dlQueue \/ dlQueue' = Append(dlQueue, mv)
      BY <1>5 DEF MainSubmit
    <3>. QED BY <3>1, <3>2, QueueOf
  <2>2. mpc' = "check" /\ UNCHANGED <<queue, passedUrl, dpc, dv, exQueue, epc, ev>>
    BY <1>5 DEF MainSubmit, dataVars, exVars
  <2>. QED BY <1>0, <2>1, <2>2 DEF LevelInv
<1>6. ASSUME NEW d \in Downloaders, DStep(d)
      PROVE  LevelInv'
  <2>. DTypeOK
    BY TypeOKParts
  <2>0. UNCHANGED <<mpc, mv, passedUrl, epc, ev>>
    BY <1>6, DStepFrame
  <2>1. dpc[d] # "idle" => dv[d] \in Visited
    BY DEF LevelInv
  <2>2. queue' = queue \/ (queue' = Append(queue, dv[d]) /\ dpc[d] # "idle")
    BY <1>6 DEF DStep, DTake, DDownload, DSubmit, DCount, DFinish, DWake, dataVars
  <2>3. queue' \in Seq(Found)
    <3>1. queue \in Seq(Found)
      BY DEF LevelInv
    <3>. QED BY <1>1, <2>1, <2>2, <3>1, QueueOf
  <2>4. exQueue' = exQueue \/ (exQueue' = Append(exQueue, dv[d]) /\ dpc[d] # "idle")
    BY <1>6 DEF DStep, DTake, DDownload, DSubmit, DCount, DFinish, DWake, exVars
  <2>5. exQueue' \in Seq(Visited)
    <3>1. exQueue \in Seq(Visited)
      BY DEF LevelInv
    <3>. QED BY <2>1, <2>4, <3>1, QueueOf
  <2>6. CASE DTake(d)
    <3>1. Head(dlQueue) \in Visited /\ dlQueue' \in Seq(Visited)
      BY <2>6, QueueOf DEF DTake, LevelInv
    <3>2. \A x \in Downloaders : dpc'[x] # "idle" => dv'[x] \in Visited
      BY <2>6, <3>1 DEF DTake, DTypeOK, LevelInv
    <3>. QED BY <1>0, <2>0, <2>3, <2>5, <3>1, <3>2 DEF LevelInv
  <2>7. CASE ~DTake(d)
    <3>1. dlQueue' = dlQueue /\ dpc[d] # "idle"
      BY <1>6, <2>7 DEF DStep, DDownload, DSubmit, DCount, DFinish, DWake
    <3>2. \A x \in Downloaders : dpc'[x] # "idle" => dpc[x] # "idle" /\ dv'[x] = dv[x]
      <4>1. CASE DFinish(d) \/ DWake(d)
        BY <3>1, <4>1 DEF DFinish, DWake, DTypeOK
      <4>2. CASE DDownload(d) \/ DSubmit(d) \/ DCount(d)
        BY <3>1, <4>2 DEF DDownload, DSubmit, DCount, DTypeOK
      <4>. QED BY <1>6, <2>7, <4>1, <4>2 DEF DStep
    <3>. QED BY <1>0, <2>0, <2>3, <2>5, <3>1, <3>2 DEF LevelInv
  <2>. QED BY <2>6, <2>7
<1>7. ASSUME NEW e \in Extractors, EStep(e)
      PROVE  LevelInv'
  <2>. ETypeOK
    BY TypeOKParts
  <2>0. UNCHANGED <<mpc, mv, passedUrl, dlQueue, dpc, dv>>
    BY <1>7, EStepFrame
  <2>1. epc[e] # "idle" => ev[e] \in Visited
    BY DEF LevelInv
  <2>2. queue' \in Seq(Found)
    <3>1. queue \in Seq(Found)
      BY DEF LevelInv
    <3>2. CASE EPut(e)
      <4>1. /\ LinkOf(e) \in Sound /\ LinkOf(e).level = ev[e].level + 1
            /\ ev[e] \in Visited
        BY <2>1, <3>2, LinkIsSound DEF EPut, DepthInv
      <4>2. LinkOf(e) \in Found
        BY <1>1, <4>1, VertexParts DEF Sound, Visited, Found
      <4>3. queue' = queue \/ queue' = Append(queue, LinkOf(e))
        BY <3>2 DEF EPut
      <4>. QED BY <3>1, <4>2, <4>3, QueueOf
    <3>3. CASE ~EPut(e)
      <4>1. queue' = queue \/ (queue' = Append(queue, ev[e]) /\ epc[e] # "idle")
        BY <1>7, <3>3 DEF EStep, ETake, EExtract, EAdd, EFinish, EWake, dataVars
      <4>. QED BY <1>1, <2>1, <3>1, <4>1, QueueOf
    <3>. QED BY <3>2, <3>3
  <2>3. CASE ETake(e)
    <3>1. Head(exQueue) \in Visited /\ exQueue' \in Seq(Visited)
      BY <2>3, QueueOf DEF ETake, LevelInv
    <3>2. \A x \in Extractors : epc'[x] # "idle" => ev'[x] \in Visited
      BY <2>3, <3>1 DEF ETake, ETypeOK, LevelInv
    <3>. QED BY <1>0, <2>0, <2>2, <3>1, <3>2 DEF LevelInv
  <2>4. CASE ~ETake(e)
    <3>1. exQueue' = exQueue /\ epc[e] # "idle"
      BY <1>7, <2>4 DEF EStep, EExtract, EPut, EAdd, EFinish, EWake
    <3>2. \A x \in Extractors : epc'[x] # "idle" => epc[x] # "idle" /\ ev'[x] = ev[x]
      <4>1. CASE EFinish(e) \/ EWake(e)
        BY <3>1, <4>1 DEF EFinish, EWake, ETypeOK
      <4>2. CASE EExtract(e) \/ EPut(e) \/ EAdd(e)
        BY <3>1, <4>2 DEF EExtract, EPut, EAdd, ETypeOK
      <4>. QED BY <1>7, <2>4, <4>1, <4>2 DEF EStep
    <3>. QED BY <1>0, <2>0, <2>2, <3>1, <3>2 DEF LevelInv
  <2>. QED BY <2>3, <2>4
<1>8. CASE CloseDownload \/ CloseStep
  <2>1. UNCHANGED <<queue, mpc, mv, passedUrl, dpc, dv, epc, ev>>
    BY <1>8 DEF CloseDownload, CloseStep, CloseExtract, StopDownload, StopExtract,
                dataVars, mainVars, dlVars, exVars
  <2>2. /\ dlQueue' = dlQueue \/ dlQueue' = <<>>
        /\ exQueue' = exQueue \/ exQueue' = <<>>
    BY <1>8 DEF CloseDownload, CloseStep, CloseExtract, StopDownload, StopExtract,
                dlVars, exVars
  <2>3. dlQueue' \in Seq(Visited) /\ exQueue' \in Seq(Visited)
    <3>1. <<>> \in Seq(Visited)
      OBVIOUS
    <3>2. dlQueue \in Seq(Visited) /\ exQueue \in Seq(Visited)
      BY DEF LevelInv
    <3>. QED BY <2>2, <3>1, <3>2, Zenon
  <2>. QED BY <1>0, <2>1, <2>3 DEF LevelInv
<1>9. CASE UNCHANGED vars
  BY <1>0, <1>9 DEF LevelInv, vars
<1>. QED
  BY <1>2, <1>3, <1>4, <1>5, <1>6, <1>7, <1>8, <1>9 DEF Next, MainStep

\* Main drops only vertices whose page was visited already.
LEMMA NothingCutOff ==
    ASSUME IsFiniteSet(Urls), MaxDepth >= Cardinality(Urls), TypeOK,
           NEW v \in Found, Skipped(v)
    PROVE  v.url \in passedUrl
<1>. SUFFICES ASSUME v.url \notin passedUrl PROVE FALSE
  OBVIOUS
<1>1. v \in Vertex /\ v.url \in Urls /\ v.level \in Nat
  BY VertexParts DEF Found
<1>2. passedUrl \cup {v.url} \subseteq Urls
  BY <1>1 DEF TypeOK
<1>3. Cardinality(passedUrl \cup {v.url}) = Cardinality(passedUrl) + 1
  BY PassedFinite, FS_AddElement
<1>4. Cardinality(passedUrl) + 1 <= Cardinality(Urls)
  BY <1>2, <1>3, FS_Subset
<1>5. v.level > MaxDepth
  BY DEF Skipped, TooDeep
<1>6. Cardinality(passedUrl) \in Nat /\ Cardinality(Urls) \in Nat /\ MaxDepth \in Nat
  BY PassedFinite, FS_CardinalityType, UrlsAssumption
<1>. QED BY <1>1, <1>4, <1>5, <1>6 DEF Found

-----------------------------------------------------------------------------
(* The whole web is visited: a page once found stays in the queue until it *)
(* is visited, a page is among the downloads only when all its links are   *)
(* found, and main returns only when nothing unvisited is in the queue.    *)

Known == passedUrl \cup UrlsIn(queue)

LinksFound ==
    \A e \in Extractors :
        epc[e] = "links" => \A j \in 1..(ek[e] - 1) : Links[ev[e].url][j] \in Known
FirstLink == \A e \in Extractors : epc[e] # "links" => ek[e] = 1
DownloadsFound == \A u \in ToSet(downloads) : ToSet(Links[u]) \subseteq Known

WholeInv ==
    /\ FirstLink
    /\ kpc = "open" /\ mpc # "null" =>
        /\ mpc # "put" => StartUrl \in Known
        /\ DownloadsFound
        /\ LinksFound
        /\ mpc = "done" => Known \subseteq passedUrl

LEMMA AppendIn ==
    ASSUME NEW q \in Seq(Vertex), NEW v \in Vertex
    PROVE  UrlsIn(Append(q, v)) = UrlsIn(q) \cup {v.url}
<1>. DEFINE n == Len(q)
            r == Append(q, v)
<1>1. n \in Nat /\ Len(r) = n + 1 /\ r[n + 1] = v /\ \A i \in 1..n : r[i] = q[i]
  OBVIOUS
<1>2. UrlsIn(q) = {q[i].url : i \in 1..n} /\ UrlsIn(r) = {r[i].url : i \in 1..Len(r)}
  BY DEF UrlsIn
<1>. HIDE DEF n, r
<1>3. 1..(n + 1) = (1..n) \cup {n + 1}
  BY <1>1
<1>. QED BY <1>1, <1>2, <1>3 DEF r

LEMMA HeadIn ==
    ASSUME NEW q \in Seq(Vertex), q # <<>>
    PROVE  UrlsIn(q) = UrlsIn(Tail(q)) \cup {Head(q).url}
<1>. DEFINE n == Len(q)
            t == Tail(q)
<1>1. /\ n \in Nat \ {0} /\ Head(q) = q[1] /\ Len(t) = n - 1
      /\ \A i \in 1..(n - 1) : t[i] = q[i + 1]
  OBVIOUS
<1>2. UrlsIn(q) = {q[i].url : i \in 1..n} /\ UrlsIn(t) = {t[i].url : i \in 1..Len(t)}
  BY DEF UrlsIn
<1>. HIDE DEF n, t
<1>3. UrlsIn(t) = {q[i + 1].url : i \in 1..(n - 1)}
  <2>1. UrlsIn(t) = {t[i].url : i \in 1..(n - 1)}
    BY <1>1, <1>2
  <2>2. \A i \in 1..(n - 1) : t[i].url = q[i + 1].url
    BY <1>1
  <2>. QED BY <2>1, <2>2
<1>4. \A j \in 1..n : j = 1 \/ (j - 1 \in 1..(n - 1) /\ j = (j - 1) + 1)
  BY <1>1
<1>5. \A i \in 1..(n - 1) : i + 1 \in 1..n
  BY <1>1
<1>6. 1 \in 1..n
  BY <1>1
<1>7. ASSUME NEW u
      PROVE  u \in UrlsIn(q) <=> u \in UrlsIn(t) \cup {q[1].url}
  BY <1>2, <1>3, <1>4, <1>5, <1>6
<1>. QED BY <1>1, <1>7 DEF t

\* What a step does to the queue, and to what is found.
LEMMA KnownGrows ==
    ASSUME IsFiniteSet(Urls), MaxDepth >= Cardinality(Urls), TypeOK, DepthInv, LevelInv,
           [Next]_vars
    PROVE  Known \subseteq Known'
<1>. queue \in Seq(Vertex)
  BY DEF TypeOK
<1>1. CASE UNCHANGED <<queue, passedUrl>>
  BY <1>1 DEF Known
<1>2. ASSUME NEW v \in Vertex, queue' = Append(queue, v), passedUrl' = passedUrl
      PROVE  Known \subseteq Known'
  BY <1>2, AppendIn DEF Known
<1>3. CASE MainTake
  <2>1. queue # <<>> /\ queue' = Tail(queue)
    BY <1>3 DEF MainTake
  <2>2. UrlsIn(queue) = UrlsIn(queue') \cup {Head(queue).url}
    BY <2>1, HeadIn
  <2>3. passedUrl \subseteq passedUrl' /\ Head(queue).url \in passedUrl'
    <3>1. CASE Skipped(Head(queue))
      <4>1. Head(queue) \in Found
        BY <2>1, QueueOf DEF LevelInv
      <4>. QED BY <1>3, <3>1, <4>1, NothingCutOff DEF MainTake
    <3>2. CASE ~Skipped(Head(queue))
      BY <1>3, <3>2 DEF MainTake
    <3>. QED BY <3>1, <3>2
  <2>. QED BY <2>2, <2>3 DEF Known
<1>4. CASE MainPut
  BY <1>2, <1>4, StartIsVertex DEF MainPut
<1>5. ASSUME NEW d \in Downloaders, DStep(d)
      PROVE  Known \subseteq Known'
  <2>1. passedUrl' = passedUrl /\ dv[d] \in Vertex
    BY <1>5, DStepFrame DEF TypeOK
  <2>2. queue' = queue \/ queue' = Append(queue, dv[d])
    BY <1>5 DEF DStep, DTake, DDownload, DSubmit, DCount, DFinish, DWake, dataVars
  <2>. QED BY <1>1, <1>2, <2>1, <2>2
<1>6. ASSUME NEW e \in Extractors, EStep(e)
      PROVE  Known \subseteq Known'
  <2>1. passedUrl' = passedUrl /\ ev[e] \in Vertex
    BY <1>6, EStepFrame DEF TypeOK
  <2>2. CASE EPut(e)
    <3>1. LinkOf(e) \in Vertex
      <4>1. ETypeOK /\ ev[e] \in Parsed
        BY <2>2, TypeOKParts DEF EPut, DepthInv
      <4>2. LinkOf(e) \in Sound
        BY <2>2, <4>1, LinkIsSound DEF EPut
      <4>. QED BY <4>2 DEF Sound
    <3>2. queue' = queue \/ queue' = Append(queue, LinkOf(e))
      BY <2>2 DEF EPut
    <3>. QED BY <1>1, <1>2, <2>1, <3>1, <3>2
  <2>3. CASE ~EPut(e)
    <3>1. queue' = queue \/ queue' = Append(queue, ev[e])
      BY <1>6, <2>3 DEF EStep, ETake, EExtract, EAdd, EFinish, EWake, dataVars
    <3>. QED BY <1>1, <1>2, <2>1, <3>1
  <2>. QED BY <2>2, <2>3
<1>7. CASE MainCheckWork \/ MainCheckSize \/ MainCount \/ MainSubmit \/ MainInterrupted
           \/ InterruptMain \/ CloseDownload \/ CloseStep \/ UNCHANGED vars
  <2>1. UNCHANGED <<queue, passedUrl>>
    BY <1>7 DEF MainCheckWork, MainCheckSize, MainCount, MainSubmit, MainInterrupted,
                InterruptMain, CloseDownload, CloseStep, CloseExtract, StopDownload,
                StopExtract, dataVars, mainVars, vars
  <2>. QED BY <1>1, <2>1
<1>. QED BY <1>3, <1>4, <1>5, <1>6, <1>7 DEF Next, MainStep

LEMMA NextFirstLink == TypeOK /\ FirstLink /\ [Next]_vars => FirstLink'
<1>. SUFFICES ASSUME TypeOK, FirstLink, [Next]_vars PROVE FirstLink'
  OBVIOUS
<1>1. ASSUME NEW e \in Extractors, EStep(e)
      PROVE  FirstLink'
  <2>1. ETypeOK
    BY TypeOKParts
  <2>2. CASE EPut(e) \/ EAdd(e)
    BY <2>1, <2>2 DEF EPut, EAdd, FirstLink, ETypeOK
  <2>3. CASE ETake(e) \/ EExtract(e) \/ EFinish(e) \/ EWake(e)
    BY <2>1, <2>3 DEF ETake, EExtract, EFinish, EWake, FirstLink, ETypeOK
  <2>. QED BY <1>1, <2>2, <2>3 DEF EStep
<1>2. ASSUME NEW d \in Downloaders, DStep(d)
      PROVE  FirstLink'
  <2>1. UNCHANGED <<epc, ek>>
    BY <1>2 DEF DStep, DTake, DDownload, DSubmit, DCount, DFinish, DWake, exVars
  <2>. QED BY <2>1 DEF FirstLink
<1>3. CASE MainStep \/ InterruptMain \/ CloseDownload \/ CloseStep \/ UNCHANGED vars
  <2>1. UNCHANGED <<epc, ek>>
    BY <1>3 DEF MainStep, MainPut, MainCheckWork, MainCheckSize, MainTake, MainCount,
                MainSubmit, MainInterrupted, InterruptMain, CloseDownload, CloseStep,
                CloseExtract, StopDownload, StopExtract, exVars, vars
  <2>. QED BY <2>1 DEF FirstLink
<1>. QED BY <1>1, <1>2, <1>3 DEF Next

\* The links put so far are known, and when all are put the page is listed.
LEMMA EStepFound ==
    ASSUME TypeOK, DepthInv, NEW e \in Extractors, EStep(e), Known \subseteq Known', FirstLink,
           DownloadsFound, LinksFound, ~eint[e]
    PROVE  DownloadsFound' /\ LinksFound'
<1>. ETypeOK
  BY TypeOKParts
<1>0. UNCHANGED <<passedUrl>> /\ queue \in Seq(Vertex) /\ downloads \in Seq(Urls)
  BY EStepFrame DEF TypeOK
<1>1. CASE EPut(e)
  <2>1. /\ ev[e] \in Parsed /\ epc[e] = "links"
        /\ ev' = ev /\ epc' = epc /\ downloads' = downloads
        /\ queue' = Append(queue, LinkOf(e))
        /\ ek' = [ek EXCEPT ![e] = @ + 1]
    BY <1>1 DEF EPut, DepthInv
  <2>2. /\ LinkOf(e) \in Vertex
        /\ LinkOf(e).url = Links[ev[e].url][ek[e]]
    BY <1>1, <2>1, LinkIsSound DEF EPut, Sound
  <2>3. Links[ev[e].url][ek[e]] \in Known'
    BY <1>0, <2>1, <2>2, AppendIn DEF Known
  <2>4. ASSUME NEW x \in Extractors, epc'[x] = "links", NEW j \in 1..(ek'[x] - 1)
        PROVE  Links[ev'[x].url][j] \in Known'
    <3>1. ek \in [Extractors -> Nat \ {0}]
      BY DEF ETypeOK
    <3>2. j \in 1..(ek[x] - 1) \/ (x = e /\ j = ek[e])
      BY <2>1, <2>4, <3>1
    <3>. QED BY <2>1, <2>3, <2>4, <3>2 DEF LinksFound
  <2>. QED BY <2>1, <2>4 DEF LinksFound, DownloadsFound
<1>2. CASE EAdd(e)
  <2>1. /\ epc[e] = "links" /\ ev[e] \in Vertex
        /\ ek[e] \in Nat /\ ek[e] > Len(Links[ev[e].url])
        /\ ev' = ev /\ downloads' = Append(downloads, ev[e].url)
        /\ \A x \in Extractors : epc'[x] = "links" => epc[x] = "links" /\ ek'[x] = ek[x]
    BY <1>2 DEF EAdd, ETypeOK
  <2>2. ToSet(Links[ev[e].url]) \subseteq Known'
    <3>1. Links[ev[e].url] \in Seq(Urls)
      BY <2>1, VertexParts, UrlsAssumption
    <3>2. \A j \in DOMAIN Links[ev[e].url] : j \in 1..(ek[e] - 1)
      BY <2>1, <3>1
    <3>. QED BY <2>1, <3>2 DEF LinksFound, ToSet
  <2>3. \A u \in ToSet(downloads') : u \in ToSet(downloads) \/ u = ev[e].url
    <3>1. ev[e].url \in Urls
      BY <2>1, VertexParts
    <3>. QED BY <1>0, <2>1, <3>1 DEF ToSet
  <2>4. DownloadsFound'
    BY <2>2, <2>3 DEF DownloadsFound
  <2>. QED BY <2>1, <2>4 DEF LinksFound
<1>3. CASE EExtract(e)
  <2>1. /\ ev' = ev /\ ek' = ek /\ downloads' = downloads /\ epc[e] = "extract"
        /\ \A x \in Extractors : epc'[x] = "links" => epc[x] = "links" \/ x = e
    BY <1>3 DEF EExtract, ETypeOK
  <2>2. ek[e] = 1
    BY <2>1 DEF FirstLink
  <2>. QED BY <2>1, <2>2 DEF LinksFound, DownloadsFound
<1>4. CASE ETake(e) \/ EFinish(e) \/ EWake(e)
  <2>1. /\ ek' = ek /\ downloads' = downloads
        /\ \A x \in Extractors : epc'[x] = "links" => epc[x] = "links" /\ ev'[x] = ev[x]
    BY <1>4 DEF ETake, EFinish, EWake, ETypeOK, dataVars
  <2>. QED BY <2>1 DEF LinksFound, DownloadsFound
<1>. QED BY <1>1, <1>2, <1>3, <1>4 DEF EStep

\* The other steps list no page and follow no link.
LEMMA OthersFound ==
    ASSUME Known \subseteq Known', DownloadsFound, LinksFound,
           UNCHANGED <<downloads, epc, ev, ek>>
    PROVE  DownloadsFound' /\ LinksFound'
BY DEF DownloadsFound, LinksFound

LEMMA MainStepKeeps ==
    ASSUME MainStep \/ InterruptMain \/ CloseDownload \/ CloseStep \/ UNCHANGED vars
    PROVE  UNCHANGED <<downloads, epc, ev, ek>>
BY DEF MainStep, MainPut, MainCheckWork, MainCheckSize, MainTake, MainCount, MainSubmit,
       MainInterrupted, InterruptMain, CloseDownload, CloseStep, CloseExtract, StopDownload,
       StopExtract, dataVars, exVars, vars

\* After main has returned only pages that were visited are put in the queue.
LEMMA DoneStays ==
    ASSUME TypeOK, LevelInv, QuietWhenSeen, mpc = "done", Known \subseteq passedUrl,
           kpc = "open", [Next]_vars
    PROVE  Known' \subseteq passedUrl'
<1>. queue \in Seq(Vertex) /\ Quiet
  BY DEF TypeOK, QuietWhenSeen
<1>1. CASE UNCHANGED <<queue, passedUrl>>
  BY <1>1 DEF Known
<1>2. ASSUME NEW v \in Visited, queue' = Append(queue, v), passedUrl' = passedUrl
      PROVE  Known' \subseteq passedUrl'
  BY <1>2, AppendIn DEF Known, Visited
<1>3. ASSUME NEW d \in Downloaders, DStep(d)
      PROVE  Known' \subseteq passedUrl'
  <2>1. passedUrl' = passedUrl
    BY <1>3, DStepFrame
  <2>2. queue' = queue \/ (queue' = Append(queue, dv[d]) /\ dpc[d] # "idle")
    BY <1>3 DEF DStep, DTake, DDownload, DSubmit, DCount, DFinish, DWake, dataVars
  <2>. QED BY <1>1, <1>2, <2>1, <2>2 DEF LevelInv
<1>4. ASSUME NEW e \in Extractors, EStep(e)
      PROVE  Known' \subseteq passedUrl'
  <2>1. passedUrl' = passedUrl
    BY <1>4, EStepFrame
  <2>2. ~EPut(e)
    BY DEF Quiet, EPut
  <2>3. queue' = queue \/ (queue' = Append(queue, ev[e]) /\ epc[e] # "idle")
    BY <1>4, <2>2 DEF EStep, ETake, EExtract, EAdd, EFinish, EWake, dataVars
  <2>. QED BY <1>1, <1>2, <2>1, <2>3 DEF LevelInv
<1>5. CASE InterruptMain \/ CloseDownload \/ CloseStep \/ UNCHANGED vars
  <2>1. UNCHANGED <<queue, passedUrl>>
    BY <1>5 DEF InterruptMain, CloseDownload, CloseStep, CloseExtract, StopDownload,
                StopExtract, dataVars, mainVars, vars
  <2>. QED BY <1>1, <2>1
<1>6. ~MainStep
  BY DEF MainStep, MainPut, MainCheckWork, MainCheckSize, MainTake, MainCount, MainSubmit,
         MainInterrupted
<1>. QED BY <1>3, <1>4, <1>5, <1>6 DEF Next

LEMMA OpenBefore == [Next]_vars /\ kpc' = "open" => kpc = "open"
<1>. SUFFICES ASSUME [Next]_vars, kpc' = "open" PROVE kpc = "open"
  OBVIOUS
<1>1. CASE MainStep \/ InterruptMain \/ UNCHANGED vars
  BY <1>1 DEF MainStep, MainPut, MainCheckWork, MainCheckSize, MainTake, MainCount,
              MainSubmit, MainInterrupted, InterruptMain, vars
<1>2. ASSUME NEW d \in Downloaders, DStep(d)
      PROVE  kpc = "open"
  BY <1>2 DEF DStep, DTake, DDownload, DSubmit, DCount, DFinish, DWake
<1>3. ASSUME NEW e \in Extractors, EStep(e)
      PROVE  kpc = "open"
  BY <1>3 DEF EStep, ETake, EExtract, EPut, EAdd, EFinish, EWake
<1>4. CASE CloseDownload \/ CloseStep
  BY <1>4 DEF CloseDownload, CloseStep, CloseExtract, StopDownload, StopExtract
<1>. QED BY <1>1, <1>2, <1>3, <1>4 DEF Next

LEMMA NextWholeInv ==
    ASSUME IsFiniteSet(Urls), MaxDepth >= Cardinality(Urls)
    PROVE  TypeOK /\ DepthInv /\ LevelInv /\ ReportInv /\ QuietWhenSeen /\ WholeInv
                /\ [Next]_vars => WholeInv'
<1>. SUFFICES ASSUME TypeOK, DepthInv, LevelInv, ReportInv, QuietWhenSeen, WholeInv,
                     [Next]_vars
              PROVE  WholeInv'
  OBVIOUS
<1>1. FirstLink /\ FirstLink'
  BY NextFirstLink DEF WholeInv
<1>. SUFFICES ASSUME kpc' = "open", mpc' # "null"
              PROVE  /\ mpc' # "put" => StartUrl \in Known'
                     /\ DownloadsFound'
                     /\ LinksFound'
                     /\ mpc' = "done" => Known' \subseteq passedUrl'
  BY <1>1 DEF WholeInv
<1>2. Known \subseteq Known'
  BY KnownGrows
<1>3. kpc = "open" /\ Calm
  BY OpenBefore DEF ReportInv
<1>4. \A d \in Downloaders : DStep(d) => mpc' = mpc
  BY DStepFrame
<1>5. \A e \in Extractors : EStep(e) => mpc' = mpc
  BY EStepFrame
<1>6. \/ mpc' = mpc
      \/ MainStep
  BY <1>4, <1>5 DEF Next, vars, InterruptMain, CloseDownload, CloseStep, CloseExtract,
                    StopDownload, StopExtract, mainVars
<1>7. mpc # "null" /\ (mpc = "put" => mpc' = "put" \/ MainPut)
      /\ (mpc' = "done" => mpc = "done" \/ MainCheckSize)
  <2>1. CASE mpc' = mpc
    BY <2>1
  <2>2. CASE MainStep
    BY <2>2 DEF MainStep, MainPut, MainCheckWork, MainCheckSize, MainTake, MainCount,
                MainSubmit, MainInterrupted
  <2>. QED BY <1>6, <2>1, <2>2
<1>8. /\ mpc # "put" => StartUrl \in Known
      /\ DownloadsFound
      /\ LinksFound
      /\ mpc = "done" => Known \subseteq passedUrl
  BY <1>3, <1>7 DEF WholeInv
<1>9. ASSUME mpc' # "put"
      PROVE  StartUrl \in Known'
  <2>1. CASE MainPut
    <3>1. queue' = Append(queue, Start) /\ queue \in Seq(Vertex)
      BY <2>1 DEF MainPut, TypeOK
    <3>. QED BY <3>1, AppendIn, StartIsVertex DEF Known, Start
  <2>. QED BY <1>2, <1>7, <1>8, <1>9, <2>1
<1>10. DownloadsFound' /\ LinksFound'
  <2>1. ASSUME NEW d \in Downloaders, DStep(d)
        PROVE  UNCHANGED <<downloads, epc, ev, ek>>
    BY <2>1 DEF DStep, DTake, DDownload, DSubmit, DCount, DFinish, DWake, dataVars, exVars
  <2>2. ASSUME NEW e \in Extractors, EStep(e)
        PROVE  DownloadsFound' /\ LinksFound'
    BY <1>1, <1>2, <1>3, <1>8, <2>2, EStepFound DEF Calm
  <2>3. CASE MainStep \/ InterruptMain \/ CloseDownload \/ CloseStep \/ UNCHANGED vars
    BY <1>2, <1>8, <2>3, MainStepKeeps, OthersFound
  <2>. QED BY <1>2, <1>8, <2>1, <2>2, <2>3, OthersFound DEF Next
<1>11. ASSUME mpc' = "done"
       PROVE  Known' \subseteq passedUrl'
  <2>1. CASE mpc = "done"
    BY <1>3, <1>8, <2>1, DoneStays
  <2>2. CASE mpc # "done"
    <3>1. queue' = <<>>
      BY <1>7, <1>11, <2>2 DEF MainCheckSize, dataVars
    <3>. QED BY <3>1 DEF Known, UrlsIn
  <2>. QED BY <2>1, <2>2
<1>. QED BY <1>9, <1>10, <1>11

\* A level is visited when the start is and, with a page that could be read,
\* the pages it links to.
LEMMA LevelsVisited ==
    ASSUME NEW P, StartUrl \in P,
           \A u \in P : Outcome[u] = "ok" => ToSet(Links[u]) \subseteq P
    PROVE  Levels[MaxDepth] \subseteq P
<1>. DEFINE S == {k \in Nat : k <= MaxDepth => Levels[k] \subseteq P}
<1>. MaxDepth \in Nat
  BY UrlsAssumption
<1>1. 0 \in S
  <2>1. Levels[0] = {}
    BY LevelsEquation DEF Level
  <2>. QED BY <2>1
<1>2. ASSUME NEW k \in Nat, k \in S
      PROVE  k + 1 \in S
  <2>. SUFFICES ASSUME k + 1 <= MaxDepth
                PROVE  Levels[k + 1] \subseteq P
    OBVIOUS
  <2>1. Levels[k] \subseteq P
    BY <1>2
  <2>2. NextLevel(Levels[k]) \subseteq P
    BY <2>1 DEF NextLevel
  <2>3. Levels[k + 1] = {StartUrl} \cup NextLevel(Levels[k])
    BY LevelsEquation DEF Level
  <2>. QED BY <2>2, <2>3
<1>. HIDE DEF S
<1>3. MaxDepth \in S
  BY <1>1, <1>2, Induction
<1>. QED BY <1>3 DEF S

\* Every page that can be reached is visited, whichever way the threads find
\* to it first, provided that the depth is at least the number of pages and
\* that this number is finite.
THEOREM WholeWebIsVisited ==
    ASSUME IsFiniteSet(Urls)
    PROVE  Spec => []WholeWeb
<1>1. CASE ~(MaxDepth >= Cardinality(Urls))
  <2>1. WholeWeb
    BY <1>1 DEF WholeWeb
  <2>. QED BY <2>1, PTL
<1>2. CASE MaxDepth >= Cardinality(Urls)
  <2>1. Init => WholeInv
    BY DEF Init, WholeInv, FirstLink, DownloadsFound, LinksFound, ToSet
  <2>2. Init => QuietWhenSeen
    BY DEF Init, QuietWhenSeen
  <2>3. ASSUME WholeInv, ResultReports, WithinDepth, mpc = "done", kpc = "open"
        PROVE  passedUrl = Levels[MaxDepth]
    <3>1. StartUrl \in passedUrl /\ DownloadsFound /\ Known \subseteq passedUrl
      BY <2>3 DEF WholeInv
    <3>2. \A u \in passedUrl : Outcome[u] = "ok" => ToSet(Links[u]) \subseteq passedUrl
      BY <2>3, <3>1 DEF ResultReports, DownloadsFound
    <3>. QED BY <2>3, <3>1, <3>2, LevelsVisited DEF WithinDepth
  <2>4. WholeInv /\ ResultReports /\ WithinDepth => WholeWeb
    BY <2>3 DEF WholeWeb, WholeDepth
  <2>5. TypeOK /\ DepthInv /\ LevelInv /\ [Next]_vars => LevelInv'
    BY NextLevelInv
  <2>6. TypeOK /\ DepthInv /\ LevelInv /\ ReportInv /\ QuietWhenSeen /\ WholeInv
          /\ [Next]_vars => WholeInv'
    BY <1>2, NextWholeInv
  <2>. QED
    BY <2>1, <2>2, <2>4, <2>5, <2>6, TypeCorrect, WorkNeverUnderestimates, NextQuiet,
       InitDepthInv, NextDepthInv, InitLevelInv, InitReportInv, NextReportInv,
       ResultIsReport, NothingTooDeep, PTL DEF Spec
<1>. QED BY <1>1, <1>2
=============================================================================
