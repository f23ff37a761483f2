---------------------- MODULE HelloUDPNonblockingProofs ----------------------
(***************************************************************************)
(* Theorems about HelloUDPNonblocking, for every number of channels and    *)
(* requests, every size of an answer and any number of faults and of calls *)
(* of start() and close().                                                 *)
(***************************************************************************)
EXTENDS HelloUDPNonblocking, FiniteSetTheorems, WellFoundedInduction, TLAPS

-----------------------------------------------------------------------------
(* Bags.                                                                   *)

LEMMA PutIn ==
    ASSUME NEW bag, IsABag(bag), NEW m
    PROVE  IsABag(Put(bag, m)) /\ BagToSet(Put(bag, m)) = BagToSet(bag) \cup {m}
<1>. DEFINE one == SetToBag({m})
<1>1. DOMAIN one = {m} /\ \A e \in DOMAIN one : one[e] = 1
  BY DEF SetToBag
<1>2. Put(bag, m) = [e \in DOMAIN bag \cup DOMAIN one |->
                        (IF e \in DOMAIN bag THEN bag[e] ELSE 0)
                        + (IF e \in DOMAIN one THEN one[e] ELSE 0)]
  BY DEF Put, (+)
<1>. HIDE DEF one
<1>3. \A e \in DOMAIN bag : bag[e] \in Nat /\ bag[e] > 0
  BY DEF IsABag
<1>4. DOMAIN Put(bag, m) = DOMAIN bag \cup {m}
  BY <1>1, <1>2
<1>5. \A e \in DOMAIN Put(bag, m) : Put(bag, m)[e] \in {n \in Nat : n > 0}
  <2>. SUFFICES ASSUME NEW e \in DOMAIN bag \cup DOMAIN one
                PROVE  Put(bag, m)[e] \in {n \in Nat : n > 0}
    BY <1>1, <1>4
  <2>1. Put(bag, m)[e] = (IF e \in DOMAIN bag THEN bag[e] ELSE 0)
                         + (IF e \in DOMAIN one THEN one[e] ELSE 0)
    BY <1>2
  <2>. QED BY <2>1, <1>1, <1>3
<1>6. Put(bag, m) = [e \in DOMAIN Put(bag, m) |-> Put(bag, m)[e]]
  BY <1>2, <1>4, <1>1
<1>. QED BY <1>4, <1>5, <1>6 DEF IsABag, BagToSet

LEMMA TakeOut ==
    ASSUME NEW bag, IsABag(bag), NEW m
    PROVE  /\ IsABag(bag (-) SetToBag({m}))
           /\ BagToSet(bag (-) SetToBag({m})) \subseteq BagToSet(bag)
<1>. DEFINE one == SetToBag({m})
            less == [e \in DOMAIN bag |-> IF e \in DOMAIN one THEN bag[e] - one[e] ELSE bag[e]]
            rest == bag (-) one
<1>1. one = [e \in {m} |-> 1]
  BY DEF SetToBag
<1>2. rest = [e \in {d \in DOMAIN less : less[d] > 0} |-> less[e]]
  BY DEF (-)
<1>3. \A e \in DOMAIN bag : bag[e] \in Nat /\ bag[e] > 0
  BY DEF IsABag
<1>4. DOMAIN less = DOMAIN bag /\ \A e \in DOMAIN bag : less[e] \in Int
  BY <1>1, <1>3
<1>. HIDE DEF less, rest
<1>5. DOMAIN rest \subseteq DOMAIN bag /\ \A e \in DOMAIN rest : rest[e] \in {n \in Nat : n > 0}
  BY <1>2, <1>4
<1>6. rest = [e \in DOMAIN rest |-> rest[e]]
  BY <1>2
<1>7. IsABag(rest)
  BY <1>5, <1>6 DEF IsABag
<1>. QED BY <1>5, <1>7 DEF rest, BagToSet

LEMMA PartOf ==
    ASSUME NEW bag, IsABag(bag), NEW part \in Parts(bag)
    PROVE  IsABag(part) /\ BagToSet(part) \subseteq BagToSet(bag)
<1>1. PICK S \in SUBSET DOMAIN bag : part \in [S -> UNION {1..bag[m] : m \in S}]
  BY DEF Parts, BagToSet
<1>2. \A m \in S : bag[m] \in Nat
  BY DEF IsABag
<1>3. UNION {1..bag[m] : m \in S} \subseteq {n \in Nat : n > 0}
  BY <1>2
<1>. QED BY <1>1, <1>3 DEF IsABag, BagToSet

-----------------------------------------------------------------------------
(* Types. The bound on workerClose needs that it is the number of the      *)
(* channels that are closed.                                               *)

Shut == {t \in Numbers : ~open[t]}

TypeInv == TypeOK /\ workerClose = Cardinality(Shut)

LEMMA NetTypes ==
    ASSUME NetTypeOK
    PROVE  /\ Lose => NetTypeOK'
           /\ \A b \in Bodies : up' = Put(up, b) /\ UNCHANGED <<down, faults>> => NetTypeOK'
           /\ \A late \in Parts(up) : up' = late /\ UNCHANGED <<down, faults>> => NetTypeOK'
           /\ Fault => faults' \in 0..MaxFaults
           /\ \A m : Arrives(up, m, up') => /\ IsABag(up)' /\ BagToSet(up') \subseteq Bodies
                                            /\ faults' \in 0..MaxFaults
           /\ \A m : Arrives(down, m, down') => /\ IsABag(down)'
                                                /\ BagToSet(down') \subseteq BagToSet(down)
                                                /\ faults' \in 0..MaxFaults
<1>1. Fault => faults' \in 0..MaxFaults
  BY ConnectedAssumption DEF Fault, NetTypeOK
<1>2. Lose => NetTypeOK'
  <2>. SUFFICES ASSUME Lose PROVE NetTypeOK'
    OBVIOUS
  <2>1. CASE \E m \in BagToSet(up) : up' = up (-) SetToBag({m}) /\ UNCHANGED down
    <3>. PICK m : up' = up (-) SetToBag({m})
      BY <2>1
    <3>1. IsABag(up (-) SetToBag({m})) /\ BagToSet(up (-) SetToBag({m})) \subseteq BagToSet(up)
      BY TakeOut DEF NetTypeOK
    <3>2. down' = down /\ faults' \in 0..MaxFaults
      BY <1>1, <2>1 DEF Lose
    <3>. QED BY <3>1, <3>2 DEF NetTypeOK
  <2>2. CASE \E m \in BagToSet(down) : down' = down (-) SetToBag({m}) /\ UNCHANGED up
    <3>. PICK m : down' = down (-) SetToBag({m})
      BY <2>2
    <3>1. IsABag(down (-) SetToBag({m})) /\ BagToSet(down (-) SetToBag({m})) \subseteq BagToSet(down)
      BY TakeOut DEF NetTypeOK
    <3>2. up' = up /\ faults' \in 0..MaxFaults
      BY <1>1, <2>2 DEF Lose
    <3>. QED BY <3>1, <3>2 DEF NetTypeOK
  <2>. QED BY <2>1, <2>2 DEF Lose
<1>3. \A b \in Bodies : up' = Put(up, b) /\ UNCHANGED <<down, faults>> => NetTypeOK'
  BY PutIn DEF NetTypeOK
<1>4. \A late \in Parts(up) : up' = late /\ UNCHANGED <<down, faults>> => NetTypeOK'
  BY PartOf DEF NetTypeOK
<1>5. \A m : Arrives(up, m, up') => /\ IsABag(up)' /\ BagToSet(up') \subseteq Bodies
                                    /\ faults' \in 0..MaxFaults
  <2>. SUFFICES ASSUME NEW m, Arrives(up, m, up')
                PROVE  /\ IsABag(up') /\ BagToSet(up') \subseteq BagToSet(up)
                       /\ faults' \in 0..MaxFaults
    BY DEF NetTypeOK
  <2>1. CASE up' = up (-) SetToBag({m}) /\ UNCHANGED faults
    BY <2>1, TakeOut DEF NetTypeOK
  <2>2. CASE up' = up /\ Fault
    BY <1>1, <2>2 DEF NetTypeOK
  <2>. QED BY <2>1, <2>2 DEF Arrives
<1>6. \A m : Arrives(down, m, down') => /\ IsABag(down)'
                                        /\ BagToSet(down') \subseteq BagToSet(down)
                                        /\ faults' \in 0..MaxFaults
  <2>. SUFFICES ASSUME NEW m, Arrives(down, m, down')
                PROVE  /\ IsABag(down') /\ BagToSet(down') \subseteq BagToSet(down)
                       /\ faults' \in 0..MaxFaults
    BY DEF NetTypeOK
  <2>1. CASE down' = down (-) SetToBag({m}) /\ UNCHANGED faults
    BY <2>1, TakeOut DEF NetTypeOK
  <2>2. CASE down' = down /\ Fault
    BY <1>1, <2>2 DEF NetTypeOK
  <2>. QED BY <2>1, <2>2 DEF Arrives
<1>. QED BY <1>1, <1>2, <1>3, <1>4, <1>5, <1>6

LEMMA ShutFinite == IsFiniteSet(Numbers) /\ Cardinality(Numbers) = Threads
<1>1. Numbers = 0..Threads - 1
  BY DEF Numbers
<1>. QED BY <1>1, ConnectedAssumption, FS_Interval

LEMMA ClientTypes ==
    ASSUME TypeInv, NEW t \in Numbers, NEW serves \in BOOLEAN, KeyStep(t, serves)
    PROVE  NetTypeOK' /\ ClientTypeOK' /\ workerClose' = Cardinality(Shut')
<1>1. CASE Read(t)
  <2>1. PICK text \in BagToSet(down) :
            /\ Arrives(down, text, down')
            /\ iteration' = [iteration EXCEPT ![t] = IF Accepts(t, text) THEN @ + 1 ELSE @]
    BY <1>1 DEF Read
  <2>2. NetTypeOK'
    <3>1. /\ IsABag(down)' /\ BagToSet(down') \subseteq BagToSet(down)
          /\ faults' \in 0..MaxFaults
      BY <2>1, NetTypes DEF TypeInv, TypeOK
    <3>. QED BY <1>1, <3>1 DEF Read, TypeInv, TypeOK, NetTypeOK
  <2>3. (IF Accepts(t, text) THEN iteration[t] + 1 ELSE iteration[t]) \in 0..Requests
    <3>1. CASE Accepts(t, text)
      <4>1. text \in Seq(Bodies) /\ text = <<<<t, iteration[t]>>>>
        BY <3>1 DEF Accepts, TypeInv, TypeOK, NetTypeOK
      <4>2. text[1] \in Bodies
        BY <4>1
      <4>3. iteration[t] \in 0..Requests - 1
        BY <4>1, <4>2 DEF Bodies
      <4>. QED BY <3>1, <4>3, ConnectedAssumption
    <3>2. CASE ~Accepts(t, text)
      BY <3>2 DEF TypeInv, TypeOK, ClientTypeOK
    <3>. QED BY <3>1, <3>2
  <2>4. ClientTypeOK' /\ UNCHANGED <<open, workerClose>>
    <3>1. iteration' \in [Numbers -> 0..Requests]
      BY <2>1, <2>3 DEF TypeInv, TypeOK, ClientTypeOK
    <3>2. interest' \in [Numbers -> {"both", "read", "write"}]
      BY <1>1 DEF Read, TypeInv, TypeOK, ClientTypeOK
    <3>. QED BY <1>1, <3>1, <3>2 DEF Read, TypeInv, TypeOK, ClientTypeOK
  <2>. QED BY <2>2, <2>4 DEF Shut, TypeInv
<1>2. CASE Write(t, serves)
  <2>1. NetTypeOK'
    <3>1. iteration[t] \in 0..Requests /\ ~(iteration[t] >= Requests)
      BY <1>2 DEF Write, IsEnd, TypeInv, TypeOK, ClientTypeOK
    <3>2. <<t, iteration[t]>> \in Bodies
      BY <3>1, ConnectedAssumption DEF Bodies
    <3>3. CASE serves
      BY <1>2, <3>2, <3>3, NetTypes DEF Write, TypeInv, TypeOK
    <3>4. CASE ~serves
      BY <1>2, <3>4 DEF Write, TypeInv, TypeOK, NetTypeOK
    <3>. QED BY <3>3, <3>4
  <2>2. ClientTypeOK' /\ UNCHANGED <<open, workerClose>>
    BY <1>2 DEF Write, TypeInv, TypeOK, ClientTypeOK
  <2>. QED BY <2>1, <2>2 DEF Shut, TypeInv
<1>3. CASE Finish(t)
  <2>1. Shut' = Shut \cup {t} /\ t \notin Shut /\ open' \in [Numbers -> BOOLEAN]
    BY <1>3 DEF Finish, Shut, TypeInv, TypeOK, ClientTypeOK
  <2>2. IsFiniteSet(Shut) /\ IsFiniteSet(Shut')
    BY ShutFinite, FS_Subset DEF Shut
  <2>3. workerClose' = Cardinality(Shut')
    BY <1>3, <2>1, <2>2, FS_AddElement DEF Finish, TypeInv
  <2>4. Cardinality(Shut') <= Threads /\ Cardinality(Shut') \in Nat
    BY <2>2, ShutFinite, FS_Subset, FS_CardinalityType DEF Shut
  <2>5. workerClose' \in 0..Threads
    BY <2>3, <2>4, ConnectedAssumption
  <2>6. NetTypeOK'
    BY <1>3 DEF Finish, netVars, TypeInv, TypeOK, NetTypeOK
  <2>7. ClientTypeOK'
    BY <1>3, <2>1, <2>5 DEF Finish, TypeInv, TypeOK, ClientTypeOK
  <2>. QED BY <2>3, <2>6, <2>7
<1>. QED BY <1>1, <1>2, <1>3 DEF KeyStep

LEMMA RunTypes ==
    ASSUME TypeInv, NEW nothing \in BOOLEAN, LoopStep(nothing)
    PROVE  NetTypeOK' /\ ClientTypeOK' /\ workerClose' = Cardinality(Shut')
<1>1. CASE TimeOut(nothing)
  <2>1. NetTypeOK'
    BY <1>1, NetTypes DEF TimeOut, TypeInv, TypeOK, NetTypeOK
  <2>2. interest' \in [Numbers -> {"both", "read", "write"}]
    BY <1>1 DEF TimeOut, TypeInv, TypeOK, ClientTypeOK
  <2>. QED BY <1>1, <2>1, <2>2 DEF TimeOut, Shut, TypeInv, TypeOK, ClientTypeOK
<1>2. CASE Return
  BY <1>2 DEF Return, netVars, Shut, TypeInv, TypeOK, NetTypeOK, ClientTypeOK
<1>. QED BY <1>1, <1>2 DEF LoopStep

LEMMA LoopTypes ==
    ASSUME TypeOK, NEW l \in Loops, ServerLoop(l) \/ SelectFails(l)
    PROVE  NetTypeOK' /\ ServerTypeOK'
<1>1. CASE CheckClose(l) \/ SelectNothing(l) \/ ResetStart(l) \/ ResetClose(l)
  <2>1. NetTypeOK'
    BY <1>1 DEF CheckClose, SelectNothing, ResetStart, ResetClose, netVars, TypeOK, NetTypeOK
  <2>2. lpc' \in [Loops -> {"new", "check", "select", "endStart", "endClose", "dead"}]
    BY <1>1 DEF CheckClose, SelectNothing, ResetStart, ResetClose, LoopGoto, TypeOK, ServerTypeOK
  <2>3. startFlag' \in BOOLEAN /\ isClose' \in BOOLEAN
    BY <1>1 DEF CheckClose, SelectNothing, ResetStart, ResetClose, flagVars, TypeOK, ServerTypeOK
  <2>4. UNCHANGED <<buffer, executor, ownerVars, regular, answered>>
    BY <1>1 DEF CheckClose, SelectNothing, ResetStart, ResetClose
  <2>. QED BY <2>1, <2>2, <2>3, <2>4 DEF ownerVars, TypeOK, ServerTypeOK
<1>2. CASE SelectFails(l)
  <2>1. NetTypeOK'
    BY <1>2, NetTypes DEF SelectFails, TypeOK, NetTypeOK
  <2>2. lpc' \in [Loops -> {"new", "check", "select", "endStart", "endClose", "dead"}]
    BY <1>2 DEF SelectFails, LoopGoto, TypeOK, ServerTypeOK
  <2>. QED BY <1>2, <2>1, <2>2 DEF SelectFails, flagVars, ownerVars, TypeOK, ServerTypeOK
<1>3. CASE SelectRequest(l)
  <2>1. PICK b \in BagToSet(up) :
            LET text == Append(buffer, b) IN
            \/ Arrives(up, b, up') /\ AnswerSent(text)
            \/ Len(text) <= Fits /\ Fault /\ up' = up (-) SetToBag({b}) /\ AnswerFails(text)
            \/ Len(text) > Fits /\ Arrives(up, b, up') /\ AnswerFails(text)
    BY <1>3 DEF SelectRequest
  <2>. DEFINE text == Append(buffer, b)
  <2>2. /\ b \in Bodies /\ buffer \in Seq(Bodies) /\ Fits \in Nat
        /\ Len(buffer) <= Fits + 1
    BY NonblockingAssumption DEF TypeOK, NetTypeOK, ServerTypeOK
  <2>3. text \in Seq(Bodies) /\ text # <<>> /\ Len(text) = Len(buffer) + 1 /\ Len(text) \in Nat
    BY <2>2
  <2>4. /\ IsABag(up') /\ BagToSet(up') \subseteq Bodies
        /\ faults' \in 0..MaxFaults
        /\ AnswerSent(text) \/ AnswerFails(text)
    <3>1. CASE Arrives(up, b, up') /\ (AnswerSent(text) \/ AnswerFails(text))
      BY <3>1, NetTypes DEF TypeOK
    <3>2. CASE Fault /\ up' = up (-) SetToBag({b}) /\ AnswerFails(text)
      <4>1. IsABag(up') /\ BagToSet(up') \subseteq BagToSet(up)
        BY <3>2, TakeOut DEF TypeOK, NetTypeOK
      <4>. QED BY <3>2, <4>1, NetTypes DEF TypeOK, NetTypeOK
    <3>. QED BY <2>1, <3>1, <3>2
  <2>. HIDE DEF text
  <2>5. CASE AnswerSent(text)
    <3>1. IsABag(down') /\ BagToSet(down') \subseteq Seq(Bodies) \ {<<>>}
      BY <2>3, <2>5, PutIn DEF AnswerSent, TypeOK, NetTypeOK
    <3>2. buffer' \in Seq(Bodies) /\ Len(buffer') <= Fits + 1
      BY <2>2, <2>5 DEF AnswerSent
    <3>3. answered' \subseteq Bodies
      BY <2>3, <2>5 DEF AnswerSent, TypeOK, ServerTypeOK
    <3>4. lpc' \in [Loops -> {"new", "check", "select", "endStart", "endClose", "dead"}]
      BY <1>3 DEF SelectRequest, LoopGoto, TypeOK, ServerTypeOK
    <3>. QED BY <1>3, <2>4, <3>1, <3>2, <3>3, <3>4
             DEF SelectRequest, flagVars, ownerVars, TypeOK, NetTypeOK, ServerTypeOK
  <2>6. CASE AnswerFails(text)
    <3>1. Kept(text) \in Seq(Bodies) /\ Len(Kept(text)) <= Fits + 1
      <4>1. CASE Len(text) > Fits + 1
        <5>1. Kept(text) = SubSeq(text, 1, Fits + 1)
          BY <4>1 DEF Kept
        <5>2. \A i \in 1..Fits + 1 : text[i] \in Bodies
          BY <2>2, <2>3, <4>1
        <5>. QED BY <5>1, <5>2, <2>2, <2>3, <4>1
      <4>2. CASE ~(Len(text) > Fits + 1)
        BY <2>2, <2>3, <4>2 DEF Kept
      <4>. QED BY <4>1, <4>2
    <3>2. lpc' \in [Loops -> {"new", "check", "select", "endStart", "endClose", "dead"}]
      BY <1>3 DEF SelectRequest, LoopGoto, TypeOK, ServerTypeOK
    <3>3. UNCHANGED <<down, answered>> /\ buffer' = Kept(text)
      BY <2>6 DEF AnswerFails
    <3>. QED BY <1>3, <2>4, <3>1, <3>2, <3>3
             DEF SelectRequest, flagVars, ownerVars, TypeOK, NetTypeOK, ServerTypeOK
  <2>. QED BY <2>4, <2>5, <2>6
<1>. QED BY <1>1, <1>2, <1>3 DEF ServerLoop

LEMMA OwnerTypes ==
    ASSUME TypeOK, OwnerCalls \/ OwnerGoesOn
    PROVE  NetTypeOK' /\ ServerTypeOK'
<1>. USE NonblockingAssumption
<1>1. CASE Start
  BY <1>1 DEF Start, netVars, TypeOK, NetTypeOK, ServerTypeOK
<1>2. CASE OpenFails
  BY <1>2, NetTypes DEF OpenFails, flagVars, TypeOK, NetTypeOK, ServerTypeOK
<1>3. CASE Close
  <2>1. regular' \in BOOLEAN
    BY <1>3 DEF Close
  <2>2. NetTypeOK' /\ closes' \in 0..MaxCloses /\ opc' \in {"idle", "open", "submit", "await"}
    BY <1>3 DEF Close, netVars, TypeOK, NetTypeOK, ServerTypeOK
  <2>. QED BY <1>3, <2>1, <2>2 DEF Close, TypeOK, ServerTypeOK
<1>4. CASE AwaitFails
  BY <1>4, NetTypes DEF AwaitFails, flagVars, TypeOK, NetTypeOK, ServerTypeOK
<1>5. CASE OpenChannel
  <2>1. NetTypeOK'
    BY <1>5, NetTypes DEF OpenChannel, TypeOK
  <2>. QED BY <1>5, <2>1 DEF OpenChannel, flagVars, TypeOK, ServerTypeOK
<1>6. CASE SubmitLoop
  BY <1>6 DEF SubmitLoop, LoopGoto, netVars, flagVars, TypeOK, NetTypeOK, ServerTypeOK
<1>7. CASE AwaitLoop
  BY <1>7 DEF AwaitLoop, netVars, flagVars, TypeOK, NetTypeOK, ServerTypeOK
<1>. QED BY <1>1, <1>2, <1>3, <1>4, <1>5, <1>6, <1>7 DEF OwnerCalls, OwnerGoesOn

LEMMA InitTypeInv == Init => TypeInv
<1>. SUFFICES ASSUME Init PROVE TypeInv
  OBVIOUS
<1>1. IsABag(EmptyBag) /\ BagToSet(EmptyBag) = {}
  BY DEF EmptyBag, SetToBag, IsABag, BagToSet
<1>2. NetTypeOK
  BY <1>1, ConnectedAssumption DEF Init, NetInit, NetTypeOK
<1>3. ClientTypeOK
  <2>1. 0 \in 0..Requests /\ 0 \in 0..Threads
    BY ConnectedAssumption
  <2>. QED BY <2>1 DEF Init, ClientInit, ClientTypeOK
<1>4. ServerTypeOK
  <2>1. 0 \in 0..MaxStarts /\ 0 \in 0..MaxCloses
    BY NonblockingAssumption
  <2>2. buffer \in Seq(Bodies) /\ Len(buffer) <= Fits + 1
    BY NonblockingAssumption DEF Init, ServerInit
  <2>. QED BY <2>1, <2>2 DEF Init, ServerInit, ServerTypeOK
<1>5. Shut = {} /\ workerClose = 0
  BY DEF Init, ClientInit, Shut
<1>. QED BY <1>2, <1>3, <1>4, <1>5, FS_EmptySet DEF TypeInv, TypeOK

LEMMA NextTypeInv == TypeInv /\ [Next]_vars => TypeInv'
<1>. SUFFICES ASSUME TypeInv, [Next]_vars PROVE TypeInv'
  OBVIOUS
<1>1. ASSUME NEW t \in Numbers, KeyStep(t, Serves) /\ UNCHANGED serverVars
      PROVE  TypeInv'
  <2>1. PICK serves \in BOOLEAN : KeyStep(t, serves)
    BY <1>1 DEF Serves, Listens, CanAnswer
  <2>2. NetTypeOK' /\ ClientTypeOK' /\ workerClose' = Cardinality(Shut')
    BY <2>1, ClientTypes
  <2>3. ServerTypeOK'
    BY <1>1 DEF serverVars, flagVars, ownerVars, TypeInv, TypeOK, ServerTypeOK
  <2>. QED BY <2>2, <2>3 DEF TypeInv, TypeOK
<1>2. CASE LoopStep(NothingComes) /\ UNCHANGED serverVars
  <2>1. PICK nothing \in BOOLEAN : LoopStep(nothing)
    BY <1>2 DEF NothingComes
  <2>2. NetTypeOK' /\ ClientTypeOK' /\ workerClose' = Cardinality(Shut')
    BY <2>1, RunTypes
  <2>3. ServerTypeOK'
    BY <1>2 DEF serverVars, flagVars, ownerVars, TypeInv, TypeOK, ServerTypeOK
  <2>. QED BY <2>2, <2>3 DEF TypeInv, TypeOK
<1>3. CASE ServerStep /\ UNCHANGED clientVars
  <2>1. NetTypeOK' /\ ServerTypeOK'
    BY <1>3, LoopTypes, OwnerTypes DEF ServerStep, TypeInv
  <2>2. ClientTypeOK' /\ workerClose' = Cardinality(Shut')
    BY <1>3 DEF clientVars, Shut, TypeInv, TypeOK, ClientTypeOK
  <2>. QED BY <2>1, <2>2 DEF TypeInv, TypeOK
<1>4. CASE Lose /\ UNCHANGED <<clientVars, serverVars>>
  <2>1. NetTypeOK'
    BY <1>4, NetTypes DEF TypeInv, TypeOK
  <2>2. ClientTypeOK' /\ workerClose' = Cardinality(Shut')
    BY <1>4 DEF clientVars, Shut, TypeInv, TypeOK, ClientTypeOK
  <2>3. ServerTypeOK'
    BY <1>4 DEF serverVars, flagVars, ownerVars, TypeInv, TypeOK, ServerTypeOK
  <2>. QED BY <2>1, <2>2, <2>3 DEF TypeInv, TypeOK
<1>5. CASE UNCHANGED vars
  BY <1>5 DEF vars, netVars, clientVars, serverVars, flagVars, ownerVars, Shut,
              TypeInv, TypeOK, NetTypeOK, ClientTypeOK, ServerTypeOK
<1>. QED BY <1>1, <1>2, <1>3, <1>4, <1>5 DEF Next

LEMMA TypeInvariant == Spec => []TypeInv
BY InitTypeInv, NextTypeInv, PTL DEF Spec

\* All variables stay in their types: no request past the last one, no more
\* workers than threads counted as ended, no text longer than the answer that
\* does not fit.
THEOREM TypeCorrect == Spec => []TypeOK
BY TypeInvariant, PTL DEF TypeInv

-----------------------------------------------------------------------------
(* The flag of start() is the lock of the loops: whoever may still read    *)
(* the buffer, or is about to start a loop, does it under the flag.        *)

Live(l) == lpc[l] \in {"check", "select", "endStart"}

LoopInv ==
    /\ \A l \in Loops : Live(l) => startFlag
    /\ \A l, n \in Loops : Live(l) /\ Live(n) => l = n
    /\ \A l \in Loops : l > starts => lpc[l] = "new"
    /\ executor <= starts
    /\ opc = "await" => executor \in Loops
    /\ opc \in {"open", "submit"} =>
          /\ startFlag
          /\ \A l \in Loops : ~Live(l)
          /\ starts \in Loops /\ lpc[starts] = "new"

\* What a step of a loop does to the variables that say where everyone is.
LEMMA LoopStepKeeps ==
    ASSUME TypeOK, NEW l \in Loops, ServerLoop(l) \/ SelectFails(l)
    PROVE  /\ UNCHANGED <<executor, opc, starts, running>>
           /\ \A n \in Loops : n # l => lpc'[n] = lpc[n]
           /\ lpc' \in [Loops -> {"new", "check", "select", "endStart", "endClose", "dead"}]
           /\ \/ /\ lpc[l] \in {"check", "select"}
                 /\ lpc'[l] \in {"check", "select", "endStart"}
                 /\ UNCHANGED <<startFlag, isClose>>
                 /\ lpc'[l] = "endStart" => isClose \/ ~regular'
              \/ lpc[l] = "endStart" /\ lpc'[l] = "endClose" /\ ~startFlag' /\ UNCHANGED isClose
              \/ lpc[l] = "endClose" /\ lpc'[l] = "dead" /\ ~isClose' /\ UNCHANGED startFlag
           /\ UNCHANGED regular \/ ~regular'
<1>1. lpc \in [Loops -> {"new", "check", "select", "endStart", "endClose", "dead"}]
  BY DEF TypeOK, ServerTypeOK
<1>2. CASE CheckClose(l)
  BY <1>1, <1>2 DEF CheckClose, LoopGoto, flagVars, ownerVars
<1>3. CASE SelectNothing(l)
  BY <1>1, <1>3 DEF SelectNothing, LoopGoto, flagVars, ownerVars
<1>4. CASE SelectRequest(l)
  BY <1>1, <1>4 DEF SelectRequest, LoopGoto, flagVars, ownerVars
<1>5. CASE SelectFails(l)
  BY <1>1, <1>5 DEF SelectFails, LoopGoto, flagVars, ownerVars
<1>6. CASE ResetStart(l)
  BY <1>1, <1>6 DEF ResetStart, LoopGoto, flagVars, ownerVars
<1>7. CASE ResetClose(l)
  BY <1>1, <1>7 DEF ResetClose, LoopGoto, flagVars, ownerVars
<1>. QED BY <1>2, <1>3, <1>4, <1>5, <1>6, <1>7 DEF ServerLoop

LEMMA NextLoop == TypeInv /\ LoopInv /\ [Next]_vars => LoopInv'
<1>. SUFFICES ASSUME TypeInv, LoopInv, [Next]_vars PROVE LoopInv'
  OBVIOUS
<1>. USE DEF TypeInv
<1>1. CASE UNCHANGED serverVars
  BY <1>1 DEF serverVars, flagVars, ownerVars, LoopInv, Live
<1>2. ASSUME NEW l \in Loops, ServerLoop(l) \/ SelectFails(l)
      PROVE  LoopInv'
  <2>. USE <1>2, LoopStepKeeps
  <2>1. \A n \in Loops : Live(n)' => Live(n)
    BY DEF Live
  <2>2. \A n \in Loops : Live(n)' => startFlag'
    <3>1. CASE startFlag' = startFlag
      BY <2>1, <3>1 DEF LoopInv
    <3>2. CASE Live(l) /\ ~Live(l)'
      BY <2>1, <3>2 DEF LoopInv
    <3>. QED BY <3>1, <3>2 DEF Live
  <2>3. ~(lpc[l] = "new")
    OBVIOUS
  <2>4. ~(l > starts) /\ \A n \in Loops : n > starts' => lpc'[n] = "new"
    BY <2>3 DEF LoopInv
  <2>5. opc' \in {"open", "submit"} => startFlag' /\ lpc'[starts] = "new"
    BY <2>3 DEF LoopInv, Live
  <2>. QED BY <2>1, <2>2, <2>4, <2>5 DEF LoopInv
<1>3. CASE Start
  <2>1. ~startFlag /\ startFlag' /\ starts' = starts + 1 /\ starts < MaxStarts /\ opc' = "open"
    BY <1>3 DEF Start
  <2>2. UNCHANGED <<lpc, executor>>
    BY <1>3 DEF Start
  <2>3. starts \in Nat /\ MaxStarts \in Nat /\ executor \in Nat
    BY NonblockingAssumption DEF TypeOK, ServerTypeOK
  <2>4. \A l \in Loops : ~Live(l)
    BY <2>1 DEF LoopInv
  <2>5. starts' \in Loops /\ starts' > starts
    BY <2>1, <2>3 DEF Loops
  <2>6. \A l \in Loops : l > starts' => l > starts
    BY <2>1, <2>3 DEF Loops
  <2>7. executor' <= starts'
    BY <2>1, <2>2, <2>3 DEF LoopInv
  <2>. QED BY <2>1, <2>2, <2>4, <2>5, <2>6, <2>7 DEF LoopInv, Live
<1>4. CASE OpenChannel \/ OpenFails
  <2>1. UNCHANGED <<lpc, executor, startFlag, starts>> /\ opc = "open" /\ opc' \in {"idle", "submit"}
    BY <1>4 DEF OpenChannel, OpenFails, flagVars
  <2>. QED BY <2>1 DEF LoopInv, Live
<1>5. CASE SubmitLoop
  <2>1. /\ opc = "submit" /\ opc' = "idle" /\ UNCHANGED <<startFlag, starts>>
        /\ executor' = starts /\ lpc' = [lpc EXCEPT ![starts] = "check"]
    BY <1>5 DEF SubmitLoop, LoopGoto, flagVars
  <2>2. startFlag' /\ (\A l \in Loops : ~Live(l)) /\ starts \in Loops
    BY <2>1 DEF LoopInv
  <2>3. \A l \in Loops : l # starts => lpc'[l] = lpc[l] /\ ~Live(l)'
    BY <2>1, <2>2 DEF Live, TypeOK, ServerTypeOK
  <2>4. starts \in Nat
    BY NonblockingAssumption DEF TypeOK, ServerTypeOK
  <2>5. \A l \in Loops : l > starts => l # starts
    BY <2>4 DEF Loops
  <2>. QED BY <2>1, <2>2, <2>3, <2>4, <2>5 DEF LoopInv
<1>6. CASE Close
  <2>1. /\ UNCHANGED <<lpc, executor, startFlag, starts>>
        /\ opc' \in {"idle", "await"} /\ (opc' = "await" => executor # 0)
    BY <1>6 DEF Close
  <2>2. executor # 0 => executor \in Loops
    BY NonblockingAssumption DEF TypeOK, ServerTypeOK, Loops
  <2>. QED BY <2>1, <2>2 DEF LoopInv, Live
<1>7. CASE AwaitLoop \/ AwaitFails
  <2>1. UNCHANGED <<lpc, executor, startFlag, starts>> /\ opc' = "idle"
    BY <1>7 DEF AwaitLoop, AwaitFails, flagVars
  <2>. QED BY <2>1 DEF LoopInv, Live
<1>8. ServerStep => LoopInv'
  BY <1>2, <1>3, <1>4, <1>5, <1>6, <1>7 DEF ServerStep, OwnerCalls, OwnerGoesOn
<1>. QED BY <1>1, <1>8 DEF Next, vars

LEMMA InitLoop == Init => LoopInv
BY NonblockingAssumption DEF Init, ServerInit, LoopInv, Live

\* However start(), close() and the ends of the old loops fall, the buffer,
\* the selector and the channel are never used by two loops.
THEOREM LoopIsAlone == Spec => []OneLoop
<1>1. LoopInv => OneLoop
  BY DEF LoopInv, Live, OneLoop, Runs
<1>. QED BY <1>1, InitLoop, NextLoop, TypeInvariant, PTL DEF Spec

-----------------------------------------------------------------------------
(* The regular life of the object.                                         *)

Quiet(l) == lpc[l] \in {"new", "dead"}

LifeInv ==
    regular =>
        /\ opc = "idle" /\ running =>
              /\ startFlag /\ ~isClose
              /\ executor \in Loops /\ Runs(executor)
              /\ \A l \in Loops : l # executor => Quiet(l)
        /\ opc = "idle" /\ ~running =>
              ~startFlag /\ ~isClose /\ \A l \in Loops : Quiet(l)
        /\ opc \in {"open", "submit"} =>
              startFlag /\ ~isClose /\ ~running /\ \A l \in Loops : Quiet(l)
        /\ opc = "await" =>
              /\ ~running
              /\ executor \in Loops /\ lpc[executor] # "new"
              /\ \A l \in Loops : l # executor => Quiet(l)
              /\ startFlag => Live(executor)
              /\ isClose <=> lpc[executor] # "dead"

LEMMA NextLife == TypeInv /\ LoopInv /\ LifeInv /\ [Next]_vars => LifeInv'
<1>. SUFFICES ASSUME TypeInv, LoopInv, LifeInv, [Next]_vars, regular' PROVE LifeInv'
  BY DEF LifeInv
<1>. USE DEF TypeInv
<1>1. CASE UNCHANGED serverVars
  BY <1>1 DEF serverVars, flagVars, ownerVars, LifeInv, Runs, Quiet, Live
<1>2. ASSUME NEW l \in Loops, ServerLoop(l) \/ SelectFails(l)
      PROVE  LifeInv'
  <2>1. regular
    BY <1>2, LoopStepKeeps
  <2>2. ~Quiet(l)
    BY <1>2, LoopStepKeeps DEF Quiet
  <2>3. /\ UNCHANGED <<executor, opc, running>>
        /\ \A n \in Loops : n # l => lpc'[n] = lpc[n]
    BY <1>2, LoopStepKeeps
  <2>4. ~(opc \in {"open", "submit"}) /\ l = executor
    BY <2>1, <2>2 DEF LifeInv, TypeOK, ServerTypeOK
  <2>5. \A n \in Loops : n # executor => Quiet(n)'
    BY <2>1, <2>2, <2>3, <2>4 DEF LifeInv, Quiet, TypeOK, ServerTypeOK
  <2>6. CASE opc = "idle"
    <3>1. running /\ startFlag /\ ~isClose /\ Runs(l)
      BY <2>1, <2>2, <2>4, <2>6 DEF LifeInv
    <3>2. startFlag' /\ ~isClose' /\ Runs(l)'
      BY <1>2, <3>1, LoopStepKeeps DEF Runs
    <3>. QED BY <2>3, <2>4, <2>5, <2>6, <3>1, <3>2 DEF LifeInv
  <2>7. CASE opc = "await"
    <3>1. ~running /\ (startFlag => Live(l)) /\ (isClose <=> lpc[l] # "dead")
      BY <2>1, <2>4, <2>7 DEF LifeInv
    <3>2. startFlag' => Live(l)'
      BY <1>2, <3>1, LoopStepKeeps DEF Live
    <3>3. (isClose' <=> lpc'[l] # "dead") /\ lpc'[l] # "new"
      BY <1>2, <3>1, LoopStepKeeps
    <3>. QED BY <2>3, <2>4, <2>5, <2>7, <3>1, <3>2, <3>3 DEF LifeInv
  <2>. QED BY <2>4, <2>6, <2>7 DEF TypeOK, ServerTypeOK
<1>3. CASE Start
  <2>1. /\ regular /\ opc = "idle" /\ opc' = "open" /\ ~startFlag /\ startFlag'
        /\ UNCHANGED <<isClose, running, lpc>>
    BY <1>3 DEF Start
  <2>. QED BY <2>1 DEF LifeInv, Quiet
<1>4. CASE OpenChannel
  <2>1. /\ regular /\ opc = "open" /\ opc' = "submit"
        /\ UNCHANGED <<startFlag, isClose, running, lpc>>
    BY <1>4 DEF OpenChannel, flagVars
  <2>. QED BY <2>1 DEF LifeInv, Quiet
<1>5. CASE SubmitLoop
  <2>1. /\ regular /\ opc = "submit" /\ opc' = "idle" /\ running'
        /\ UNCHANGED <<startFlag, isClose, starts>>
        /\ executor' = starts /\ lpc' = [lpc EXCEPT ![starts] = "check"]
    BY <1>5 DEF SubmitLoop, LoopGoto, flagVars
  <2>2. starts \in Loops /\ startFlag /\ ~isClose /\ \A l \in Loops : Quiet(l)
    BY <2>1 DEF LoopInv, LifeInv
  <2>3. Runs(executor)' /\ \A l \in Loops : l # starts => Quiet(l)'
    BY <2>1, <2>2 DEF Runs, Quiet, TypeOK, ServerTypeOK
  <2>. QED BY <2>1, <2>2, <2>3 DEF LifeInv
<1>6. CASE Close
  <2>1. /\ regular /\ running /\ opc = "idle" /\ ~running' /\ isClose'
        /\ UNCHANGED <<startFlag, executor, lpc>>
        /\ opc' = IF executor = 0 THEN "idle" ELSE "await"
    BY <1>6 DEF Close
  <2>2. /\ executor \in Loops /\ Runs(executor)
        /\ \A l \in Loops : l # executor => Quiet(l)
    BY <2>1 DEF LifeInv
  <2>3. opc' = "await"
    BY <2>1, <2>2 DEF Loops
  <2>. QED BY <2>1, <2>2, <2>3 DEF LifeInv, Live, Quiet, Runs
<1>7. CASE AwaitLoop
  <2>1. /\ regular /\ opc = "await" /\ opc' = "idle" /\ lpc[executor] = "dead"
        /\ UNCHANGED <<startFlag, isClose, running, executor, lpc>>
    BY <1>7 DEF AwaitLoop, flagVars
  <2>2. ~running /\ ~isClose /\ ~startFlag /\ \A l \in Loops : Quiet(l)
    BY <2>1 DEF LifeInv, Live, Quiet
  <2>. QED BY <2>1, <2>2 DEF LifeInv, Quiet
<1>8. ~OpenFails /\ ~AwaitFails
  BY DEF OpenFails, AwaitFails
<1>9. ServerStep => LifeInv'
  BY <1>2, <1>3, <1>4, <1>5, <1>6, <1>7, <1>8 DEF ServerStep, OwnerCalls, OwnerGoesOn
<1>. QED BY <1>1, <1>9 DEF Next, vars

LEMMA InitLife == Init => LifeInv
BY DEF Init, ServerInit, LifeInv, Quiet

\* With start() and close() in turn, and each close() waiting for the end of
\* its loop, the object can be started again any number of times.
THEOREM StartsAgain == Spec => []Restartable
<1>1. TypeInv /\ LifeInv => Restartable
  BY DEF LifeInv, Quiet, Restartable
<1>. QED BY <1>1, InitLoop, NextLoop, InitLife, NextLife, TypeInvariant, PTL DEF Spec

-----------------------------------------------------------------------------
(* What the client has received was sent by the server as the answer to    *)
(* one request.                                                            *)

AnswerInv ==
    /\ \A text \in BagToSet(down) : Len(text) = 1 => text[1] \in answered
    /\ \A b \in Bodies : b[2] < iteration[b[1]] => b \in answered
    /\ \A t \in Numbers : ~open[t] => iteration[t] = Requests
    /\ returned => \A t \in Numbers : ~open[t]

LEMMA AllShut == TypeInv /\ workerClose = Threads => Shut = Numbers
<1>1. IsFiniteSet(Numbers) /\ Shut \subseteq Numbers
  BY ShutFinite DEF Shut
<1>2. Cardinality(Shut) = Cardinality(Numbers) => Shut = Numbers
  BY <1>1, FS_Subset
<1>. QED BY <1>2, ShutFinite DEF TypeInv

LEMMA KeyAnswers ==
    ASSUME TypeInv, AnswerInv, NEW t \in Numbers, NEW serves \in BOOLEAN,
           KeyStep(t, serves), UNCHANGED answered
    PROVE  AnswerInv'
<1>1. CASE Read(t)
  <2>1. PICK text \in BagToSet(down) :
            /\ Arrives(down, text, down')
            /\ iteration' = [iteration EXCEPT ![t] = IF Accepts(t, text) THEN @ + 1 ELSE @]
    BY <1>1 DEF Read
  <2>2. BagToSet(down') \subseteq BagToSet(down)
    BY <2>1, NetTypes DEF TypeInv, TypeOK
  <2>3. open[t] /\ UNCHANGED <<open, returned>>
    BY <1>1 DEF Read
  <2>4. \A n \in Numbers : n # t => iteration'[n] = iteration[n]
    BY <2>1 DEF TypeInv, TypeOK, ClientTypeOK
  <2>5. iteration'[t] = IF Accepts(t, text) THEN iteration[t] + 1 ELSE iteration[t]
    BY <2>1 DEF TypeInv, TypeOK, ClientTypeOK
  <2>6. \A b \in Bodies : b[2] < iteration'[b[1]] => b \in answered
    <3>. SUFFICES ASSUME NEW b \in Bodies, b[2] < iteration'[b[1]], ~(b[2] < iteration[b[1]])
                  PROVE  b \in answered
      BY DEF AnswerInv
    <3>1. b[1] \in Numbers /\ b[2] \in Int /\ b = <<b[1], b[2]>> /\ iteration[t] \in Int
      BY ConnectedAssumption DEF Bodies, TypeInv, TypeOK, ClientTypeOK
    <3>2. b[1] = t /\ Accepts(t, text) /\ b[2] = iteration[t]
      BY <2>4, <2>5, <3>1
    <3>3. Len(text) = 1 /\ text[1] = b
      BY <3>1, <3>2 DEF Accepts
    <3>. QED BY <2>1, <3>3 DEF AnswerInv
  <2>7. \A n \in Numbers : ~open'[n] => iteration'[n] = Requests
    BY <2>3, <2>4 DEF AnswerInv
  <2>. QED BY <2>2, <2>3, <2>6, <2>7 DEF AnswerInv
<1>2. CASE Write(t, serves)
  BY <1>2 DEF Write, AnswerInv
<1>3. CASE Finish(t)
  <2>1. UNCHANGED <<down, iteration, returned>> /\ open' = [open EXCEPT ![t] = FALSE]
    BY <1>3 DEF Finish, netVars
  <2>2. iteration[t] = Requests
    <3>1. iteration[t] \in 0..Requests /\ iteration[t] >= Requests
      BY <1>3 DEF Finish, IsEnd, TypeInv, TypeOK, ClientTypeOK
    <3>. QED BY <3>1, ConnectedAssumption
  <2>3. \A n \in Numbers : n # t => open'[n] = open[n]
    BY <2>1 DEF TypeInv, TypeOK, ClientTypeOK
  <2>4. ~open'[t]
    BY <2>1 DEF TypeInv, TypeOK, ClientTypeOK
  <2>. QED BY <2>1, <2>2, <2>3, <2>4 DEF AnswerInv
<1>. QED BY <1>1, <1>2, <1>3 DEF KeyStep

LEMMA SendAnswers ==
    ASSUME TypeInv, AnswerInv, NEW l \in Loops, SelectRequest(l), UNCHANGED clientVars
    PROVE  AnswerInv'
<1>1. PICK b \in BagToSet(up) : AnswerSent(Append(buffer, b)) \/ AnswerFails(Append(buffer, b))
  BY DEF SelectRequest
<1>. DEFINE text == Append(buffer, b)
<1>2. \A sent \in BagToSet(down') : Len(sent) = 1 => sent[1] \in answered'
  <2>1. CASE AnswerSent(text)
    <3>1. BagToSet(down') = BagToSet(down) \cup {text}
      BY <2>1, PutIn DEF AnswerSent, TypeInv, TypeOK, NetTypeOK
    <3>2. Len(text) = 1 => text[1] \in answered'
      BY <2>1 DEF AnswerSent
    <3>3. answered \subseteq answered'
      BY <2>1 DEF AnswerSent
    <3>. HIDE DEF text
    <3>. QED BY <3>1, <3>2, <3>3 DEF AnswerInv
  <2>2. CASE AnswerFails(text)
    BY <2>2 DEF AnswerFails, AnswerInv
  <2>. QED BY <1>1, <2>1, <2>2
<1>3. answered \subseteq answered'
  BY <1>1 DEF AnswerSent, AnswerFails
<1>. HIDE DEF text
<1>. QED BY <1>2, <1>3 DEF clientVars, AnswerInv

LEMMA NextAnswers == TypeInv /\ AnswerInv /\ [Next]_vars => AnswerInv'
<1>. SUFFICES ASSUME TypeInv, AnswerInv, [Next]_vars PROVE AnswerInv'
  OBVIOUS
<1>1. ASSUME NEW t \in Numbers, KeyStep(t, Serves) /\ UNCHANGED serverVars
      PROVE  AnswerInv'
  <2>1. PICK serves \in BOOLEAN : KeyStep(t, serves)
    BY <1>1 DEF Serves, Listens, CanAnswer
  <2>. QED BY <1>1, <2>1, KeyAnswers DEF serverVars
<1>2. CASE LoopStep(NothingComes) /\ UNCHANGED serverVars
  <2>1. CASE TimeOut(NothingComes)
    BY <1>2, <2>1 DEF TimeOut, serverVars, AnswerInv
  <2>2. CASE Return
    <3>1. \A t \in Numbers : ~open[t]
      BY <2>2, AllShut DEF Return, Shut
    <3>. QED BY <1>2, <2>2, <3>1 DEF Return, netVars, serverVars, AnswerInv
  <2>. QED BY <1>2, <2>1, <2>2 DEF LoopStep
<1>3. ASSUME NEW l \in Loops, SelectRequest(l), UNCHANGED clientVars
      PROVE  AnswerInv'
  BY <1>3, SendAnswers
<1>4. CASE UNCHANGED clientVars /\ UNCHANGED <<down, answered>>
  BY <1>4 DEF clientVars, AnswerInv
<1>5. CASE ServerStep /\ UNCHANGED clientVars
  <2>1. ASSUME NEW l \in Loops, ServerLoop(l) \/ SelectFails(l)
        PROVE  SelectRequest(l) \/ UNCHANGED <<down, answered>>
    BY <2>1 DEF ServerLoop, CheckClose, SelectNothing, SelectFails, ResetStart, ResetClose, netVars
  <2>2. OwnerCalls \/ OwnerGoesOn => UNCHANGED <<down, answered>>
    BY DEF OwnerCalls, OwnerGoesOn, Start, OpenFails, Close, AwaitFails, OpenChannel,
           SubmitLoop, AwaitLoop, netVars
  <2>. QED BY <1>3, <1>4, <1>5, <2>1, <2>2 DEF ServerStep
<1>6. CASE Lose /\ UNCHANGED <<clientVars, serverVars>>
  <2>1. BagToSet(down') \subseteq BagToSet(down)
    <3>1. CASE \E m \in BagToSet(down) : down' = down (-) SetToBag({m})
      <4>. PICK m : down' = down (-) SetToBag({m})
        BY <3>1
      <4>1. BagToSet(down (-) SetToBag({m})) \subseteq BagToSet(down)
        BY TakeOut DEF TypeInv, TypeOK, NetTypeOK
      <4>. QED BY <4>1
    <3>. QED BY <1>6, <3>1 DEF Lose
  <2>. QED BY <1>6, <2>1 DEF clientVars, serverVars, AnswerInv
<1>7. CASE UNCHANGED vars
  BY <1>4, <1>7 DEF vars, netVars, serverVars
<1>. QED BY <1>1, <1>2, <1>5, <1>6, <1>7 DEF Next

LEMMA InitAnswers == Init => AnswerInv
<1>1. BagToSet(EmptyBag) = {}
  BY DEF EmptyBag, SetToBag, BagToSet
<1>2. ASSUME Init, NEW b \in Bodies
      PROVE  ~(b[2] < iteration[b[1]])
  <2>1. b[1] \in Numbers /\ b[2] \in Nat
    BY ConnectedAssumption DEF Bodies
  <2>2. iteration[b[1]] = 0
    BY <1>2, <2>1 DEF Init, ClientInit
  <2>. QED BY <2>1, <2>2
<1>. QED BY <1>1, <1>2 DEF Init, NetInit, ClientInit, AnswerInv

\* The client never takes a late answer, a second copy or an answer to several
\* requests for the answer it waits for, and run() does not return before it
\* has all of them.
THEOREM AnswersInTurn == Spec => []AnsweredInTurn
<1>1. AnswerInv => AnsweredInTurn
  BY DEF AnswerInv, AnsweredInTurn
<1>. QED BY <1>1, InitAnswers, NextAnswers, TypeInvariant, PTL DEF Spec

-----------------------------------------------------------------------------
(* The number of copies of some elements that there are in a bag.          *)

Copies(bag, S) == {c \in (DOMAIN bag \cap S) \X Nat : c[2] > 0 /\ c[2] <= bag[c[1]]}

Count(bag, S) == Cardinality(Copies(bag, S))

Added(bag, f, S) ==
    IF S = {} THEN 0
    ELSE bag[CHOOSE e \in S : TRUE] + f[S \ {CHOOSE e \in S : TRUE}]

\* BagCardinality is defined by recursion over the subsets of the domain.
LEMMA CardinalityChosen ==
    ASSUME NEW bag, NEW f, f = CHOOSE g : g = [S \in SUBSET DOMAIN bag |-> Added(bag, g, S)]
    PROVE  BagCardinality(bag) = f[DOMAIN bag]
BY Zenon DEF BagCardinality, Added

LEMMA OneMore ==
    ASSUME NEW bag, IsABag(bag), NEW S \in SUBSET DOMAIN bag, NEW e \in S,
           IsFiniteSet(Copies(bag, S \ {e}))
    PROVE  /\ IsFiniteSet(Copies(bag, S))
           /\ Count(bag, S) = bag[e] + Count(bag, S \ {e})
<1>. DEFINE n == bag[e]
            Old == Copies(bag, S \ {e})
            New == {e} \X (1..n)
<1>1. n \in Nat
  BY DEF IsABag
<1>2. Copies(bag, S) = Old \cup New
  <2>1. ASSUME NEW c \in Copies(bag, S)
        PROVE  c \in Old \cup New
    <3>1. c = <<c[1], c[2]>> /\ c[1] \in S /\ c[2] \in Nat /\ c[2] > 0 /\ c[2] <= bag[c[1]]
      BY DEF Copies
    <3>2. CASE c[1] = e
      BY <1>1, <3>1, <3>2
    <3>3. CASE c[1] # e
      BY <3>1, <3>3 DEF Copies
    <3>. QED BY <3>2, <3>3
  <2>2. Old \subseteq Copies(bag, S)
    BY DEF Copies
  <2>3. New \subseteq Copies(bag, S)
    BY <1>1 DEF Copies
  <2>. QED BY <2>1, <2>2, <2>3
<1>3. Old \cap New = {}
  <2>1. \A c \in Old : c[1] # e
    BY DEF Copies
  <2>2. \A c \in New : c[1] = e
    OBVIOUS
  <2>. QED BY <2>1, <2>2
<1>4. IsFiniteSet(New) /\ Cardinality(New) = n
  <2>1. IsFiniteSet({e}) /\ Cardinality({e}) = 1
    BY FS_Singleton
  <2>2. IsFiniteSet(1..n) /\ Cardinality(1..n) = n
    BY <1>1, FS_Interval
  <2>3. IsFiniteSet(New) /\ Cardinality(New) = 1 * n
    <3>1. PICK S1, T1 : S1 = {e} /\ T1 = 1..n
      OBVIOUS
    <3>2. IsFiniteSet(S1 \X T1) /\ Cardinality(S1 \X T1) = Cardinality(S1) * Cardinality(T1)
      BY <2>1, <2>2, <3>1, FS_Product
    <3>. QED BY <2>1, <2>2, <3>1, <3>2
  <2>. QED BY <1>1, <2>3
<1>. HIDE DEF New, Old, n
<1>5. IsFiniteSet(Old)
  BY DEF Old
<1>6. IsFiniteSet(Old \cup New) /\ Cardinality(Old \cup New) = Cardinality(Old) + n - 0
  <2>1. /\ IsFiniteSet(Old \cup New)
        /\ Cardinality(Old \cup New)
             = Cardinality(Old) + Cardinality(New) - Cardinality(Old \cap New)
    BY <1>4, <1>5, FS_Union
  <2>2. Cardinality(Old \cap New) = 0
    BY <1>3, FS_EmptySet
  <2>. QED BY <1>4, <2>1, <2>2
<1>7. Cardinality(Old) \in Nat
  BY <1>5, FS_CardinalityType
<1>8. Cardinality(Copies(bag, S)) = n + Cardinality(Old)
  BY <1>1, <1>2, <1>6, <1>7
<1>. QED BY <1>2, <1>6, <1>8 DEF Count, Old, n

\* A property that every set has if all smaller sets have it: all have it.
LEMMA SmallerSets ==
    ASSUME NEW D, IsFiniteSet(D), NEW T \in SUBSET SUBSET D,
           \A S \in SUBSET D : (\A R \in SUBSET D : R \subseteq S /\ R # S => R \in T) => S \in T
    PROVE  T = SUBSET D
<1>. DEFINE Missing == (SUBSET D) \ T
<1>. SUFFICES ASSUME Missing # {} PROVE FALSE
  OBVIOUS
<1>1. IsWellFoundedOn(StrictSubsetOrdering(D), FiniteSubsetsOf(D))
  BY FS_StrictSubsetOrderingWellFounded
<1>2. Missing \subseteq FiniteSubsetsOf(D)
  BY FS_Subset DEF FiniteSubsetsOf
<1>3. PICK S \in Missing : \A R \in Missing : <<R, S>> \notin StrictSubsetOrdering(D)
  <2>. HIDE DEF Missing
  <2>. QED BY <1>1, <1>2, WFMin
<1>4. ASSUME NEW R \in SUBSET D, R \subseteq S, R # S
      PROVE  R \in T
  <2>1. <<R, S>> \in StrictSubsetOrdering(D)
    BY <1>4 DEF StrictSubsetOrdering
  <2>. QED BY <1>3, <2>1
<1>. QED BY <1>3, <1>4

LEMMA CopiesFinite ==
    ASSUME NEW bag, IsABag(bag), IsFiniteSet(DOMAIN bag), NEW S
    PROVE  IsFiniteSet(Copies(bag, S)) /\ Count(bag, S) \in Nat
<1>. DEFINE D == DOMAIN bag
            T == {R \in SUBSET D : IsFiniteSet(Copies(bag, R))}
<1>1. ASSUME NEW R \in SUBSET D, \A Q \in SUBSET D : Q \subseteq R /\ Q # R => Q \in T
      PROVE  R \in T
  <2>1. CASE R = {}
    <3>1. Copies(bag, {}) = {}
      BY DEF Copies
    <3>. QED BY <2>1, <3>1, FS_EmptySet
  <2>2. CASE R # {}
    <3>1. PICK e \in R : TRUE
      BY <2>2
    <3>2. R \ {e} \in T
      BY <1>1, <3>1
    <3>. QED BY <3>1, <3>2, OneMore
  <2>. QED BY <2>1, <2>2
<1>2. T \in SUBSET SUBSET D
  OBVIOUS
<1>. HIDE DEF T
<1>3. T = SUBSET D
  BY <1>1, <1>2, SmallerSets
<1>4. Copies(bag, S) = Copies(bag, D \cap S)
  BY DEF Copies
<1>5. D \cap S \in T
  BY <1>3
<1>. QED BY <1>4, <1>5, FS_CardinalityType DEF T, Count

LEMMA CountAll ==
    ASSUME NEW bag, IsABag(bag), IsFiniteSet(DOMAIN bag)
    PROVE  BagCardinality(bag) = Count(bag, DOMAIN bag)
<1>. DEFINE D == DOMAIN bag
            f == CHOOSE g : g = [S \in SUBSET D |-> Added(bag, g, S)]
<1>1. ASSUME NEW S \in SUBSET D, S # {}
      PROVE  /\ (CHOOSE e \in S : TRUE) \in S
             /\ Count(bag, S) = bag[CHOOSE e \in S : TRUE]
                                + Count(bag, S \ {CHOOSE e \in S : TRUE})
  <2>. DEFINE e == CHOOSE e \in S : TRUE
  <2>1. e \in S
    BY <1>1
  <2>2. \A x \in S : Count(bag, S) = bag[x] + Count(bag, S \ {x})
    BY CopiesFinite, OneMore
  <2>. QED BY <2>1, <2>2
<1>2. Count(bag, {}) = 0
  <2>1. Copies(bag, {}) = {}
    BY DEF Copies
  <2>. QED BY <2>1, FS_EmptySet DEF Count
<1>3. f = [S \in SUBSET D |-> Added(bag, f, S)]
  <2>. DEFINE g == [S \in SUBSET D |-> Count(bag, S)]
  <2>1. ASSUME NEW S \in SUBSET D
        PROVE  Count(bag, S) = Added(bag, g, S)
    <3>1. CASE S = {}
      BY <1>2, <3>1 DEF Added
    <3>2. CASE S # {}
      <4>. DEFINE e == CHOOSE e \in S : TRUE
      <4>1. e \in S /\ Count(bag, S) = bag[e] + Count(bag, S \ {e})
        BY <1>1, <3>2
      <4>2. Added(bag, g, S) = bag[e] + g[S \ {e}]
        BY <3>2 DEF Added
      <4>3. g[S \ {e}] = Count(bag, S \ {e})
        OBVIOUS
      <4>. QED BY <4>1, <4>2, <4>3
    <3>. QED BY <3>1, <3>2
  <2>2. g = [S \in SUBSET D |-> Added(bag, g, S)]
    <3>1. g = [S \in SUBSET D |-> g[S]]
      OBVIOUS
    <3>2. \A S \in SUBSET D : g[S] = Added(bag, g, S)
      BY <2>1
    <3>. HIDE DEF g
    <3>3. [S \in SUBSET D |-> g[S]] = [S \in SUBSET D |-> Added(bag, g, S)]
      BY <3>2, Zenon
    <3>. QED BY <3>1, <3>3, Zenon
  <2>. HIDE DEF g
  <2>. QED BY <2>2, Zenon
<1>. HIDE DEF f
<1>. DEFINE T == {S \in SUBSET D : f[S] = Count(bag, S)}
<1>4. ASSUME NEW R \in SUBSET D, \A Q \in SUBSET D : Q \subseteq R /\ Q # R => Q \in T
      PROVE  R \in T
  <2>1. f[R] = Added(bag, f, R)
    BY <1>3
  <2>2. CASE R = {}
    BY <1>2, <2>1, <2>2 DEF Added
  <2>3. CASE R # {}
    <3>. DEFINE e == CHOOSE e \in R : TRUE
    <3>1. e \in R /\ Count(bag, R) = bag[e] + Count(bag, R \ {e})
      BY <1>1, <2>3
    <3>2. f[R] = bag[e] + f[R \ {e}]
      BY <2>1, <2>3 DEF Added
    <3>. HIDE DEF e
    <3>3. R \ {e} \in T
      BY <1>4, <3>1
    <3>. QED BY <3>1, <3>2, <3>3
  <2>. QED BY <2>2, <2>3
<1>5. T \in SUBSET SUBSET D
  OBVIOUS
<1>6. T = SUBSET D
  <2>. HIDE DEF T
  <2>. QED BY <1>4, <1>5, SmallerSets
<1>7. f[D] = Count(bag, D)
  BY <1>6
<1>8. BagCardinality(bag) = f[D]
  BY CardinalityChosen DEF f
<1>. QED BY <1>7, <1>8

LEMMA PutCounts ==
    ASSUME NEW bag, IsABag(bag), IsFiniteSet(DOMAIN bag), NEW m, NEW S
    PROVE  /\ IsFiniteSet(DOMAIN Put(bag, m))
           /\ Count(Put(bag, m), S) = IF m \in S THEN Count(bag, S) + 1 ELSE Count(bag, S)
<1>. DEFINE one == SetToBag({m})
            more == Put(bag, m)
            k == IF m \in DOMAIN bag THEN bag[m] + 1 ELSE 1
<1>1. DOMAIN one = {m} /\ \A e \in DOMAIN one : one[e] = 1
  BY DEF SetToBag
<1>2. more = [e \in DOMAIN bag \cup DOMAIN one |->
                  (IF e \in DOMAIN bag THEN bag[e] ELSE 0)
                  + (IF e \in DOMAIN one THEN one[e] ELSE 0)]
  BY DEF Put, (+)
<1>. HIDE DEF one, more
<1>3. \A e \in DOMAIN bag : bag[e] \in Nat /\ bag[e] > 0
  BY DEF IsABag
<1>4. DOMAIN more = DOMAIN bag \cup {m}
  BY <1>1, <1>2
<1>5. /\ more[m] = k /\ k \in Nat /\ k > 0
      /\ \A e \in DOMAIN bag : e # m => more[e] = bag[e]
  BY <1>1, <1>2, <1>3
<1>6. IsFiniteSet(DOMAIN more)
  BY <1>4, FS_AddElement
<1>7. CASE m \notin S
  <2>1. Copies(more, S) = Copies(bag, S)
    <3>1. DOMAIN more \cap S = DOMAIN bag \cap S
      BY <1>4, <1>7
    <3>2. \A e \in DOMAIN bag \cap S : more[e] = bag[e]
      BY <1>5, <1>7
    <3>. QED BY <3>1, <3>2 DEF Copies
  <2>. QED BY <1>6, <1>7, <2>1 DEF Count, more
<1>8. CASE m \in S
  <2>1. Copies(more, S) = Copies(bag, S) \cup {<<m, k>>}
    <3>. HIDE DEF k
    <3>1. ASSUME NEW c \in Copies(more, S)
          PROVE  c \in Copies(bag, S) \cup {<<m, k>>}
      <4>1. c = <<c[1], c[2]>> /\ c[1] \in DOMAIN more \cap S
            /\ c[2] \in Nat /\ c[2] > 0 /\ c[2] <= more[c[1]]
        BY DEF Copies
      <4>2. CASE c[1] = m /\ c[2] = k
        BY <4>1, <4>2
      <4>3. CASE c[1] = m /\ c[2] # k
        <5>1. m \in DOMAIN bag /\ c[2] <= bag[m]
          BY <1>3, <1>5, <4>1, <4>3 DEF k
        <5>. QED BY <4>1, <4>3, <5>1 DEF Copies
      <4>4. CASE c[1] # m
        BY <1>4, <1>5, <4>1, <4>4 DEF Copies
      <4>. QED BY <4>2, <4>3, <4>4
    <3>2. <<m, k>> \in Copies(more, S)
      BY <1>4, <1>5, <1>8 DEF Copies
    <3>3. ASSUME NEW c \in Copies(bag, S)
          PROVE  c \in Copies(more, S)
      <4>1. c = <<c[1], c[2]>> /\ c[1] \in DOMAIN bag \cap S
            /\ c[2] \in Nat /\ c[2] > 0 /\ c[2] <= bag[c[1]]
        BY DEF Copies
      <4>2. c[1] = m => m \in DOMAIN bag /\ bag[m] \in Nat /\ k = bag[m] + 1
        BY <1>3, <4>1 DEF k
      <4>3. c[2] <= more[c[1]]
        BY <1>5, <4>1, <4>2
      <4>. QED BY <1>4, <4>1, <4>3 DEF Copies
    <3>. QED BY <3>1, <3>2, <3>3
  <2>2. <<m, k>> \notin Copies(bag, S)
    <3>1. m \in DOMAIN bag => k > bag[m] /\ bag[m] \in Nat
      BY <1>3
    <3>. HIDE DEF k
    <3>. QED BY <1>5, <3>1 DEF Copies
  <2>3. IsFiniteSet(Copies(bag, S))
    BY CopiesFinite
  <2>. HIDE DEF k
  <2>. QED BY <1>6, <1>8, <2>1, <2>2, <2>3, FS_AddElement DEF Count, more
<1>. QED BY <1>7, <1>8

LEMMA TakeCounts ==
    ASSUME NEW bag, IsABag(bag), IsFiniteSet(DOMAIN bag), NEW m \in DOMAIN bag, NEW S
    PROVE  /\ IsFiniteSet(DOMAIN (bag (-) SetToBag({m})))
           /\ Count(bag (-) SetToBag({m}), S) = IF m \in S THEN Count(bag, S) - 1 ELSE Count(bag, S)
<1>. DEFINE one == SetToBag({m})
            less == [e \in DOMAIN bag |-> IF e \in DOMAIN one THEN bag[e] - one[e] ELSE bag[e]]
            rest == bag (-) one
            k == bag[m]
<1>1. one = [e \in {m} |-> 1]
  BY DEF SetToBag
<1>2. rest = [e \in {d \in DOMAIN less : less[d] > 0} |-> less[e]]
  BY DEF (-)
<1>3. \A e \in DOMAIN bag : bag[e] \in Nat /\ bag[e] > 0
  BY DEF IsABag
<1>4. /\ DOMAIN less = DOMAIN bag
      /\ \A e \in DOMAIN bag : e # m => less[e] = bag[e]
      /\ less[m] = k - 1
  BY <1>1, <1>3
<1>. HIDE DEF less, rest
<1>5. /\ DOMAIN rest \subseteq DOMAIN bag
      /\ \A e \in DOMAIN bag : e # m => e \in DOMAIN rest /\ rest[e] = bag[e]
      /\ m \in DOMAIN rest <=> k - 1 > 0
      /\ m \in DOMAIN rest => rest[m] = k - 1
      /\ k \in Nat /\ k > 0
  BY <1>2, <1>3, <1>4
<1>6. IsFiniteSet(DOMAIN rest)
  BY <1>5, FS_Subset
<1>. HIDE DEF k
<1>7. CASE m \notin S
  <2>1. Copies(rest, S) = Copies(bag, S)
    <3>1. DOMAIN rest \cap S = DOMAIN bag \cap S
      BY <1>5, <1>7
    <3>2. \A e \in DOMAIN bag \cap S : rest[e] = bag[e]
      BY <1>5, <1>7
    <3>. QED BY <3>1, <3>2 DEF Copies
  <2>. QED BY <1>6, <1>7, <2>1 DEF Count, rest
<1>8. CASE m \in S
  <2>1. Copies(rest, S) = Copies(bag, S) \ {<<m, k>>}
    <3>1. ASSUME NEW c \in Copies(rest, S)
          PROVE  c \in Copies(bag, S) /\ c # <<m, k>>
      <4>1. c = <<c[1], c[2]>> /\ c[1] \in DOMAIN rest \cap S
            /\ c[2] \in Nat /\ c[2] > 0 /\ c[2] <= rest[c[1]]
        BY DEF Copies
      <4>2. CASE c[1] = m
        <5>1. c[2] <= k - 1
          BY <1>5, <4>1, <4>2
        <5>. QED BY <1>5, <4>1, <4>2, <5>1 DEF Copies, k
      <4>3. CASE c[1] # m
        BY <1>5, <4>1, <4>3 DEF Copies
      <4>. QED BY <4>2, <4>3
    <3>2. ASSUME NEW c \in Copies(bag, S), c # <<m, k>>
          PROVE  c \in Copies(rest, S)
      <4>1. c = <<c[1], c[2]>> /\ c[1] \in DOMAIN bag \cap S
            /\ c[2] \in Nat /\ c[2] > 0 /\ c[2] <= bag[c[1]]
        BY DEF Copies
      <4>2. CASE c[1] = m
        <5>1. c[2] # k /\ c[2] <= k
          BY <3>2, <4>1, <4>2 DEF k
        <5>2. c[2] <= k - 1 /\ k - 1 > 0
          BY <1>5, <4>1, <5>1
        <5>. QED BY <1>5, <1>8, <4>1, <4>2, <5>2 DEF Copies
      <4>3. CASE c[1] # m
        BY <1>5, <4>1, <4>3 DEF Copies
      <4>. QED BY <4>2, <4>3
    <3>. QED BY <3>1, <3>2
  <2>2. <<m, k>> \in Copies(bag, S)
    BY <1>5, <1>8 DEF Copies, k
  <2>3. IsFiniteSet(Copies(bag, S))
    BY CopiesFinite
  <2>. QED BY <1>6, <1>8, <2>1, <2>2, <2>3, FS_RemoveElement DEF Count, rest
<1>. QED BY <1>7, <1>8

LEMMA PartCounts ==
    ASSUME NEW bag, IsABag(bag), IsFiniteSet(DOMAIN bag), NEW part \in Parts(bag), NEW S
    PROVE  /\ IsFiniteSet(DOMAIN part)
           /\ Count(part, S) <= Count(bag, S) /\ Count(part, S) \in Nat
<1>1. part \sqsubseteq bag
  BY DEF Parts
<1>2. DOMAIN part \subseteq DOMAIN bag /\ \A e \in DOMAIN part : part[e] <= bag[e]
  BY <1>1 DEF \sqsubseteq
<1>3. IsABag(part)
  BY PartOf
<1>4. \A e \in DOMAIN part : part[e] \in Nat /\ bag[e] \in Nat
  BY <1>2, <1>3 DEF IsABag
<1>5. Copies(part, S) \subseteq Copies(bag, S)
  <2>1. ASSUME NEW c \in Copies(part, S)
        PROVE  c \in Copies(bag, S)
    <3>1. c = <<c[1], c[2]>> /\ c[1] \in DOMAIN part \cap S
          /\ c[2] \in Nat /\ c[2] > 0 /\ c[2] <= part[c[1]]
      BY DEF Copies
    <3>2. c[2] <= bag[c[1]]
      BY <1>2, <1>4, <3>1
    <3>. QED BY <1>2, <3>1, <3>2 DEF Copies
  <2>. QED BY <2>1
<1>6. IsFiniteSet(DOMAIN part)
  BY <1>2, FS_Subset
<1>7. IsFiniteSet(Copies(bag, S))
  BY CopiesFinite
<1>. QED BY <1>3, <1>5, <1>6, <1>7, CopiesFinite, FS_Subset DEF Count

LEMMA NoneCounts ==
    ASSUME NEW bag, NEW S, \A m \in DOMAIN bag : m \notin S
    PROVE  Count(bag, S) = 0
<1>1. Copies(bag, S) = {}
  BY DEF Copies
<1>. QED BY <1>1, FS_EmptySet DEF Count

\* m arrives once: a copy is gone, or a fault has happened.
LEMMA ArrivalCounts ==
    ASSUME NEW bag, IsABag(bag), IsFiniteSet(DOMAIN bag), NEW m, NEW rest, Arrives(bag, m, rest), NEW S
    PROVE  /\ IsFiniteSet(DOMAIN rest)
           /\ m \in DOMAIN bag
           /\ \/ /\ faults' = faults
                 /\ Count(rest, S) = IF m \in S THEN Count(bag, S) - 1 ELSE Count(bag, S)
              \/ faults' = faults + 1 /\ Count(rest, S) = Count(bag, S)
<1>1. m \in DOMAIN bag
  BY DEF Arrives, BagIn, BagToSet
<1>2. CASE rest = bag (-) SetToBag({m}) /\ UNCHANGED faults
  BY <1>1, <1>2, TakeCounts
<1>3. CASE rest = bag /\ Fault
  BY <1>1, <1>3 DEF Fault
<1>. QED BY <1>2, <1>3 DEF Arrives

-----------------------------------------------------------------------------
(* No storm: what is on its way for each channel. As long as the server    *)
(* cannot serve nothing new is put there, and there is one less: it was    *)
(* taken by the fault that filled the buffer, or it is the one more that   *)
(* the end of the loop has allowed.                                        *)

UpFor(t) == {b \in Bodies : b[1] = t}
DownFor(t) == {m \in Seq(Bodies) \ {<<>>} : Receiver(m) = t}

Way(u, d, t) == Count(u, UpFor(t)) + Count(d, DownFor(t))

Due(t) == IF open[t] /\ interest[t] # "read" THEN 1 ELSE 0

Over(pc) == Cardinality({l \in Loops : pc[l] \in {"endStart", "endClose", "dead"}})

StormInv ==
    /\ IsFiniteSet(DOMAIN up) /\ IsFiniteSet(DOMAIN down)
    /\ \A t \in Numbers : Way(up, down, t) + Due(t) <= 1 + faults + Over(lpc)
    /\ ~Serves => \A t \in Numbers : Way(up, down, t) <= faults + Over(lpc)

LEMMA WayIsOnTheWay ==
    ASSUME TypeInv, StormInv, NEW t \in Numbers
    PROVE  OnTheWay(t) = Way(up, down, t)
<1>1. /\ IsABag(up) /\ DOMAIN up \subseteq Bodies /\ IsFiniteSet(DOMAIN up)
      /\ IsABag(down) /\ DOMAIN down \subseteq Seq(Bodies) \ {<<>>} /\ IsFiniteSet(DOMAIN down)
  BY DEF TypeInv, TypeOK, NetTypeOK, BagToSet, StormInv
<1>2. ASSUME NEW bag, IsABag(bag), IsFiniteSet(DOMAIN bag), NEW S, NEW part,
             part = [b \in DOMAIN bag \cap S |-> bag[b]]
      PROVE  BagCardinality(part) = Count(bag, S)
  <2>1. IsABag(part) /\ IsFiniteSet(DOMAIN part)
    <3>1. DOMAIN part = DOMAIN bag \cap S
      BY <1>2
    <3>2. IsFiniteSet(DOMAIN part)
      BY <1>2, <3>1, FS_Subset
    <3>. QED BY <1>2, <3>2 DEF IsABag
  <2>2. Copies(part, DOMAIN part) = Copies(bag, S)
    BY <1>2 DEF Copies
  <2>. QED BY <2>1, <2>2, CountAll DEF Count
<1>3. BagCardinality([b \in {b \in BagToSet(up) : b[1] = t} |-> up[b]]) = Count(up, UpFor(t))
  <2>1. {b \in BagToSet(up) : b[1] = t} = DOMAIN up \cap UpFor(t)
    BY <1>1 DEF UpFor, BagToSet
  <2>. QED BY <1>1, <1>2, <2>1
<1>4. BagCardinality([m \in {m \in BagToSet(down) : Receiver(m) = t} |-> down[m]])
        = Count(down, DownFor(t))
  <2>1. {m \in BagToSet(down) : Receiver(m) = t} = DOMAIN down \cap DownFor(t)
    BY <1>1 DEF DownFor, BagToSet
  <2>. QED BY <1>1, <1>2, <2>1
<1>. QED BY <1>3, <1>4 DEF OnTheWay, Way

LEMMA OverIsNumber ==
    /\ \A pc : IsFiniteSet({l \in Loops : pc[l] \in {"endStart", "endClose", "dead"}})
    /\ \A pc : Over(pc) \in Nat
<1>1. IsFiniteSet(Loops)
  BY NonblockingAssumption, FS_Interval DEF Loops
<1>2. ASSUME NEW pc
      PROVE  /\ IsFiniteSet({l \in Loops : pc[l] \in {"endStart", "endClose", "dead"}})
             /\ Over(pc) \in Nat
  <2>1. IsFiniteSet({l \in Loops : pc[l] \in {"endStart", "endClose", "dead"}})
    BY <1>1, FS_Subset
  <2>. QED BY <2>1, FS_CardinalityType DEF Over
<1>. QED BY <1>2

LEMMA OverAfter ==
    ASSUME NEW pc, NEW l \in Loops, NEW qc, \A n \in Loops : n # l => qc[n] = pc[n]
    PROVE  /\ (pc[l] \in {"endStart", "endClose", "dead"} <=> qc[l] \in {"endStart", "endClose", "dead"})
                => Over(qc) = Over(pc)
           /\ pc[l] \notin {"endStart", "endClose", "dead"} /\ qc[l] = "endStart"
                => Over(qc) = Over(pc) + 1
<1>. DEFINE Ends(c) == {n \in Loops : c[n] \in {"endStart", "endClose", "dead"}}
<1>1. (pc[l] \in {"endStart", "endClose", "dead"} <=> qc[l] \in {"endStart", "endClose", "dead"})
        => Ends(qc) = Ends(pc)
  OBVIOUS
<1>2. pc[l] \notin {"endStart", "endClose", "dead"} /\ qc[l] = "endStart"
        => Ends(qc) = Ends(pc) \cup {l} /\ l \notin Ends(pc)
  OBVIOUS
<1>3. IsFiniteSet(Ends(pc))
  BY OverIsNumber
<1>. HIDE DEF Ends
<1>4. Ends(qc) = Ends(pc) \cup {l} /\ l \notin Ends(pc) => Cardinality(Ends(qc)) = Cardinality(Ends(pc)) + 1
  BY <1>3, FS_AddElement
<1>5. Over(pc) = Cardinality(Ends(pc)) /\ Over(qc) = Cardinality(Ends(qc))
  BY DEF Over, Ends
<1>. QED BY <1>1, <1>2, <1>4, <1>5

\* A step that puts nothing on its way, and makes no channel send.
LEMMA CalmStep ==
    ASSUME TypeInv, TypeInv', StormInv,
           IsFiniteSet(DOMAIN up'), IsFiniteSet(DOMAIN down'),
           \A t \in Numbers : Way(up', down', t) <= Way(up, down, t) /\ Due(t)' <= Due(t),
           faults' + Over(lpc') >= faults + Over(lpc),
           ~Serves' => ~Serves \/ faults' + Over(lpc') > faults + Over(lpc)
    PROVE  StormInv'
<1>1. /\ faults \in Nat /\ faults' \in Nat
      /\ Over(lpc) \in Nat /\ Over(lpc') \in Nat
      /\ IsABag(up) /\ IsABag(up') /\ IsABag(down) /\ IsABag(down')
  BY OverIsNumber DEF TypeInv, TypeOK, NetTypeOK
<1>2. \A t \in Numbers : Due(t) \in 0..1 /\ Due(t)' \in 0..1
  BY DEF Due
<1>3. \A t \in Numbers : Way(up, down, t) \in Nat /\ Way(up', down', t) \in Nat
  BY <1>1, CopiesFinite DEF Way, StormInv
<1>4. ASSUME NEW t \in Numbers
      PROVE  /\ Way(up', down', t) + Due(t)' <= 1 + faults' + Over(lpc')
             /\ ~Serves' => Way(up', down', t) <= faults' + Over(lpc')
  <2>1. Way(up, down, t) + Due(t) <= 1 + faults + Over(lpc)
    BY DEF StormInv
  <2>2. ~Serves => Way(up, down, t) <= faults + Over(lpc)
    BY DEF StormInv
  <2>. QED BY <1>1, <1>2, <1>3, <2>1, <2>2
<1>. QED BY <1>4 DEF StormInv

LEMMA StormTypes ==
    ASSUME TypeInv, StormInv
    PROVE  /\ faults \in Nat /\ Over(lpc) \in Nat
           /\ IsABag(up) /\ IsFiniteSet(DOMAIN up) /\ DOMAIN up \subseteq Bodies
           /\ IsABag(down) /\ IsFiniteSet(DOMAIN down) /\ DOMAIN down \subseteq Seq(Bodies) \ {<<>>}
           /\ \A t \in Numbers : /\ Due(t) \in 0..1
                                 /\ Count(up, UpFor(t)) \in Nat
                                 /\ Count(down, DownFor(t)) \in Nat
           /\ \A t \in Numbers : Way(up, down, t) + Due(t) <= 1 + faults + Over(lpc)
           /\ ~Serves => \A t \in Numbers : Way(up, down, t) <= faults + Over(lpc)
<1>1. /\ faults \in Nat /\ Over(lpc) \in Nat
      /\ IsABag(up) /\ IsFiniteSet(DOMAIN up) /\ DOMAIN up \subseteq Bodies
      /\ IsABag(down) /\ IsFiniteSet(DOMAIN down) /\ DOMAIN down \subseteq Seq(Bodies) \ {<<>>}
  BY OverIsNumber DEF TypeInv, TypeOK, NetTypeOK, BagToSet, StormInv
<1>2. \A t \in Numbers : Due(t) \in 0..1
  BY DEF Due
<1>3. \A t \in Numbers : Count(up, UpFor(t)) \in Nat /\ Count(down, DownFor(t)) \in Nat
  BY <1>1, CopiesFinite
<1>. QED BY <1>1, <1>2, <1>3 DEF StormInv

LEMMA KeyStorm ==
    ASSUME TypeInv, TypeInv', StormInv, NEW u \in Numbers, KeyStep(u, Serves), UNCHANGED serverVars
    PROVE  StormInv'
<1>1. Serves' = Serves /\ lpc' = lpc
  BY DEF serverVars, ownerVars, Serves, Listens, CanAnswer, Runs
<1>2. ASSUME Read(u)
      PROVE  StormInv'
  <2>1. PICK text \in DOMAIN down : Receiver(text) = u /\ Arrives(down, text, down')
    BY <1>2 DEF Read, BagToSet
  <2>2. up' = up /\ open' = open /\ interest' = [interest EXCEPT ![u] = "write"]
    BY <1>2 DEF Read
  <2>3. interest \in [Numbers -> {"both", "read", "write"}]
    BY DEF TypeInv, TypeOK, ClientTypeOK
  <2>4. \A t \in Numbers : t # u => Due(t)' = Due(t)
    BY <2>2, <2>3 DEF Due
  <2>5. Due(u)' \in 0..1
    BY DEF Due
  <2>6. IsFiniteSet(DOMAIN down')
    BY <2>1, StormTypes, ArrivalCounts
  <2>7. text \in DownFor(u) /\ \A t \in Numbers : t # u => text \notin DownFor(t)
    BY <2>1, StormTypes DEF DownFor
  <2>8. ASSUME NEW t \in Numbers
        PROVE  /\ Way(up', down', t) + Due(t)' <= 1 + faults' + Over(lpc')
               /\ ~Serves' => Way(up', down', t) <= faults' + Over(lpc')
    <3>1. \/ /\ faults' = faults
             /\ Count(down', DownFor(t)) = IF text \in DownFor(t) THEN Count(down, DownFor(t)) - 1
                                           ELSE Count(down, DownFor(t))
          \/ faults' = faults + 1 /\ Count(down', DownFor(t)) = Count(down, DownFor(t))
      BY <2>1, StormTypes, ArrivalCounts
    <3>2. /\ Way(up, down, t) = Count(up, UpFor(t)) + Count(down, DownFor(t))
          /\ Way(up', down', t) = Count(up, UpFor(t)) + Count(down', DownFor(t))
      BY <2>2 DEF Way
    <3>3. t = u => text \in DownFor(t)
      BY <2>7
    <3>4. t # u => text \notin DownFor(t)
      BY <2>7
    <3>0. /\ Count(down, DownFor(t)) \in Nat /\ Count(up, UpFor(t)) \in Nat
          /\ faults \in Nat /\ Over(lpc) \in Nat /\ Due(t) \in 0..1
          /\ Way(up, down, t) + Due(t) <= 1 + faults + Over(lpc)
          /\ ~Serves => Way(up, down, t) <= faults + Over(lpc)
      BY StormTypes
    <3>5. CASE t = u
      <4>1. \/ faults' = faults /\ Way(up', down', t) = Way(up, down, t) - 1
            \/ faults' = faults + 1 /\ Way(up', down', t) = Way(up, down, t)
        BY <3>0, <3>1, <3>2, <3>3, <3>5
      <4>2. Due(t)' \in 0..1 /\ Way(up, down, t) \in Nat
        BY <2>5, <3>0, <3>2, <3>5
      <4>. QED BY <1>1, <3>0, <4>1, <4>2
    <3>6. CASE t # u
      BY <1>1, <2>4, <3>1, <3>2, <3>4, <3>6, StormTypes
    <3>. QED BY <3>5, <3>6
  <2>. QED BY <2>2, <2>6, <2>8, StormTypes DEF StormInv
<1>3. ASSUME Write(u, Serves)
      PROVE  StormInv'
  <2>1. /\ open[u] /\ interest[u] # "read" /\ ~IsEnd(u)
        /\ down' = down /\ faults' = faults /\ open' = open
        /\ interest' = [interest EXCEPT ![u] = "read"]
    BY <1>3 DEF Write
  <2>2. Serves => up' = Put(up, <<u, iteration[u]>>)
    BY <1>3 DEF Write
  <2>3. ~Serves => up' = up
    BY <1>3 DEF Write
  <2>4. interest \in [Numbers -> {"both", "read", "write"}]
    BY DEF TypeInv, TypeOK, ClientTypeOK
  <2>5. \A t \in Numbers : t # u => Due(t)' = Due(t)
    BY <2>1, <2>4 DEF Due
  <2>6. Due(u) = 1 /\ Due(u)' = 0
    BY <2>1, <2>4 DEF Due
  <2>7. CASE ~Serves
    <3>1. \A t \in Numbers : Due(t)' <= Due(t)
      BY <2>5, <2>6, StormTypes
    <3>2. \A t \in Numbers : Way(up', down', t) <= Way(up, down, t)
      BY <2>1, <2>3, <2>7, StormTypes DEF Way
    <3>. QED BY <1>1, <2>1, <2>3, <2>7, <3>1, <3>2, StormTypes, CalmStep
  <2>8. CASE Serves
    <3>. DEFINE b == <<u, iteration[u]>>
    <3>1. IsFiniteSet(DOMAIN up')
      BY <2>2, <2>8, StormTypes, PutCounts
    <3>2. \A t \in Numbers : t # u => b \notin UpFor(t)
      BY DEF UpFor
    <3>3. ASSUME NEW t \in Numbers
          PROVE  Way(up', down', t) + Due(t)' <= 1 + faults' + Over(lpc')
      <4>1. Count(up', UpFor(t)) = IF b \in UpFor(t) THEN Count(up, UpFor(t)) + 1
                                   ELSE Count(up, UpFor(t))
        BY <2>2, <2>8, StormTypes, PutCounts
      <4>2. /\ Way(up, down, t) = Count(up, UpFor(t)) + Count(down, DownFor(t))
            /\ Way(up', down', t) = Count(up', UpFor(t)) + Count(down, DownFor(t))
        BY <2>1 DEF Way
      <4>. HIDE DEF b
      <4>3. CASE t = u
        BY <1>1, <2>1, <2>6, <4>1, <4>2, <4>3, StormTypes
      <4>4. CASE t # u
        BY <1>1, <2>1, <2>5, <3>2, <4>1, <4>2, <4>4, StormTypes
      <4>. QED BY <4>3, <4>4
    <3>. QED BY <1>1, <2>1, <2>8, <3>1, <3>3, StormTypes DEF StormInv
  <2>. QED BY <2>7, <2>8
<1>4. ASSUME Finish(u)
      PROVE  StormInv'
  <2>1. /\ UNCHANGED <<up, down, faults, interest>>
        /\ open' = [open EXCEPT ![u] = FALSE]
    BY <1>4 DEF Finish, netVars
  <2>2. open \in [Numbers -> BOOLEAN]
    BY DEF TypeInv, TypeOK, ClientTypeOK
  <2>3. \A t \in Numbers : Due(t)' <= Due(t)
    <3>1. \A t \in Numbers : open'[t] => open[t]
      BY <2>1, <2>2
    <3>. QED BY <2>1, <3>1 DEF Due
  <2>4. \A t \in Numbers : Way(up', down', t) <= Way(up, down, t)
    BY <2>1, StormTypes DEF Way
  <2>. QED BY <1>1, <2>1, <2>3, <2>4, StormTypes, CalmStep
<1>. QED BY <1>2, <1>3, <1>4 DEF KeyStep

LEMMA TimeOutStorm ==
    ASSUME TypeInv, TypeInv', StormInv, LoopStep(NothingComes), UNCHANGED serverVars
    PROVE  StormInv'
<1>1. Serves' = Serves /\ lpc' = lpc
  BY DEF serverVars, ownerVars, Serves, Listens, CanAnswer, Runs
<1>2. ASSUME TimeOut(NothingComes)
      PROVE  StormInv'
  <2>1. /\ UNCHANGED <<up, down, open>>
        /\ \A t \in Numbers : open[t] => interest[t] = "read"
        /\ interest' = [t \in Numbers |-> IF open[t] THEN "write" ELSE interest[t]]
    BY <1>2 DEF TimeOut
  <2>2. (NothingComes /\ faults' = faults) \/ faults' = faults + 1
    BY <1>2 DEF TimeOut, Fault
  <2>3. ASSUME NEW t \in Numbers
        PROVE  /\ Way(up', down', t) + Due(t)' <= 1 + faults' + Over(lpc')
               /\ ~Serves' => Way(up', down', t) <= faults' + Over(lpc')
    <3>1. Way(up', down', t) = Way(up, down, t)
      BY <2>1
    <3>2. Due(t)' \in 0..1 /\ (~open[t] => Due(t)' = 0)
      BY <2>1 DEF Due
    <3>3. Way(up, down, t) \in Nat
      BY StormTypes DEF Way
    <3>4. CASE faults' = faults + 1
      BY <1>1, <3>1, <3>2, <3>3, <3>4, StormTypes
    <3>5. CASE NothingComes /\ faults' = faults /\ Serves /\ open[t]
      <4>1. \A m \in DOMAIN down : m \notin DownFor(t)
        BY <3>5 DEF NothingComes, BagToSet, DownFor
      <4>2. \A b \in DOMAIN up : b \notin UpFor(t)
        BY <3>5 DEF NothingComes, BagToSet, UpFor
      <4>3. Way(up, down, t) = 0
        BY <4>1, <4>2, NoneCounts DEF Way
      <4>. QED BY <1>1, <3>1, <3>2, <3>5, <4>3, StormTypes
    <3>6. CASE faults' = faults /\ ~Serves
      BY <1>1, <3>1, <3>2, <3>3, <3>6, StormTypes
    <3>7. CASE faults' = faults /\ ~open[t]
      BY <1>1, <3>1, <3>2, <3>3, <3>7, StormTypes
    <3>. QED BY <2>2, <3>4, <3>5, <3>6, <3>7
  <2>. QED BY <2>1, <2>3, StormTypes DEF StormInv
<1>3. ASSUME Return
      PROVE  StormInv'
  <2>1. UNCHANGED <<up, down, faults, open, interest>>
    BY <1>3 DEF Return, netVars
  <2>2. \A t \in Numbers : Due(t)' <= Due(t) /\ Way(up', down', t) <= Way(up, down, t)
    BY <2>1, StormTypes DEF Due, Way
  <2>. QED BY <1>1, <2>1, <2>2, StormTypes, CalmStep
<1>. QED BY <1>2, <1>3 DEF LoopStep

LEMMA LoseStorm ==
    ASSUME TypeInv, TypeInv', StormInv, Lose, UNCHANGED <<clientVars, serverVars>>
    PROVE  StormInv'
<1>1. /\ Serves' = Serves /\ lpc' = lpc
      /\ faults' = faults + 1
      /\ \A t \in Numbers : Due(t)' <= Due(t)
  <2>1. UNCHANGED <<lpc, opc, buffer, open, interest>>
    BY DEF serverVars, ownerVars, clientVars
  <2>. QED BY <2>1 DEF Serves, Listens, CanAnswer, Runs, Due, Lose, Fault
<1>2. /\ IsFiniteSet(DOMAIN up') /\ IsFiniteSet(DOMAIN down')
      /\ \A t \in Numbers : Way(up', down', t) <= Way(up, down, t)
  <2>1. CASE \E m \in BagToSet(up) : up' = up (-) SetToBag({m}) /\ UNCHANGED down
    <3>1. down' = down /\ \E m \in DOMAIN up : up' = up (-) SetToBag({m})
      BY <2>1 DEF BagToSet
    <3>2. /\ IsFiniteSet(DOMAIN up')
          /\ \A t \in Numbers : Count(up', UpFor(t)) <= Count(up, UpFor(t)) /\ Count(up', UpFor(t)) \in Int
      BY <3>1, StormTypes, TakeCounts
    <3>3. ASSUME NEW t \in Numbers PROVE Way(up', down', t) <= Way(up, down, t)
      <4>1. /\ Way(up, down, t) = Count(up, UpFor(t)) + Count(down, DownFor(t))
            /\ Way(up', down', t) = Count(up', UpFor(t)) + Count(down', DownFor(t))
        BY DEF Way
      <4>2. Count(down', DownFor(t)) = Count(down, DownFor(t)) /\ Count(down, DownFor(t)) \in Nat
        BY <3>1, StormTypes
      <4>3. /\ Count(up', UpFor(t)) <= Count(up, UpFor(t))
            /\ Count(up', UpFor(t)) \in Int /\ Count(up, UpFor(t)) \in Nat
        BY <3>2, StormTypes
      <4>. QED BY <4>1, <4>2, <4>3
    <3>. QED BY <3>1, <3>2, <3>3, StormTypes
  <2>2. CASE \E m \in BagToSet(down) : down' = down (-) SetToBag({m}) /\ UNCHANGED up
    <3>1. up' = up /\ \E m \in DOMAIN down : down' = down (-) SetToBag({m})
      BY <2>2 DEF BagToSet
    <3>2. /\ IsFiniteSet(DOMAIN down')
          /\ \A t \in Numbers : /\ Count(down', DownFor(t)) <= Count(down, DownFor(t))
                                /\ Count(down', DownFor(t)) \in Int
      BY <3>1, StormTypes, TakeCounts
    <3>3. ASSUME NEW t \in Numbers PROVE Way(up', down', t) <= Way(up, down, t)
      <4>1. /\ Way(up, down, t) = Count(up, UpFor(t)) + Count(down, DownFor(t))
            /\ Way(up', down', t) = Count(up', UpFor(t)) + Count(down', DownFor(t))
        BY DEF Way
      <4>2. Count(up', UpFor(t)) = Count(up, UpFor(t)) /\ Count(up, UpFor(t)) \in Nat
        BY <3>1, StormTypes
      <4>3. /\ Count(down', DownFor(t)) <= Count(down, DownFor(t))
            /\ Count(down', DownFor(t)) \in Int /\ Count(down, DownFor(t)) \in Nat
        BY <3>2, StormTypes
      <4>. QED BY <4>1, <4>2, <4>3
    <3>. QED BY <3>1, <3>2, <3>3, StormTypes
  <2>. QED BY <2>1, <2>2 DEF Lose
<1>. QED BY <1>1, <1>2, StormTypes, CalmStep

\* A request is answered, or fills the buffer, or is lost in a full one.
LEMMA RequestStorm ==
    ASSUME TypeInv, TypeInv', StormInv, NEW l \in Loops, SelectRequest(l), UNCHANGED clientVars
    PROVE  StormInv'
<1>1. PICK b \in DOMAIN up :
        LET text == Append(buffer, b) IN
        \/ Arrives(up, b, up') /\ AnswerSent(text)
        \/ Len(text) <= Fits /\ Fault /\ up' = up (-) SetToBag({b}) /\ AnswerFails(text)
        \/ Len(text) > Fits /\ Arrives(up, b, up') /\ AnswerFails(text)
  BY DEF SelectRequest, BagToSet
<1>. DEFINE text == Append(buffer, b)
<1>2. /\ buffer \in Seq(Bodies) /\ Len(buffer) \in Nat /\ Fits \in Nat
      /\ b \in Bodies /\ text \in Seq(Bodies) \ {<<>>} /\ Len(text) = Len(buffer) + 1
      /\ Receiver(text) = b[1]
  <2>1. buffer \in Seq(Bodies) /\ b \in Bodies
    BY StormTypes DEF TypeInv, TypeOK, ServerTypeOK
  <2>2. /\ text \in Seq(Bodies) \ {<<>>} /\ Len(text) = Len(buffer) + 1 /\ Len(buffer) \in Nat
        /\ text[Len(text)] = b
    BY <2>1
  <2>. QED BY <2>1, <2>2, NonblockingAssumption DEF Receiver
<1>3. lpc' = [lpc EXCEPT ![l] = "check"] /\ lpc[l] = "select" /\ opc' = opc
  BY DEF SelectRequest, LoopGoto, ownerVars
<1>4. /\ lpc'[l] = "check" /\ \A n \in Loops : n # l => lpc'[n] = lpc[n]
      /\ Listens /\ Listens'
  <2>1. lpc \in [Loops -> {"new", "check", "select", "endStart", "endClose", "dead"}]
    BY DEF TypeInv, TypeOK, ServerTypeOK
  <2>2. lpc'[l] = "check" /\ \A n \in Loops : n # l => lpc'[n] = lpc[n]
    BY <1>3, <2>1
  <2>. QED BY <1>3, <2>2 DEF Listens, Runs
<1>5. Over(lpc') = Over(lpc)
  <2>1. lpc[l] \notin {"endStart", "endClose", "dead"} /\ lpc'[l] \notin {"endStart", "endClose", "dead"}
    BY <1>3, <1>4
  <2>. QED BY <1>4, <2>1, OverAfter
<1>6. \A t \in Numbers : Due(t)' = Due(t)
  BY DEF Due, clientVars
<1>7. (Serves <=> Len(buffer) < Fits) /\ (Serves' <=> Len(buffer') < Fits)
  BY <1>4 DEF Serves, CanAnswer
<1>8. CASE Arrives(up, b, up') /\ AnswerSent(text)
  <2>1. /\ Len(text) <= Fits /\ down' = Put(down, text) /\ buffer' = <<>>
    BY <1>8 DEF AnswerSent
  <2>2. Serves'
    BY <1>2, <1>7, <2>1
  <2>3. IsFiniteSet(DOMAIN up') /\ IsFiniteSet(DOMAIN down')
    BY <1>8, <2>1, StormTypes, ArrivalCounts, PutCounts
  <2>4. ASSUME NEW t \in Numbers
        PROVE  Way(up', down', t) + Due(t)' <= 1 + faults' + Over(lpc')
    <3>1. b \in UpFor(t) <=> text \in DownFor(t)
      BY <1>2 DEF UpFor, DownFor
    <3>2. \/ /\ faults' = faults
             /\ Count(up', UpFor(t)) = IF b \in UpFor(t) THEN Count(up, UpFor(t)) - 1
                                       ELSE Count(up, UpFor(t))
          \/ faults' = faults + 1 /\ Count(up', UpFor(t)) = Count(up, UpFor(t))
      BY <1>8, StormTypes, ArrivalCounts
    <3>3. Count(down', DownFor(t)) = IF text \in DownFor(t) THEN Count(down, DownFor(t)) + 1
                                     ELSE Count(down, DownFor(t))
      BY <2>1, StormTypes, PutCounts
    <3>4. Way(up', down', t) <= Way(up, down, t) + (faults' - faults)
      <4>. HIDE DEF text
      <4>. QED BY <3>1, <3>2, <3>3, StormTypes DEF Way
    <3>5. Way(up', down', t) \in Int /\ Way(up, down, t) \in Int /\ faults' \in Int
      <4>. HIDE DEF text
      <4>. QED BY <3>2, <3>3, StormTypes DEF Way
    <3>6. /\ Way(up, down, t) + Due(t) <= 1 + faults + Over(lpc)
          /\ Due(t) \in Int /\ faults \in Int /\ Over(lpc) \in Int
      <4>. HIDE DEF text
      <4>. QED BY StormTypes
    <3>7. Due(t)' = Due(t)
      BY <1>6
    <3>. HIDE DEF text
    <3>. QED BY <1>5, <3>4, <3>5, <3>6, <3>7
  <2>. QED BY <2>2, <2>3, <2>4 DEF StormInv
<1>9. CASE Len(text) <= Fits /\ Fault /\ up' = up (-) SetToBag({b}) /\ AnswerFails(text)
  <2>1. faults' = faults + 1 /\ down' = down
    BY <1>9 DEF Fault, AnswerFails
  <2>2. /\ IsFiniteSet(DOMAIN up')
        /\ \A t \in Numbers : Count(up', UpFor(t)) <= Count(up, UpFor(t)) /\ Count(up', UpFor(t)) \in Int
    BY <1>9, StormTypes, TakeCounts
  <2>3. \A t \in Numbers : Way(up', down', t) <= Way(up, down, t)
    BY <2>1, <2>2, StormTypes DEF Way
  <2>. QED BY <1>5, <1>6, <2>1, <2>2, <2>3, StormTypes, CalmStep
<1>10. CASE Len(text) > Fits /\ Arrives(up, b, up') /\ AnswerFails(text)
  <2>1. ~Serves /\ down' = down
    BY <1>2, <1>7, <1>10 DEF AnswerFails
  <2>2. /\ IsFiniteSet(DOMAIN up')
        /\ \A t \in Numbers : Count(up', UpFor(t)) <= Count(up, UpFor(t)) /\ Count(up', UpFor(t)) \in Int
        /\ faults' \in {faults, faults + 1}
    BY <1>10, StormTypes, ArrivalCounts, ConnectedAssumption DEF Numbers
  <2>3. \A t \in Numbers : Way(up', down', t) <= Way(up, down, t)
    BY <2>1, <2>2, StormTypes DEF Way
  <2>. QED BY <1>5, <1>6, <2>1, <2>2, <2>3, StormTypes, CalmStep
<1>. QED BY <1>1, <1>8, <1>9, <1>10

LEMMA ServerStorm ==
    ASSUME TypeInv, TypeInv', LoopInv, StormInv, ServerStep, UNCHANGED clientVars
    PROVE  StormInv'
<1>1. \A t \in Numbers : Due(t)' <= Due(t)
  <2>1. \A t \in Numbers : Due(t)' = Due(t)
    BY DEF Due, clientVars
  <2>. QED BY <2>1, StormTypes
<1>2. UNCHANGED <<up, down>> =>
        /\ IsFiniteSet(DOMAIN up') /\ IsFiniteSet(DOMAIN down')
        /\ \A t \in Numbers : Way(up', down', t) <= Way(up, down, t)
  BY StormTypes DEF Way
<1>3. ASSUME NEW l \in Loops, ServerLoop(l) \/ SelectFails(l), ~SelectRequest(l)
      PROVE  StormInv'
  <2>1. /\ \A n \in Loops : n # l => lpc'[n] = lpc[n]
        /\ \/ lpc[l] \in {"check", "select"} /\ lpc'[l] \in {"check", "select", "endStart"}
           \/ lpc[l] = "endStart" /\ lpc'[l] = "endClose"
           \/ lpc[l] = "endClose" /\ lpc'[l] = "dead"
        /\ opc' = opc
    BY <1>3, LoopStepKeeps DEF TypeInv
  <2>2. UNCHANGED <<up, down, buffer>> /\ (faults' = faults \/ faults' = faults + 1)
    BY <1>3 DEF ServerLoop, CheckClose, SelectNothing, ResetStart, ResetClose, SelectFails, netVars, Fault
  <2>3. CASE lpc'[l] = "endStart"
    <3>1. Over(lpc') = Over(lpc) + 1
      BY <2>1, <2>3, OverAfter
    <3>. QED BY <1>1, <1>2, <2>2, <3>1, StormTypes, CalmStep
  <2>4. CASE lpc'[l] # "endStart"
    <3>1. Over(lpc') = Over(lpc)
      BY <2>1, <2>4, OverAfter
    <3>2. \A n \in Loops : Runs(n) => Runs(n)'
      BY <2>1, <2>4 DEF Runs
    <3>3. ~Serves' => ~Serves
      BY <2>1, <2>2, <3>2 DEF Serves, Listens, CanAnswer
    <3>. QED BY <1>1, <1>2, <2>2, <3>1, <3>3, StormTypes, CalmStep
  <2>. QED BY <2>3, <2>4
<1>4. ASSUME Start \/ OpenFails \/ Close \/ AwaitFails \/ AwaitLoop
      PROVE  StormInv'
  <2>1. /\ UNCHANGED <<up, down, buffer, lpc>> /\ (faults' = faults \/ faults' = faults + 1)
        /\ opc # "submit"
    BY <1>4 DEF Start, OpenFails, Close, AwaitFails, AwaitLoop, netVars, Fault
  <2>2. ~Serves' => ~Serves
    BY <2>1 DEF Serves, Listens, CanAnswer, Runs
  <2>. QED BY <1>1, <1>2, <2>1, <2>2, StormTypes, CalmStep
<1>5. ASSUME OpenChannel
      PROVE  StormInv'
  <2>1. /\ UNCHANGED <<down, faults, buffer, lpc>> /\ opc' = "submit" /\ up' \in Parts(up)
    BY <1>5 DEF OpenChannel
  <2>2. ~Serves' => ~Serves
    BY <2>1 DEF Serves, Listens, CanAnswer
  <2>3. /\ IsFiniteSet(DOMAIN up')
        /\ \A t \in Numbers : Count(up', UpFor(t)) <= Count(up, UpFor(t)) /\ Count(up', UpFor(t)) \in Nat
    BY <2>1, StormTypes, PartCounts
  <2>4. \A t \in Numbers : Way(up', down', t) <= Way(up, down, t)
    BY <2>1, <2>3, StormTypes DEF Way
  <2>. QED BY <1>1, <2>1, <2>2, <2>3, <2>4, StormTypes, CalmStep
<1>6. ASSUME SubmitLoop
      PROVE  StormInv'
  <2>1. /\ UNCHANGED <<up, down, faults, buffer>> /\ opc = "submit"
        /\ lpc' = [lpc EXCEPT ![starts] = "check"]
    BY <1>6 DEF SubmitLoop, LoopGoto, netVars
  <2>2. starts \in Loops /\ lpc[starts] = "new"
    BY <2>1 DEF LoopInv
  <2>3. lpc \in [Loops -> {"new", "check", "select", "endStart", "endClose", "dead"}]
    BY DEF TypeInv, TypeOK, ServerTypeOK
  <2>4. lpc'[starts] = "check" /\ \A n \in Loops : n # starts => lpc'[n] = lpc[n]
    BY <2>1, <2>2, <2>3
  <2>5. Over(lpc') = Over(lpc)
    BY <2>2, <2>4, OverAfter
  <2>6. ~Serves' => ~Serves
    BY <2>1, <2>2, <2>4 DEF Serves, Listens, CanAnswer, Runs
  <2>. QED BY <1>1, <1>2, <2>1, <2>5, <2>6, StormTypes, CalmStep
<1>7. ASSUME NEW l \in Loops, SelectRequest(l)
      PROVE  StormInv'
  BY <1>7, RequestStorm
<1>. QED BY <1>3, <1>4, <1>5, <1>6, <1>7 DEF ServerStep, OwnerCalls, OwnerGoesOn, ServerLoop

LEMMA NextStorm == TypeInv /\ TypeInv' /\ LoopInv /\ StormInv /\ [Next]_vars => StormInv'
<1>. SUFFICES ASSUME TypeInv, TypeInv', LoopInv, StormInv, [Next]_vars PROVE StormInv'
  OBVIOUS
<1>1. CASE UNCHANGED vars
  <2>1. /\ UNCHANGED <<up, down, faults, lpc>> /\ (Serves' = Serves)
        /\ \A t \in Numbers : Due(t)' = Due(t)
    BY <1>1 DEF vars, netVars, serverVars, ownerVars, clientVars, Serves, Listens, CanAnswer, Runs, Due
  <2>. QED BY <2>1 DEF StormInv
<1>. QED BY <1>1, KeyStorm, TimeOutStorm, LoseStorm, ServerStorm DEF Next

LEMMA InitStorm == Init => StormInv
<1>. SUFFICES ASSUME Init PROVE StormInv
  OBVIOUS
<1>1. /\ up = EmptyBag /\ down = EmptyBag /\ faults = 0
      /\ interest = [t \in Numbers |-> "both"] /\ lpc = [l \in Loops |-> "new"]
  BY DEF Init, NetInit, ClientInit, ServerInit
<1>2. DOMAIN up = {} /\ DOMAIN down = {}
  BY <1>1 DEF EmptyBag, SetToBag
<1>3. \A t \in Numbers : Way(up, down, t) = 0 /\ Due(t) \in 0..1
  BY <1>2, NoneCounts DEF Way, Due
<1>4. Over(lpc) \in Nat
  BY OverIsNumber
<1>. QED BY <1>1, <1>2, <1>3, <1>4, FS_EmptySet DEF StormInv

\* The client answers every datagram with another one, and yet there is no more on
\* its way for a channel than one, and one for each fault and each loop that ended.
THEOREM ThereIsNoStorm == Spec => []NoStorm
<1>1. TypeInv /\ StormInv => NoStorm
  <2>. SUFFICES ASSUME TypeInv, StormInv, NEW t \in Numbers
                PROVE  OnTheWay(t) + (IF open[t] /\ interest[t] # "read" THEN 1 ELSE 0)
                         <= 1 + faults + Cardinality({l \in Loops : Ended(l)})
    BY DEF NoStorm
  <2>1. OnTheWay(t) = Way(up, down, t)
    BY WayIsOnTheWay
  <2>2. Over(lpc) = Cardinality({l \in Loops : Ended(l)})
    BY DEF Over, Ended
  <2>. QED BY <2>1, <2>2 DEF StormInv, Due
<1>. QED BY <1>1, InitStorm, NextStorm, InitLoop, NextLoop, TypeInvariant, PTL DEF Spec
=============================================================================
