-------------------------- MODULE BankServerProofs --------------------------
(* Theorems about BankServer, for any callers, servers, clients and bounds. *)
EXTENDS BankServer, TLAPS

LEMMA NextTypeOK == TypeOK /\ [Next]_vars => TypeOK'
<1>. SUFFICES ASSUME TypeOK, [Next]_vars PROVE TypeOK'
  OBVIOUS
<1>. USE BankServerAssumption
<1>1. CASE UNCHANGED vars
  BY <1>1 DEF TypeOK, vars, fieldVars, rmiVars, callVars, historyVars
<1>2. CASE OtherProgram
  BY <1>2 DEF TypeOK, OtherProgram, fieldVars, callVars, historyVars
<1>3. ASSUME NEW k \in Callers, NEW s \in Servers, Start(k, s) \/ Close(k, s) PROVE TypeOK'
  <2>1. PICK state \in {"idle", "flag", "closeFlag"} : Call(k, s, state)
    BY <1>3 DEF Start, Close
  <2>2. clientFlag' \in [Servers -> BOOLEAN]
    <3>1. (s \in Clients) \in BOOLEAN
      OBVIOUS
    <3>2. CASE clientFlag' = [clientFlag EXCEPT ![s] = s \in Clients]
      BY <3>1, <3>2, Zenon DEF TypeOK
    <3>3. CASE UNCHANGED clientFlag
      BY <3>3 DEF TypeOK
    <3>. QED BY <1>3, <3>2, <3>3 DEF Start, Close
  <2>5. clientBank' \in [Servers -> 0..MaxStarts]
    BY <1>3 DEF Start, Close, TypeOK
  <2>3. calls' \in [Callers -> 0..MaxCalls]
    BY <2>1 DEF Call, TypeOK
  <2>4. shared' \subseteq Servers
    BY <2>1 DEF Call, TypeOK
  <2>. QED BY <2>1, <2>2, <2>3, <2>4, <2>5 DEF Call, At, TypeOK, Steps, rmiVars
<1>4. ASSUME NEW k \in Callers, SetFlag(k) \/ NewBank(k) \/ ExportBank(k) PROVE TypeOK'
  <2>1. CASE SetFlag(k)
    BY <2>1 DEF SetFlag, Goto, TypeOK, Steps, rmiVars, historyVars
  <2>2. CASE NewBank(k)
    <3>1. starts' \in 0..MaxStarts /\ starts' \in Numbers
      BY <2>2 DEF NewBank, TypeOK, Numbers
    <3>. QED BY <2>2, <3>1 DEF NewBank, Goto, TypeOK, Steps, rmiVars
  <2>3. CASE ExportBank(k)
    <3>1. exported' \subseteq Numbers /\ stub' \in [Callers -> 0..MaxStarts]
      <4>1. bank[using[k]] \in 0..MaxStarts
        BY DEF TypeOK
      <4>2. CASE exported' = exported \cup {bank[using[k]]} /\ bank[using[k]] # 0
                 /\ stub' = [stub EXCEPT ![k] = bank[using[k]]]
        <5>1. bank[using[k]] \in Numbers
          BY <4>1, <4>2 DEF Numbers
        <5>2. exported' \subseteq Numbers
          BY <4>2, <5>1 DEF TypeOK
        <5>. QED BY <4>1, <4>2, <5>2 DEF TypeOK
      <4>3. CASE UNCHANGED <<exported, stub>>
        BY <4>3 DEF TypeOK
      <4>. QED BY <2>3, <4>2, <4>3 DEF ExportBank
    <3>2. startFlag' \in [Servers -> BOOLEAN] /\ pc' \in [Callers -> {"idle"} \cup Steps]
      BY <2>3 DEF ExportBank, TypeOK, Goto, Steps
    <3>. QED BY <2>3, <3>1, <3>2 DEF ExportBank, Goto, TypeOK, historyVars
  <2>. QED BY <1>4, <2>1, <2>2, <2>3
<1>5. ASSUME NEW k \in Callers, CreateRegistry(k) \/ Rebind(k) \/ Lookup(k) PROVE TypeOK'
  <2>1. CASE CreateRegistry(k)
    <3>1. registry' \in [Servers -> 0..MaxStarts] /\ port' \in 0..MaxStarts \cup {Foreign}
      BY <2>1 DEF CreateRegistry, PortTaken, TypeOK
    <3>2. startFlag' \in [Servers -> BOOLEAN] /\ pc' \in [Callers -> {"idle"} \cup Steps]
      BY <2>1 DEF CreateRegistry, PortTaken, Goto, TypeOK, Steps
    <3>3. orphans' \subseteq 0..MaxStarts
      <4>1. stub[k] \in 0..MaxStarts /\ orphans \subseteq 0..MaxStarts
        BY DEF TypeOK
      <4>2. UNCHANGED orphans \/ orphans' = orphans \cup {stub[k]}
        BY <2>1 DEF CreateRegistry, PortTaken
      <4>. QED BY <4>1, <4>2
    <3>. QED BY <2>1, <3>1, <3>2, <3>3 DEF CreateRegistry, PortTaken, Goto, TypeOK
  <2>2. CASE Rebind(k)
    BY <2>2 DEF Rebind, Goto, TypeOK, Steps, fieldVars, historyVars
  <2>3. CASE Lookup(k)
    <3>1. clientBank' \in [Servers -> 0..MaxStarts]
      BY <2>3 DEF Lookup, TypeOK
    <3>. QED BY <2>3, <3>1 DEF Lookup, Goto, TypeOK, Steps, rmiVars, historyVars
  <2>. QED BY <1>5, <2>1, <2>2, <2>3
<1>6. ASSUME NEW k \in Callers, CloseStep(k) PROVE TypeOK'
  <2>1. CASE ResetFlag(k)
    BY <2>1 DEF ResetFlag, Goto, TypeOK, Steps, rmiVars, historyVars
  <2>2. CASE UnexportBank(k)
    BY <2>2 DEF UnexportBank, Goto, TypeOK, Steps, fieldVars, historyVars
  <2>3. CASE UnexportRegistry(k)
    BY <2>3 DEF UnexportRegistry, Goto, TypeOK, Steps, fieldVars, historyVars
  <2>4. CASE Forget(k)
    BY <2>4 DEF Forget, Goto, TypeOK, Steps, rmiVars, historyVars
  <2>. QED BY <1>6, <2>1, <2>2, <2>3, <2>4 DEF CloseStep
<1>. QED BY <1>1, <1>2, <1>3, <1>4, <1>5, <1>6 DEF Next, StartStep

\* The variables keep their types.
THEOREM TypeCorrect == Spec => []TypeOK
<1>1. Init => TypeOK
  BY BankServerAssumption DEF Init, TypeOK, Numbers
<1>. QED BY <1>1, NextTypeOK, PTL DEF Spec

-----------------------------------------------------------------------------
(* Whose is what. A bank, and the registry of the same number, belongs to  *)
(* the server that made it, also when servers are shared.                  *)

\* What the port, the fields of a server and the stub of a caller can be.
OwnInv ==
    /\ \A s \in Servers : made[s] \subseteq 1..starts
    /\ \A s, t \in Servers : s # t => made[s] \cap made[t] = {}
    /\ \A s \in Servers : bank[s] \in made[s] \cup {0} /\ registry[s] \in made[s] \cup {0}
    /\ exported \subseteq 1..starts
    /\ port \in 0..starts \cup {Foreign}
    /\ \A s \in Servers : port \in made[s] => registry[s] = port
    /\ \A k \in Callers : pc[k] \in {"createRegistry", "rebind"} => stub[k] \in made[using[k]]

Starting == {"flag", "new", "export", "createRegistry", "rebind", "lookup"}

\* A client looks for a bank during its only start().
ClientInv ==
    /\ \A s \in Servers : s \notin Clients \/ ~clientFlag[s] => clientBank[s] = 0
    /\ \A k \in Callers : pc[k] \in Starting /\ using[k] \in Clients => clientFlag[using[k]]
    /\ \A k \in Callers : pc[k] = "lookup" => using[k] \in Clients

LEMMA NextOwnInv == TypeOK /\ OwnInv /\ [Next]_vars => OwnInv'
<1>. SUFFICES ASSUME TypeOK, OwnInv, [Next]_vars PROVE OwnInv'
  OBVIOUS
<1>. USE BankServerAssumption
<1>1. CASE UNCHANGED vars
  BY <1>1 DEF OwnInv, vars, fieldVars, rmiVars, callVars, historyVars
<1>2. CASE OtherProgram
  <2>1. port' \in {0, Foreign} /\ UNCHANGED <<registry, bank, made, exported, starts, pc, using, stub>>
    BY <1>2 DEF OtherProgram, fieldVars, callVars, historyVars
  <2>2. ASSUME NEW s \in Servers PROVE port' \notin made[s]
    BY <2>1, <2>2 DEF OwnInv, TypeOK
  <2>. QED BY <2>1, <2>2 DEF OwnInv, TypeOK
<1>3. ASSUME NEW k \in Callers, NEW s \in Servers, Start(k, s) \/ Close(k, s) PROVE OwnInv'
  <2>1. PICK state \in {"idle", "flag", "closeFlag"} : Call(k, s, state)
    BY <1>3 DEF Start, Close
  <2>2. UNCHANGED <<registry, bank, made, exported, port, starts, stub>>
    BY <2>1 DEF Call, rmiVars
  <2>3. ASSUME NEW l \in Callers, pc'[l] \in {"createRegistry", "rebind"}
        PROVE  pc'[l] = pc[l] /\ using'[l] = using[l]
    BY <2>1, <2>3 DEF Call, TypeOK
  <2>. QED BY <2>2, <2>3 DEF OwnInv
<1>4. ASSUME NEW k \in Callers, SetFlag(k) \/ Lookup(k) \/ ResetFlag(k) \/ Rebind(k) PROVE OwnInv'
  <2>1. UNCHANGED <<registry, bank, made, exported, port, starts, stub, using>>
    BY <1>4 DEF SetFlag, Lookup, ResetFlag, Rebind, Goto, rmiVars, fieldVars, historyVars
  <2>2. \A l \in Callers : pc'[l] \in {"createRegistry", "rebind"} => pc'[l] = pc[l]
    BY <1>4 DEF SetFlag, Lookup, ResetFlag, Rebind, Goto, TypeOK
  <2>. QED BY <2>1, <2>2 DEF OwnInv
<1>5. ASSUME NEW k \in Callers, NewBank(k) PROVE OwnInv'
  <2>1. /\ starts' = starts + 1 /\ starts < MaxStarts /\ starts \in 0..MaxStarts
        /\ bank' = [bank EXCEPT ![using[k]] = starts + 1]
        /\ made' = [made EXCEPT ![using[k]] = @ \cup {starts + 1}]
        /\ pc' = [pc EXCEPT ![k] = "export"]
        /\ UNCHANGED <<registry, exported, port, stub, using>>
    BY <1>5 DEF NewBank, Goto, TypeOK, rmiVars
  <2>2. using[k] \in Servers
    BY DEF TypeOK
  <2>3. \A s \in Servers : made'[s] = made[s] \cup (IF s = using[k] THEN {starts + 1} ELSE {})
    BY <2>1, <2>2 DEF TypeOK
  <2>4. \A s \in Servers : starts + 1 \notin made[s]
    BY <2>1 DEF OwnInv
  <2>5. port # starts + 1
    BY <2>1 DEF OwnInv
  <2>6. \A s \in Servers : made'[s] \subseteq 1..starts'
    BY <2>1, <2>3 DEF OwnInv
  <2>7. \A s, t \in Servers : s # t => made'[s] \cap made'[t] = {}
    BY <2>3, <2>4 DEF OwnInv
  <2>8. \A s \in Servers : bank'[s] \in made'[s] \cup {0} /\ registry'[s] \in made'[s] \cup {0}
    BY <2>1, <2>2, <2>3 DEF OwnInv, TypeOK
  <2>9. exported' \subseteq 1..starts' /\ port' \in 0..starts' \cup {Foreign}
    BY <2>1 DEF OwnInv
  <2>10. \A s \in Servers : port' \in made'[s] => registry'[s] = port'
    BY <2>1, <2>3, <2>5 DEF OwnInv
  <2>11. \A l \in Callers : pc'[l] \in {"createRegistry", "rebind"} => stub'[l] \in made'[using'[l]]
    BY <2>1, <2>3 DEF OwnInv, TypeOK
  <2>. QED BY <2>6, <2>7, <2>8, <2>9, <2>10, <2>11 DEF OwnInv
<1>6. ASSUME NEW k \in Callers, ExportBank(k) PROVE OwnInv'
  <2>1. UNCHANGED <<registry, bank, made, port, starts, using>>
    BY <1>6 DEF ExportBank, Goto, historyVars
  <2>2. using[k] \in Servers
    BY DEF TypeOK
  <2>3. \/ /\ bank[using[k]] # 0 /\ exported' = exported \cup {bank[using[k]]}
           /\ stub' = [stub EXCEPT ![k] = bank[using[k]]]
           /\ pc' = [pc EXCEPT ![k] = "createRegistry"]
        \/ UNCHANGED <<exported, stub>> /\ pc' = [pc EXCEPT ![k] = "idle"]
    BY <1>6 DEF ExportBank, Goto
  <2>4. exported' \subseteq 1..starts
    <3>1. bank[using[k]] # 0 => bank[using[k]] \in 1..starts
      BY <2>2 DEF OwnInv
    <3>2. exported \subseteq 1..starts
      BY DEF OwnInv
    <3>. QED BY <2>3, <3>1, <3>2
  <2>5. ASSUME NEW l \in Callers, pc'[l] \in {"createRegistry", "rebind"}
        PROVE  stub'[l] \in made[using[l]]
    <3>1. CASE l = k
      BY <2>2, <2>3, <2>5, <3>1 DEF OwnInv, TypeOK
    <3>2. CASE l # k
      BY <2>3, <2>5, <3>2 DEF OwnInv, TypeOK
    <3>. QED BY <3>1, <3>2
  <2>. QED BY <2>1, <2>4, <2>5 DEF OwnInv
<1>7. ASSUME NEW k \in Callers, CreateRegistry(k) PROVE OwnInv'
  <2>1. UNCHANGED <<bank, made, exported, starts, using, stub>>
    BY <1>7 DEF CreateRegistry, PortTaken, Goto
  <2>2. using[k] \in Servers /\ stub[k] \in made[using[k]]
    BY <1>7 DEF TypeOK, OwnInv, CreateRegistry, At
  <2>3. \A l \in Callers : pc'[l] \in {"createRegistry", "rebind"} => stub[l] \in made[using[l]]
    BY <1>7, <2>2 DEF OwnInv, TypeOK, CreateRegistry, PortTaken, Goto
  <2>4. CASE port' = stub[k] /\ registry' = [registry EXCEPT ![using[k]] = stub[k]]
    <3>1. \A s \in Servers : s # using[k] => registry'[s] = registry[s] /\ port' \notin made[s]
      BY <2>2, <2>4 DEF OwnInv, TypeOK
    <3>2. registry'[using[k]] = stub[k]
      BY <2>2, <2>4 DEF TypeOK
    <3>3. \A s \in Servers : port' \in made[s] => registry'[s] = port'
      BY <2>4, <3>1, <3>2
    <3>4. \A s \in Servers : registry'[s] \in made[s] \cup {0}
      BY <2>2, <3>1, <3>2 DEF OwnInv
    <3>5. port' \in 0..starts \cup {Foreign}
      BY <2>2, <2>4 DEF OwnInv, TypeOK
    <3>. QED BY <2>1, <2>3, <3>3, <3>4, <3>5 DEF OwnInv
  <2>5. CASE UNCHANGED <<port, registry>>
    BY <2>1, <2>3, <2>5 DEF OwnInv
  <2>. QED BY <1>7, <2>4, <2>5 DEF CreateRegistry, PortTaken
<1>8. ASSUME NEW k \in Callers, UnexportBank(k) \/ UnexportRegistry(k) \/ Forget(k) PROVE OwnInv'
  <2>1. UNCHANGED <<registry, made, starts, using, stub>>
    BY <1>8 DEF UnexportBank, UnexportRegistry, Forget, Goto, fieldVars, historyVars
  <2>2. \A l \in Callers : pc'[l] \in {"createRegistry", "rebind"} => pc'[l] = pc[l]
    BY <1>8 DEF UnexportBank, UnexportRegistry, Forget, Goto, TypeOK
  <2>3. exported' \subseteq exported /\ (port' = port \/ port' = 0)
    BY <1>8 DEF UnexportBank, UnexportRegistry, Forget, rmiVars
  <2>4. \A s \in Servers : bank'[s] \in {bank[s], 0}
    BY <1>8 DEF UnexportBank, UnexportRegistry, Forget, fieldVars, TypeOK
  <2>5. \A s \in Servers : 0 \notin made[s]
    BY DEF OwnInv, TypeOK
  <2>6. \A s \in Servers : port' \in made[s] => registry[s] = port'
    BY <2>3, <2>5 DEF OwnInv
  <2>7. port' \in 0..starts \cup {Foreign}
    BY <2>3 DEF OwnInv, TypeOK
  <2>. QED BY <2>1, <2>2, <2>3, <2>4, <2>6, <2>7 DEF OwnInv
<1>. QED BY <1>1, <1>2, <1>3, <1>4, <1>5, <1>6, <1>7, <1>8 DEF Next, StartStep, CloseStep

LEMMA NextClientInv == TypeOK /\ ClientInv /\ [Next]_vars => ClientInv'
<1>. SUFFICES ASSUME TypeOK, ClientInv, [Next]_vars PROVE ClientInv'
  OBVIOUS
<1>. USE DEF Starting
<1>1. CASE UNCHANGED vars \/ OtherProgram
  BY <1>1 DEF ClientInv, vars, OtherProgram, fieldVars, callVars
<1>2. ASSUME NEW k \in Callers, NEW s \in Servers, Start(k, s) PROVE ClientInv'
  <2>1. /\ clientFlag' = [clientFlag EXCEPT ![s] = s \in Clients] /\ UNCHANGED clientBank
        /\ using' = [using EXCEPT ![k] = s]
        /\ \E state \in {"idle", "flag"} : pc' = [pc EXCEPT ![k] = state]
    BY <1>2 DEF Start, Call
  <2>2. \A t \in Servers : t \notin Clients \/ ~clientFlag'[t] => t \notin Clients \/ ~clientFlag[t]
    BY <2>1 DEF TypeOK
  <2>3. \A t \in Servers : t \in Clients /\ clientFlag[t] => clientFlag'[t]
    BY <2>1 DEF TypeOK
  <2>4. ASSUME NEW l \in Callers PROVE /\ pc'[l] = "lookup" => pc[l] = "lookup" /\ l # k
                                       /\ l # k => pc'[l] = pc[l] /\ using'[l] = using[l]
    BY <2>1 DEF TypeOK
  <2>5. s \in Clients => clientFlag'[using'[k]]
    BY <2>1 DEF TypeOK
  <2>6. ASSUME NEW l \in Callers, pc'[l] \in Starting, using'[l] \in Clients
        PROVE  clientFlag'[using'[l]]
    <3>1. CASE l = k
      BY <2>1, <2>5, <2>6, <3>1 DEF TypeOK
    <3>2. CASE l # k
      BY <2>3, <2>4, <2>6, <3>2 DEF ClientInv, TypeOK
    <3>. QED BY <3>1, <3>2
  <2>. QED BY <2>1, <2>2, <2>4, <2>6 DEF ClientInv
<1>3. ASSUME NEW k \in Callers, NEW s \in Servers, Close(k, s) PROVE ClientInv'
  <2>1. /\ clientBank' = [clientBank EXCEPT ![s] = 0] /\ UNCHANGED clientFlag
        /\ using' = [using EXCEPT ![k] = s]
        /\ \E state \in {"idle", "closeFlag"} : pc' = [pc EXCEPT ![k] = state]
    BY <1>3 DEF Close, Call
  <2>2. \A t \in Servers : clientBank'[t] \in {clientBank[t], 0}
    BY <2>1 DEF TypeOK
  <2>3. \A l \in Callers : pc'[l] \in Starting => pc'[l] = pc[l] /\ using'[l] = using[l]
    BY <2>1 DEF TypeOK
  <2>. QED BY <2>1, <2>2, <2>3 DEF ClientInv
<1>4. ASSUME NEW k \in Callers, Lookup(k) PROVE ClientInv'
  <2>1. /\ UNCHANGED <<using, clientFlag>> /\ pc' = [pc EXCEPT ![k] = "idle"]
        /\ \A t \in Servers : t # using[k] => clientBank'[t] = clientBank[t]
        /\ pc[k] = "lookup"
    BY <1>4 DEF Lookup, Goto, At, TypeOK
  <2>2. using[k] \in Clients /\ clientFlag[using[k]]
    BY <2>1 DEF ClientInv
  <2>3. \A l \in Callers : pc'[l] \in Starting => pc'[l] = pc[l]
    BY <2>1 DEF TypeOK
  <2>. QED BY <2>1, <2>2, <2>3 DEF ClientInv
<1>5. ASSUME NEW k \in Callers, SetFlag(k) \/ NewBank(k) \/ ExportBank(k) \/ CreateRegistry(k) \/ Rebind(k)
      PROVE  ClientInv'
  <2>1. UNCHANGED <<using, clientFlag, clientBank>>
    BY <1>5 DEF SetFlag, NewBank, ExportBank, CreateRegistry, PortTaken, Rebind, Goto, fieldVars
  <2>2. /\ pc[k] \in Starting
        /\ \E state \in {"idle"} \cup Starting :
              /\ pc' = [pc EXCEPT ![k] = state]
              /\ state = "lookup" => using[k] \in Clients
    BY <1>5 DEF SetFlag, NewBank, ExportBank, CreateRegistry, PortTaken, Rebind, Goto, At
  <2>. QED BY <2>1, <2>2 DEF ClientInv, TypeOK
<1>6. ASSUME NEW k \in Callers, CloseStep(k) PROVE ClientInv'
  <2>1. UNCHANGED <<using, clientFlag, clientBank>>
    BY <1>6 DEF CloseStep, ResetFlag, UnexportBank, UnexportRegistry, Forget, Goto, fieldVars
  <2>2. \A l \in Callers : pc'[l] \in Starting => pc'[l] = pc[l]
    BY <1>6 DEF CloseStep, ResetFlag, UnexportBank, UnexportRegistry, Forget, Goto, TypeOK
  <2>. QED BY <2>1, <2>2 DEF ClientInv
<1>. QED BY <1>1, <1>2, <1>3, <1>4, <1>5, <1>6 DEF Next, StartStep

-----------------------------------------------------------------------------
(* A server that nobody shares.                                            *)

Works(k, s) == using[k] = s /\ pc[k] # "idle"

\* What start() and close() work for. A registry of s is bound to the bank of
\* the same number.
Serving(s) ==
    /\ port = registry[s] /\ port = bank[s] /\ port \in Numbers
    /\ bound[port] = port /\ port \in exported
    /\ exported \cap made[s] \subseteq orphans \cup {port}
Freed(s) ==
    /\ port \notin made[s]
    /\ exported \cap made[s] \subseteq orphans
Settled(s) == IF startFlag[s] THEN Serving(s) ELSE Freed(s)

\* Between two calls,
Rested(s) ==
    /\ Settled(s)
    /\ clientBank[s] # 0 => startFlag[s] /\ clientBank[s] = bank[s]

\* and at each step of the one caller k that is in a call.
Stage(s, k) ==
    /\ clientBank[s] = 0
    /\ pc[k] \in {"flag", "closeFlag"} => Settled(s)
    /\ pc[k] = "new" => startFlag[s] /\ Freed(s)
    /\ pc[k] = "export" => startFlag[s] /\ Freed(s) /\ bank[s] \in Numbers \ exported
    /\ pc[k] = "createRegistry" =>
          /\ startFlag[s] /\ port \notin made[s]
          /\ stub[k] = bank[s] /\ bank[s] \in exported \cap made[s]
          /\ exported \cap made[s] \subseteq orphans \cup {bank[s]}
    /\ pc[k] = "rebind" =>
          /\ startFlag[s] /\ stub[k] = bank[s]
          /\ port = registry[s] /\ port = bank[s] /\ port \in Numbers /\ port \in exported
          /\ exported \cap made[s] \subseteq orphans \cup {port}
    /\ pc[k] = "lookup" => startFlag[s] /\ Serving(s)
    /\ pc[k] = "unexportBank" => ~startFlag[s] /\ (Serving(s) \/ Freed(s))
    /\ pc[k] = "unexportRegistry" => ~startFlag[s] /\ exported \cap made[s] \subseteq orphans
    /\ pc[k] = "forget" => ~startFlag[s] /\ Freed(s)

ServerInv(s) ==
    s \notin shared =>
        /\ \A k, l \in Callers : Works(k, s) /\ Works(l, s) => k = l
        /\ Resting(s) => Rested(s)
        /\ \A k \in Callers : Works(k, s) => Stage(s, k)

\* A step that does nothing to the server s.
Untouched(s) ==
    /\ startFlag'[s] = startFlag[s] /\ bank'[s] = bank[s] /\ registry'[s] = registry[s]
    /\ clientBank'[s] = clientBank[s] /\ made'[s] = made[s]
    /\ exported' \cap made[s] = exported \cap made[s]
    /\ port' = port \/ (port \notin made[s] /\ port' \notin made[s])
    /\ \A n \in made[s] : bound'[n] = bound[n]
    /\ orphans \subseteq orphans'
    /\ s \in shared => s \in shared'
    /\ \A k \in Callers : (using'[k] = s /\ pc'[k] # "idle") <=> Works(k, s)
    /\ \A k \in Callers : Works(k, s) => pc'[k] = pc[k] /\ stub'[k] = stub[k]

LEMMA UntouchedKeeps ==
    ASSUME NEW s \in Servers, TypeOK, OwnInv, ServerInv(s), Untouched(s)
    PROVE  ServerInv(s)'
<1>. SUFFICES ASSUME s \notin shared
              PROVE  /\ \A k, l \in Callers : Works(k, s)' /\ Works(l, s)' => k = l
                     /\ Resting(s)' => Rested(s)'
                     /\ \A k \in Callers : Works(k, s)' => Stage(s, k)'
  BY DEF ServerInv, Untouched
<1>1. \A k \in Callers : Works(k, s)' <=> Works(k, s)
  BY DEF Untouched, Works
<1>2. Resting(s)' <=> Resting(s)
  BY <1>1 DEF Resting, Works, At
<1>3. Serving(s) => Serving(s)'
  <2>. SUFFICES ASSUME Serving(s) PROVE Serving(s)'
    OBVIOUS
  <2>1. port \in made[s]
    BY DEF Serving, OwnInv, Numbers
  <2>2. port' = port
    BY <2>1 DEF Untouched
  <2>. QED BY <2>1, <2>2 DEF Serving, Untouched
<1>4. Freed(s) => Freed(s)'
  BY DEF Freed, Untouched
<1>5. Settled(s) => Settled(s)'
  BY <1>3, <1>4 DEF Settled, Untouched
<1>6. Rested(s) => Rested(s)'
  BY <1>5 DEF Rested, Untouched
<1>7. ASSUME NEW k \in Callers, Works(k, s), Stage(s, k) PROVE Stage(s, k)'
  <2>1. pc'[k] = pc[k] /\ stub'[k] = stub[k] /\ using[k] = s
    BY <1>7 DEF Untouched, Works
  <2>2. clientBank'[s] = 0 /\ startFlag'[s] = startFlag[s]
    BY <1>7 DEF Untouched, Stage
  <2>3. pc[k] = "export" => bank'[s] \in Numbers \ exported'
    BY <1>7 DEF Stage, Untouched, OwnInv, Numbers
  <2>4. pc[k] = "createRegistry" =>
          /\ port' \notin made'[s]
          /\ stub'[k] = bank'[s] /\ bank'[s] \in exported' \cap made'[s]
          /\ exported' \cap made'[s] \subseteq orphans' \cup {bank'[s]}
    BY <1>7, <2>1 DEF Stage, Untouched
  <2>5. ASSUME pc[k] = "rebind"
        PROVE /\ stub'[k] = bank'[s]
              /\ port' = registry'[s] /\ port' = bank'[s] /\ port' \in Numbers /\ port' \in exported'
              /\ exported' \cap made'[s] \subseteq orphans' \cup {port'}
    <3>1. port \in made[s] /\ port' = port
      BY <1>7, <2>5 DEF Stage, OwnInv, Numbers, Untouched
    <3>. QED BY <1>7, <2>1, <2>5, <3>1 DEF Stage, Untouched
  <2>6. pc[k] = "unexportRegistry" => exported' \cap made'[s] \subseteq orphans'
    BY <1>7 DEF Stage, Untouched
  <2>. QED BY <1>3, <1>4, <1>5, <1>7, <2>1, <2>2, <2>3, <2>4, <2>5, <2>6 DEF Stage
<1>. QED BY <1>1, <1>2, <1>6, <1>7 DEF ServerInv

\* A caller works on one server at a time.
LEMMA OthersUntouched ==
    ASSUME NEW k \in Callers, NEW s \in Servers, TypeOK, OwnInv, s # using[k],
           StartStep(k) \/ CloseStep(k)
    PROVE  Untouched(s)
<1>. USE BankServerAssumption
<1>0. using[k] \in Servers /\ made[s] \cap made[using[k]] = {} /\ 0 \notin made[s]
  BY DEF TypeOK, OwnInv
<1>1. /\ UNCHANGED <<using, shared>>
      /\ \E state : pc' = [pc EXCEPT ![k] = state]
      /\ \A l \in Callers : l # k => stub'[l] = stub[l]
  BY DEF StartStep, CloseStep, SetFlag, NewBank, ExportBank, CreateRegistry, PortTaken, Rebind,
         Lookup, ResetFlag, UnexportBank, UnexportRegistry, Forget, Goto, historyVars, TypeOK
<1>2. \A l \in Callers : /\ using'[l] = using[l]
                         /\ using[l] = s => l # k /\ pc'[l] = pc[l] /\ stub'[l] = stub[l]
  BY <1>1 DEF TypeOK
<1>3. /\ startFlag'[s] = startFlag[s] /\ clientBank'[s] = clientBank[s]
      /\ orphans \subseteq orphans'
  BY DEF StartStep, CloseStep, SetFlag, NewBank, ExportBank, CreateRegistry, PortTaken, Rebind,
         Lookup, ResetFlag, UnexportBank, UnexportRegistry, Forget, historyVars, fieldVars, TypeOK
<1>4. bank'[s] = bank[s] /\ registry'[s] = registry[s] /\ made'[s] = made[s]
  BY DEF StartStep, CloseStep, SetFlag, NewBank, ExportBank, CreateRegistry, PortTaken, Rebind,
         Lookup, ResetFlag, UnexportBank, UnexportRegistry, Forget, historyVars, fieldVars, TypeOK
<1>5. exported' \cap made[s] = exported \cap made[s]
  <2>1. bank[using[k]] \notin made[s]
    BY <1>0 DEF OwnInv
  <2>2. \/ UNCHANGED exported
        \/ exported' = exported \cup {bank[using[k]]}
        \/ exported' = exported \ {bank[using[k]]}
    BY DEF StartStep, CloseStep, SetFlag, NewBank, ExportBank, CreateRegistry, Rebind,
           Lookup, ResetFlag, UnexportBank, UnexportRegistry, Forget, rmiVars
  <2>. QED BY <2>1, <2>2
<1>6. port' = port \/ (port \notin made[s] /\ port' \notin made[s])
  <2>1. CASE CreateRegistry(k)
    <3>1. stub[k] \notin made[s]
      BY <1>0, <2>1 DEF OwnInv, CreateRegistry, At
    <3>. QED BY <1>0, <2>1, <3>1 DEF CreateRegistry, PortTaken
  <2>2. CASE UnexportRegistry(k)
    <3>1. registry[using[k]] \notin made[s]
      BY <1>0 DEF OwnInv
    <3>. QED BY <1>0, <2>2, <3>1 DEF UnexportRegistry
  <2>3. CASE ~CreateRegistry(k) /\ ~UnexportRegistry(k)
    BY <2>3 DEF StartStep, CloseStep, SetFlag, NewBank, ExportBank, Rebind,
           Lookup, ResetFlag, UnexportBank, Forget, rmiVars
  <2>. QED BY <2>1, <2>2, <2>3
<1>7. \A n \in made[s] : bound'[n] = bound[n]
  <2>1. CASE Rebind(k)
    <3>1. registry[using[k]] \notin made[s]
      BY <1>0 DEF OwnInv
    <3>2. made[s] \subseteq Numbers
      BY DEF TypeOK
    <3>. QED BY <2>1, <3>1, <3>2 DEF Rebind, TypeOK
  <2>2. CASE ~Rebind(k)
    BY <2>2 DEF StartStep, CloseStep, SetFlag, NewBank, ExportBank, CreateRegistry,
           Lookup, ResetFlag, UnexportBank, UnexportRegistry, Forget, rmiVars
  <2>. QED BY <2>1, <2>2
<1>. QED BY <1>1, <1>2, <1>3, <1>4, <1>5, <1>6, <1>7 DEF Untouched, Works

\* A step of a call that nobody else is in the way of.
LEMMA CallGoesOn ==
    ASSUME NEW k \in Callers, NEW s \in Servers, TypeOK, ServerInv(s), s \notin shared, Works(k, s),
           NEW state, Goto(k, state), UNCHANGED shared,
           state = "idle" => Rested(s)', state # "idle" => Stage(s, k)'
    PROVE  ServerInv(s)'
<1>1. \A l \in Callers : l # k => ~Works(l, s)
  BY DEF ServerInv
<1>2. \A l \in Callers : Works(l, s)' => l = k
  BY <1>1 DEF Works, Goto, TypeOK
<1>3. pc'[k] = state /\ using'[k] = s
  BY DEF Goto, TypeOK, Works
<1>4. Resting(s)' => state = "idle"
  BY <1>3 DEF Resting, At
<1>5. ASSUME NEW l \in Callers, Works(l, s)' PROVE Stage(s, l)'
  <2>1. l = k /\ state # "idle"
    BY <1>2, <1>3, <1>5 DEF Works
  <2>. QED BY <2>1
<1>. QED BY <1>2, <1>4, <1>5 DEF ServerInv

LEMMA StartStepInv ==
    ASSUME NEW k \in Callers, NEW s \in Servers, TypeOK, OwnInv, ServerInv(s), s \notin shared,
           using[k] = s, StartStep(k)
    PROVE  ServerInv(s)'
<1>. USE BankServerAssumption
<1>0. /\ clientBank[s] = 0 /\ Works(k, s) /\ Stage(s, k) /\ UNCHANGED shared
      /\ made[s] \subseteq 1..starts /\ starts \in 0..MaxStarts /\ 0 \notin made[s]
  <2>1. pc[k] # "idle" /\ UNCHANGED shared
    BY DEF StartStep, SetFlag, NewBank, ExportBank, CreateRegistry, PortTaken, Rebind, Lookup, At,
           historyVars
  <2>2. Works(k, s)
    BY <2>1 DEF Works
  <2>. QED BY <2>1, <2>2 DEF ServerInv, Stage, OwnInv, TypeOK
<1>1. CASE SetFlag(k)
  <2>1. /\ UNCHANGED <<bank, registry, clientBank, rmiVars, made, orphans>> /\ pc[k] = "flag"
        /\ startFlag'[s]
    BY <1>1 DEF SetFlag, At, historyVars, TypeOK
  <2>2. Settled(s)
    BY <1>0, <2>1 DEF Stage
  <2>3. CASE startFlag[s]
    <3>1. Rested(s)'
      BY <1>0, <2>1, <2>2, <2>3 DEF Rested, Settled, Serving, rmiVars
    <3>2. Goto(k, "idle")
      BY <1>1, <2>3 DEF SetFlag
    <3>. QED BY <1>0, <3>1, <3>2, CallGoesOn
  <2>4. CASE ~startFlag[s]
    <3>1. Goto(k, "new") /\ pc'[k] = "new"
      BY <1>1, <2>4 DEF SetFlag, Goto, TypeOK
    <3>2. Freed(s)'
      BY <2>1, <2>2, <2>4 DEF Settled, Freed, rmiVars
    <3>3. Stage(s, k)'
      BY <1>0, <2>1, <3>1, <3>2 DEF Stage
    <3>. QED BY <1>0, <3>1, <3>3, CallGoesOn
  <2>. QED BY <2>3, <2>4
<1>2. CASE NewBank(k)
  <2>1. /\ UNCHANGED <<startFlag, registry, clientBank, exported, port, orphans>>
        /\ pc[k] = "new" /\ starts < MaxStarts
        /\ bank'[s] = starts + 1 /\ made'[s] = made[s] \cup {starts + 1}
        /\ Goto(k, "export") /\ pc'[k] = "export"
    BY <1>2 DEF NewBank, At, Goto, TypeOK, rmiVars
  <2>2. startFlag[s] /\ Freed(s)
    BY <1>0, <2>1 DEF Stage
  <2>3. starts + 1 \notin exported /\ port # starts + 1 /\ starts + 1 \in Numbers
    BY <1>0, <2>1 DEF OwnInv, Numbers
  <2>4. Freed(s)'
    BY <2>1, <2>2, <2>3 DEF Freed
  <2>5. Stage(s, k)'
    BY <1>0, <2>1, <2>2, <2>3, <2>4 DEF Stage
  <2>. QED BY <1>0, <2>1, <2>5, CallGoesOn
<1>3. CASE ExportBank(k)
  <2>1. pc[k] = "export" /\ UNCHANGED <<bank, registry, clientBank, port, made, orphans>>
    BY <1>3 DEF ExportBank, At, historyVars
  <2>2. startFlag[s] /\ Freed(s) /\ bank[s] \in Numbers \ exported
    BY <1>0, <2>1 DEF Stage
  <2>3. bank[s] # 0
    BY <2>2 DEF Numbers
  <2>4. /\ exported' = exported \cup {bank[s]} /\ UNCHANGED startFlag
        /\ stub'[k] = bank[s]
        /\ Goto(k, "createRegistry") /\ pc'[k] = "createRegistry"
    BY <1>3, <2>2, <2>3 DEF ExportBank, Goto, TypeOK
  <2>5. bank[s] \in made[s]
    BY <2>3 DEF OwnInv
  <2>6. Stage(s, k)'
    BY <1>0, <2>1, <2>2, <2>4, <2>5 DEF Stage, Freed
  <2>. QED BY <1>0, <2>4, <2>6, CallGoesOn
<1>4. CASE CreateRegistry(k)
  <2>1. pc[k] = "createRegistry" /\ UNCHANGED <<bank, clientBank, exported, made, stub>>
    BY <1>4 DEF CreateRegistry, At
  <2>2. /\ startFlag[s] /\ port \notin made[s]
        /\ stub[k] = bank[s] /\ bank[s] \in exported \cap made[s]
        /\ exported \cap made[s] \subseteq orphans \cup {bank[s]}
    BY <1>0, <2>1 DEF Stage
  <2>3. CASE PortTaken(k)
    <3>1. /\ ~startFlag'[s] /\ orphans' = orphans \cup {bank[s]} /\ UNCHANGED port
          /\ Goto(k, "idle")
      BY <2>2, <2>3 DEF PortTaken, TypeOK
    <3>2. Rested(s)'
      BY <1>0, <2>1, <2>2, <3>1 DEF Rested, Settled, Freed
    <3>. QED BY <1>0, <3>1, <3>2, CallGoesOn
  <2>4. CASE ~PortTaken(k)
    <3>1. /\ port' = bank[s] /\ registry'[s] = bank[s] /\ UNCHANGED <<startFlag, orphans>>
          /\ Goto(k, "rebind") /\ pc'[k] = "rebind"
      BY <1>4, <2>2, <2>4 DEF CreateRegistry, Goto, TypeOK
    <3>2. bank[s] \in Numbers
      BY <1>0, <2>2 DEF Numbers
    <3>3. Stage(s, k)'
      BY <1>0, <2>1, <2>2, <3>1, <3>2 DEF Stage
    <3>. QED BY <1>0, <3>1, <3>3, CallGoesOn
  <2>. QED BY <2>3, <2>4
<1>5. CASE Rebind(k)
  <2>1. /\ pc[k] = "rebind"
        /\ UNCHANGED <<startFlag, bank, registry, clientBank, exported, port, made, orphans>>
    BY <1>5 DEF Rebind, At, fieldVars, historyVars
  <2>2. /\ startFlag[s] /\ stub[k] = bank[s]
        /\ port = registry[s] /\ port = bank[s] /\ port \in Numbers /\ port \in exported
        /\ exported \cap made[s] \subseteq orphans \cup {port}
    BY <1>0, <2>1 DEF Stage
  <2>3. bound'[port] = port
    BY <1>5, <2>2 DEF Rebind, TypeOK
  <2>4. Serving(s)'
    BY <2>1, <2>2, <2>3 DEF Serving
  <2>5. PICK state \in {"idle", "lookup"} : Goto(k, state) /\ pc'[k] = state
    BY <1>5 DEF Rebind, Goto, TypeOK
  <2>6. Rested(s)' /\ (state = "lookup" => Stage(s, k)')
    BY <1>0, <2>1, <2>2, <2>4, <2>5 DEF Rested, Settled, Stage
  <2>. QED BY <1>0, <2>5, <2>6, CallGoesOn
<1>6. CASE Lookup(k)
  <2>1. /\ pc[k] = "lookup" /\ UNCHANGED <<startFlag, bank, registry, rmiVars, made, orphans>>
        /\ Goto(k, "idle")
    BY <1>6 DEF Lookup, At, historyVars
  <2>2. startFlag[s] /\ Serving(s)
    BY <1>0, <2>1 DEF Stage
  <2>3. port # 0 /\ bound[port] = port /\ port \in Numbers /\ port = bank[s]
    BY <2>2 DEF Serving, Numbers
  <2>4. clientBank'[s] = bank[s]
    BY <1>6, <2>3 DEF Lookup, TypeOK
  <2>5. Rested(s)'
    BY <2>1, <2>2, <2>4 DEF Rested, Settled, Serving, rmiVars
  <2>. QED BY <1>0, <2>1, <2>5, CallGoesOn
<1>. QED BY <1>1, <1>2, <1>3, <1>4, <1>5, <1>6 DEF StartStep

LEMMA CloseStepInv ==
    ASSUME NEW k \in Callers, NEW s \in Servers, TypeOK, OwnInv, ServerInv(s), s \notin shared,
           using[k] = s, CloseStep(k)
    PROVE  ServerInv(s)'
<1>0. /\ clientBank[s] = 0 /\ Works(k, s) /\ Stage(s, k)
      /\ UNCHANGED <<shared, clientBank, registry, made, orphans>>
      /\ made[s] \subseteq 1..starts /\ starts \in 0..MaxStarts /\ 0 \notin made[s]
  <2>1. pc[k] # "idle" /\ UNCHANGED <<shared, clientBank, registry, made, orphans>>
    BY DEF CloseStep, ResetFlag, UnexportBank, UnexportRegistry, Forget, At, historyVars, fieldVars
  <2>2. Works(k, s)
    BY <2>1 DEF Works
  <2>. QED BY <2>1, <2>2, BankServerAssumption DEF ServerInv, Stage, OwnInv, TypeOK
<1>1. CASE ResetFlag(k)
  <2>1. /\ pc[k] = "closeFlag" /\ UNCHANGED <<bank, rmiVars>> /\ ~startFlag'[s]
        /\ Goto(k, "unexportBank") /\ pc'[k] = "unexportBank"
    BY <1>1 DEF ResetFlag, At, Goto, TypeOK
  <2>2. (Serving(s) \/ Freed(s))'
    BY <1>0, <2>1 DEF Stage, Settled, Serving, Freed, rmiVars
  <2>3. Stage(s, k)'
    BY <1>0, <2>1, <2>2 DEF Stage
  <2>. QED BY <1>0, <2>1, <2>3, CallGoesOn
<1>2. CASE UnexportBank(k)
  <2>1. /\ pc[k] = "unexportBank" /\ UNCHANGED <<startFlag, bank, port>>
        /\ exported' = exported \ {bank[s]}
    BY <1>2 DEF UnexportBank, At, fieldVars
  <2>2. ~startFlag[s] /\ (Serving(s) \/ Freed(s))
    BY <1>0, <2>1 DEF Stage
  <2>3. exported' \cap made[s] \subseteq orphans
    BY <2>1, <2>2 DEF Serving, Freed
  <2>4. CASE bank[s] \in exported
    <3>1. Goto(k, "unexportRegistry") /\ pc'[k] = "unexportRegistry"
      BY <1>2, <2>4 DEF UnexportBank, Goto, TypeOK
    <3>2. Stage(s, k)'
      BY <1>0, <2>1, <2>2, <2>3, <3>1 DEF Stage
    <3>. QED BY <1>0, <3>1, <3>2, CallGoesOn
  <2>5. CASE bank[s] \notin exported
    <3>1. Goto(k, "forget") /\ pc'[k] = "forget"
      BY <1>2, <2>5 DEF UnexportBank, Goto, TypeOK
    <3>2. Freed(s)'
      BY <1>0, <2>1, <2>2, <2>3, <2>5 DEF Freed, Serving
    <3>3. Stage(s, k)'
      BY <1>0, <2>1, <2>2, <3>1, <3>2 DEF Stage
    <3>. QED BY <1>0, <3>1, <3>3, CallGoesOn
  <2>. QED BY <2>4, <2>5
<1>3. CASE UnexportRegistry(k)
  <2>1. /\ pc[k] = "unexportRegistry" /\ UNCHANGED <<startFlag, exported>>
        /\ port' = IF port = registry[s] THEN 0 ELSE port
        /\ Goto(k, "forget") /\ pc'[k] = "forget"
    BY <1>3 DEF UnexportRegistry, At, fieldVars, Goto, TypeOK
  <2>2. ~startFlag[s] /\ exported \cap made[s] \subseteq orphans
    BY <1>0, <2>1 DEF Stage
  <2>3. port' \notin made[s]
    BY <1>0, <2>1 DEF OwnInv
  <2>4. Freed(s)'
    BY <1>0, <2>1, <2>2, <2>3 DEF Freed
  <2>5. Stage(s, k)'
    BY <1>0, <2>1, <2>2, <2>4 DEF Stage
  <2>. QED BY <1>0, <2>1, <2>5, CallGoesOn
<1>4. CASE Forget(k)
  <2>1. /\ pc[k] = "forget" /\ UNCHANGED <<startFlag, rmiVars>> /\ Goto(k, "idle")
    BY <1>4 DEF Forget, At
  <2>2. Rested(s)'
    BY <1>0, <2>1 DEF Stage, Rested, Settled, Freed, rmiVars
  <2>. QED BY <1>0, <2>1, <2>2, CallGoesOn
<1>. QED BY <1>1, <1>2, <1>3, <1>4 DEF CloseStep

\* A call begins on a server that rests, or the server is shared from now on.
LEMMA CallInv ==
    ASSUME NEW k \in Callers, NEW s \in Servers, NEW t \in Servers, TypeOK, OwnInv, ClientInv,
           ServerInv(s), Start(k, t) \/ Close(k, t)
    PROVE  ServerInv(s)'
<1>1. PICK state \in {"idle", "flag", "closeFlag"} : Call(k, t, state)
  BY DEF Start, Close
<1>2. UNCHANGED <<startFlag, bank, registry, rmiVars, stub, made, orphans>> /\ pc[k] = "idle"
  BY <1>1 DEF Call, At
<1>3. \A l \in Callers : /\ l # k => pc'[l] = pc[l] /\ using'[l] = using[l]
                         /\ pc'[k] = state /\ using'[k] = t
  BY <1>1 DEF Call, TypeOK
<1>4. CASE s # t
  <2>1. clientBank'[s] = clientBank[s] /\ (s \in shared => s \in shared')
    BY <1>1, <1>4 DEF Start, Close, Call, TypeOK
  <2>2. \A l \in Callers : (using'[l] = s /\ pc'[l] # "idle") <=> Works(l, s)
    BY <1>2, <1>3, <1>4 DEF Works
  <2>3. \A l \in Callers : Works(l, s) => pc'[l] = pc[l]
    BY <1>2, <1>3 DEF Works
  <2>4. Untouched(s)
    BY <1>2, <2>1, <2>2, <2>3 DEF Untouched, rmiVars
  <2>. QED BY <2>4, UntouchedKeeps
<1>5. CASE s = t
  <2>. SUFFICES ASSUME s \notin shared'
                PROVE  /\ \A l, n \in Callers : Works(l, s)' /\ Works(n, s)' => l = n
                       /\ Resting(s)' => Rested(s)'
                       /\ \A l \in Callers : Works(l, s)' => Stage(s, l)'
    BY DEF ServerInv
  <2>1. Resting(s) /\ s \notin shared
    BY <1>1, <1>5 DEF Call
  <2>2. Rested(s)
    BY <2>1 DEF ServerInv
  <2>3. \A l \in Callers : Works(l, s)' => l = k /\ state # "idle"
    BY <1>3, <2>1 DEF Works, Resting, At
  <2>4. clientBank'[s] \in {clientBank[s], 0}
    BY <1>5 DEF Start, Close, TypeOK
  <2>5. Rested(s)'
    BY <1>2, <2>2, <2>4 DEF Rested, Settled, Serving, Freed, rmiVars
  <2>6. state # "idle" => clientBank'[s] = 0
    <3>1. CASE Start(k, t)
      BY <1>3, <1>5, <3>1 DEF Start, Call, ClientInv, TypeOK
    <3>2. CASE Close(k, t)
      BY <1>5, <3>2 DEF Close, TypeOK
    <3>. QED BY <3>1, <3>2
  <2>7. state # "idle" => Stage(s, k)'
    BY <1>3, <2>5, <2>6 DEF Stage, Rested
  <2>. QED BY <2>3, <2>5, <2>7
<1>. QED BY <1>4, <1>5

Inv == TypeOK /\ OwnInv /\ ClientInv /\ \A s \in Servers : ServerInv(s)

LEMMA InvHolds == Spec => []Inv
<1>1. Init => Inv
  <2>. SUFFICES ASSUME Init PROVE Inv
    OBVIOUS
  <2>1. TypeOK
    BY BankServerAssumption DEF Init, TypeOK, Numbers
  <2>2. OwnInv
    BY BankServerAssumption DEF Init, OwnInv
  <2>3. ClientInv
    BY DEF Init, ClientInv, Starting
  <2>4. \A s \in Servers : ServerInv(s)
    BY DEF Init, ServerInv, Works, Resting, At, Rested, Settled, Freed
  <2>. QED BY <2>1, <2>2, <2>3, <2>4 DEF Inv
<1>2. Inv /\ [Next]_vars => Inv'
  <2>. SUFFICES ASSUME Inv, [Next]_vars PROVE Inv'
    OBVIOUS
  <2>1. TypeOK /\ OwnInv /\ ClientInv
    BY DEF Inv
  <2>2. TypeOK' /\ OwnInv' /\ ClientInv'
    BY <2>1, NextTypeOK, NextOwnInv, NextClientInv
  <2>3. ASSUME NEW s \in Servers PROVE ServerInv(s)'
    <3>1. ServerInv(s)
      BY DEF Inv
    <3>2. CASE UNCHANGED vars
      <4>1. Untouched(s)
        BY <3>2 DEF Untouched, Works, vars, fieldVars, rmiVars, callVars, historyVars
      <4>. QED BY <2>1, <3>1, <4>1, UntouchedKeeps
    <3>3. CASE OtherProgram
      <4>1. port \notin made[s] /\ port' \notin made[s]
        BY <2>1, <3>3, BankServerAssumption DEF OtherProgram, OwnInv, TypeOK
      <4>2. Untouched(s)
        BY <3>3, <4>1 DEF OtherProgram, Untouched, Works, fieldVars, callVars, historyVars
      <4>. QED BY <2>1, <3>1, <4>2, UntouchedKeeps
    <3>4. ASSUME NEW k \in Callers, NEW t \in Servers, Start(k, t) \/ Close(k, t)
          PROVE  ServerInv(s)'
      BY <2>1, <3>1, <3>4, CallInv
    <3>5. ASSUME NEW k \in Callers, StartStep(k) \/ CloseStep(k) PROVE ServerInv(s)'
      <4>1. CASE using[k] # s
        BY <2>1, <3>1, <3>5, <4>1, OthersUntouched, UntouchedKeeps
      <4>2. CASE s \in shared
        <5>1. UNCHANGED shared
          BY <3>5 DEF StartStep, CloseStep, SetFlag, NewBank, ExportBank, CreateRegistry,
                 PortTaken, Rebind, Lookup, ResetFlag, UnexportBank, UnexportRegistry, Forget,
                 historyVars
        <5>. QED BY <4>2, <5>1 DEF ServerInv
      <4>. QED BY <2>1, <3>1, <3>5, <4>1, <4>2, StartStepInv, CloseStepInv
    <3>. QED BY <3>2, <3>3, <3>4, <3>5 DEF Next
  <2>. QED BY <2>2, <2>3 DEF Inv
<1>. QED BY <1>1, <1>2, PTL DEF Spec

-----------------------------------------------------------------------------
(* The theorems.                                                           *)

\* A server that nobody shares serves when start() has returned, however often it was
\* started and closed and whoever else takes the port.
THEOREM StartedServersServe == Spec => []StartedServes
<1>1. Inv => StartedServes
  BY DEF Inv, StartedServes, ServerInv, Rested, Settled, Serving
<1>. QED BY <1>1, InvHolds, PTL

\* A server that nobody shares, and that is not started, holds neither the port
\* nor a bank, except those of failed start() calls.
THEOREM ClosedServersFree == Spec => []ClosedFrees
<1>1. Inv => ClosedFrees
  BY DEF Inv, ClosedFrees, ServerInv, Rested, Settled, Freed
<1>. QED BY <1>1, InvHolds, PTL

\* A client has the bank of its own server and can call it.
THEOREM ClientsHaveTheirBank == Spec => []ClientHasOwnBank
<1>1. Inv => ClientHasOwnBank
  BY BankServerAssumption
  DEF Inv, ClientHasOwnBank, ServerInv, Rested, Settled, Serving
<1>. QED BY <1>1, InvHolds, PTL
=============================================================================
