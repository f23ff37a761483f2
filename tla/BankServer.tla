----------------------------- MODULE BankServer -----------------------------
(***************************************************************************)
(* start() and close() of BankServerImpl, and of Client, which makes a     *)
(* server of its own, in programs that want the same port. What is behind  *)
(* them is RMI: a bank can be called while it is exported, and a registry  *)
(* holds the port as long as it is.                                        *)
(*                                                                         *)
(* The k-th start() that makes a bank makes bank k, and registry k if it   *)
(* gets that far. 0 is null.                                               *)
(***************************************************************************)
EXTENDS Integers, FiniteSets

CONSTANTS
    Callers,        \* the threads that call start() and close()
    Servers,        \* objects of class BankServerImpl, which callers may share
    Clients,        \* those of them that belong to a Client and are used by it
    Uses,           \* Uses[k]: the servers, or clients, that k uses
    MaxStarts,      \* bound: banks
    MaxCalls,       \* bound: calls of each caller
    Foreign         \* what holds the port if another program does

ASSUME BankServerAssumption ==
    /\ Clients \subseteq Servers
    /\ Uses \in [Callers -> SUBSET Servers]
    /\ MaxStarts \in Nat /\ MaxCalls \in Nat
    /\ Foreign \notin 0..MaxStarts

Numbers == 1..MaxStarts

VARIABLES
    startFlag,      \* BankServerImpl.startFlag
    bank,           \* BankServerImpl.bank
    registry,       \* BankServerImpl.registry
    clientFlag,     \* Client.startFlag
    clientBank,     \* Client.bank
    exported,       \* the banks that can be called
    port,           \* the registry that holds the port, 0 or Foreign
    bound,          \* bound[n]: the bank that registry n has under "//localhost/bank"
    starts,         \* number of banks made
    pc, using,      \* where each caller is, and which server it is using
    stub,           \* its local variable
    calls,          \* number of its calls
    made,           \* history: made[s], the banks of s
    orphans,        \* history: the banks exported by a start() that then failed
    shared          \* history: servers used by two callers at a time

fieldVars == <<startFlag, bank, registry, clientFlag, clientBank>>
rmiVars == <<exported, port, bound>>
callVars == <<pc, using, stub, calls>>
historyVars == <<made, orphans, shared>>
vars == <<fieldVars, rmiVars, starts, callVars, historyVars>>

Steps == {"flag", "new", "export", "createRegistry", "rebind", "lookup",
          "closeFlag", "unexportBank", "unexportRegistry", "forget"}

TypeOK ==
    /\ startFlag \in [Servers -> BOOLEAN] /\ clientFlag \in [Servers -> BOOLEAN]
    /\ bank \in [Servers -> 0..MaxStarts]
    /\ registry \in [Servers -> 0..MaxStarts]
    /\ clientBank \in [Servers -> 0..MaxStarts]
    /\ exported \subseteq Numbers
    /\ port \in 0..MaxStarts \cup {Foreign}
    /\ bound \in [Numbers -> 0..MaxStarts]
    /\ starts \in 0..MaxStarts
    /\ pc \in [Callers -> {"idle"} \cup Steps]
    /\ using \in [Callers -> Servers]
    /\ stub \in [Callers -> 0..MaxStarts]
    /\ calls \in [Callers -> 0..MaxCalls]
    /\ made \in [Servers -> SUBSET Numbers]
    /\ orphans \subseteq 0..MaxStarts
    /\ shared \subseteq Servers

Init ==
    /\ startFlag = [s \in Servers |-> FALSE] /\ clientFlag = [s \in Servers |-> FALSE]
    /\ bank = [s \in Servers |-> 0]
    /\ registry = [s \in Servers |-> 0]
    /\ clientBank = [s \in Servers |-> 0]
    /\ exported = {} /\ port = 0
    /\ bound = [n \in Numbers |-> 0]
    /\ starts = 0
    /\ pc = [k \in Callers |-> "idle"]
    /\ using \in [Callers -> Servers] /\ \A k \in Callers : using[k] \in Uses[k]
    /\ stub = [k \in Callers |-> 0]
    /\ calls = [k \in Callers |-> 0]
    /\ made = [s \in Servers |-> {}] /\ orphans = {} /\ shared = {}

At(k, state) == pc[k] = state
Goto(k, state) == pc' = [pc EXCEPT ![k] = state] /\ UNCHANGED <<using, calls>>

\* Nobody is between the beginning and the end of a call on s.
Resting(s) == \A k \in Callers : using[k] = s => At(k, "idle")

Call(k, s, state) ==
    /\ At(k, "idle") /\ calls[k] < MaxCalls
    /\ s \in Uses[k]
    /\ pc' = [pc EXCEPT ![k] = state]
    /\ using' = [using EXCEPT ![k] = s]
    /\ calls' = [calls EXCEPT ![k] = @ + 1]
    /\ shared' = IF Resting(s) THEN shared ELSE shared \cup {s}
    /\ UNCHANGED <<startFlag, bank, registry, rmiVars, starts, stub, made, orphans>>

-----------------------------------------------------------------------------
(* start().                                                                *)

\* A Client that was started once, be it without success or closed again,
\* throws.
Start(k, s) ==
    /\ Call(k, s, IF s \in Clients /\ clientFlag[s] THEN "idle" ELSE "flag")
    /\ clientFlag' = [clientFlag EXCEPT ![s] = s \in Clients]
    /\ UNCHANGED clientBank

\* compareAndExchange: if the flag was set, IllegalStateException.
SetFlag(k) ==
    /\ At(k, "flag")
    /\ Goto(k, IF startFlag[using[k]] THEN "idle" ELSE "new")
    /\ startFlag' = [startFlag EXCEPT ![using[k]] = TRUE]
    /\ UNCHANGED <<bank, registry, clientFlag, clientBank, rmiVars, starts, stub, historyVars>>

NewBank(k) ==
    /\ At(k, "new") /\ starts < MaxStarts
    /\ starts' = starts + 1
    /\ bank' = [bank EXCEPT ![using[k]] = starts']
    /\ made' = [made EXCEPT ![using[k]] = @ \cup {starts'}]
    /\ Goto(k, "export")
    /\ UNCHANGED <<startFlag, registry, clientFlag, clientBank, rmiVars, stub, orphans, shared>>

\* A second export of the same bank is an ExportException; if another caller has set
\* the field to null, the NullPointerException leaves the flag set.
ExportBank(k) ==
    /\ At(k, "export")
    /\ LET s == using[k] IN
        \/ /\ bank[s] \notin exported \cup {0}
           /\ exported' = exported \cup {bank[s]}
           /\ stub' = [stub EXCEPT ![k] = bank[s]]
           /\ Goto(k, "createRegistry")
           /\ UNCHANGED startFlag
        \/ /\ bank[s] \in exported
           /\ startFlag' = [startFlag EXCEPT ![s] = FALSE]
           /\ Goto(k, "idle")
           /\ UNCHANGED <<exported, stub>>
        \/ /\ bank[s] = 0
           /\ Goto(k, "idle")
           /\ UNCHANGED <<startFlag, exported, stub>>
    /\ UNCHANGED <<bank, registry, clientFlag, clientBank, port, bound, starts, historyVars>>

\* Mutant of PortTaken: the failure is only printed.
PortTakenIgnored(k) ==
    /\ port # 0
    /\ Goto(k, IF using[k] \in Clients THEN "lookup" ELSE "idle")
    /\ UNCHANGED <<startFlag, registry, port, orphans>>

\* ExportException: the flag is reset, but the bank stays exported.
PortTaken(k) ==
    /\ port # 0
    /\ startFlag' = [startFlag EXCEPT ![using[k]] = FALSE]
    /\ orphans' = orphans \cup {stub[k]}
    /\ Goto(k, "idle")
    /\ UNCHANGED <<registry, port>>

CreateRegistry(k) ==
    /\ At(k, "createRegistry")
    /\ \/ /\ port = 0
          /\ port' = stub[k]
          /\ registry' = [registry EXCEPT ![using[k]] = stub[k]]
          /\ Goto(k, "rebind")
          /\ UNCHANGED <<startFlag, orphans>>
       \/ PortTaken(k)
    /\ UNCHANGED <<bank, clientFlag, clientBank, exported, bound, starts, stub, made, shared>>

Rebind(k) ==
    /\ At(k, "rebind")
    /\ bound' = [bound EXCEPT ![registry[using[k]]] = stub[k]]
    /\ Goto(k, IF using[k] \in Clients THEN "lookup" ELSE "idle")
    /\ UNCHANGED <<fieldVars, exported, port, starts, stub, historyVars>>

\* Client.start() asks whatever registry holds the port; without one, or without
\* the name, it throws.
Lookup(k) ==
    /\ At(k, "lookup")
    /\ clientBank' = IF port \in Numbers /\ bound[port] # 0
                     THEN [clientBank EXCEPT ![using[k]] = bound[port]] ELSE clientBank
    /\ Goto(k, "idle")
    /\ UNCHANGED <<startFlag, bank, registry, clientFlag, rmiVars, starts, stub, historyVars>>

-----------------------------------------------------------------------------
(* close().                                                                *)

\* A Client that was never started throws NullPointerException.
Close(k, s) ==
    /\ Call(k, s, IF registry[s] # 0 THEN "closeFlag" ELSE "idle")
    /\ clientBank' = [clientBank EXCEPT ![s] = 0]
    /\ UNCHANGED clientFlag

ResetFlag(k) ==
    /\ At(k, "closeFlag")
    /\ startFlag' = [startFlag EXCEPT ![using[k]] = FALSE]
    /\ Goto(k, "unexportBank")
    /\ UNCHANGED <<bank, registry, clientFlag, clientBank, rmiVars, starts, stub, historyVars>>

\* NoSuchObjectException also skips the registry.
UnexportBank(k) ==
    /\ At(k, "unexportBank")
    /\ LET b == bank[using[k]] IN
        /\ exported' = exported \ {b}
        /\ Goto(k, IF b \in exported THEN "unexportRegistry" ELSE "forget")
    /\ UNCHANGED <<fieldVars, port, bound, starts, stub, historyVars>>

\* Mutant of UnexportRegistry: the registry is left to the garbage collector.
KeepRegistry(k) ==
    /\ At(k, "unexportRegistry")
    /\ Goto(k, "forget")
    /\ UNCHANGED <<fieldVars, rmiVars, starts, stub, historyVars>>

UnexportRegistry(k) ==
    /\ At(k, "unexportRegistry")
    /\ port' = IF port = registry[using[k]] THEN 0 ELSE port
    /\ Goto(k, "forget")
    /\ UNCHANGED <<fieldVars, exported, bound, starts, stub, historyVars>>

Forget(k) ==
    /\ At(k, "forget")
    /\ bank' = [bank EXCEPT ![using[k]] = 0]
    /\ Goto(k, "idle")
    /\ UNCHANGED <<startFlag, registry, clientFlag, clientBank, rmiVars, starts, stub, historyVars>>

\* Another program takes the port, or gives it back.
OtherProgram ==
    /\ port \in {0, Foreign}
    /\ port' = IF port = 0 THEN Foreign ELSE 0
    /\ UNCHANGED <<fieldVars, exported, bound, starts, callVars, historyVars>>

StartStep(k) ==
    \/ SetFlag(k) \/ NewBank(k) \/ ExportBank(k) \/ CreateRegistry(k) \/ Rebind(k) \/ Lookup(k)
CloseStep(k) == ResetFlag(k) \/ UnexportBank(k) \/ UnexportRegistry(k) \/ Forget(k)

Next ==
    \/ \E k \in Callers :
        \/ \E s \in Servers : Start(k, s) \/ Close(k, s)
        \/ StartStep(k) \/ CloseStep(k)
    \/ OtherProgram

Spec == Init /\ [][Next]_vars

-----------------------------------------------------------------------------
(* Properties, for servers that nobody shares: two threads that start and  *)
(* close one server at a time can leave it in any state.                   *)

\* A server that is started serves, whatever happened to it before and whoever
\* else wants the port: who asks the registry finds its bank and can call it.
StartedServes ==
    \A s \in Servers \ shared : Resting(s) /\ startFlag[s] =>
        /\ port = registry[s] /\ port \in Numbers
        /\ bound[port] = bank[s] /\ bank[s] \in exported

\* A server that is not started holds no port, and no bank but those of
\* start() calls that failed.
ClosedFrees ==
    \A s \in Servers \ shared : Resting(s) /\ ~startFlag[s] =>
        /\ port \notin made[s]
        /\ exported \cap made[s] \subseteq orphans

\* The bank of a client is the one of its own server, never that of
\* another program which was faster, and it can be called.
ClientHasOwnBank ==
    \A s \in Clients \ shared : Resting(s) /\ clientBank[s] # 0 =>
        clientBank[s] = bank[s] /\ bank[s] \in exported
=============================================================================
