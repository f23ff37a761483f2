-------------------------------- MODULE Bank --------------------------------
(***************************************************************************)
(* RemoteBank with its persons and accounts, used by several threads at a  *)
(* time: through Client.change() and through the Bank interface itself.    *)
(*                                                                         *)
(* A RemoteAccount is an object with identity: it is represented by its    *)
(* position in heap, 0 stands for null. A RemotePerson is represented by   *)
(* its passport, since the map of persons never replaces an entry. Each    *)
(* access to a ConcurrentHashMap and each synchronized method of an        *)
(* account is one step.                                                    *)
(***************************************************************************)
EXTENDS Integers, Sequences, FiniteSets

CONSTANTS
    Callers,        \* threads and clients that use the bank
    Passports,
    FullNames,      \* first name and last name
    AccountNames,
    Ids,            \* account identifiers
    IdOf,           \* IdOf[p][n]: the string p + ':' + n, not always injective
    Requests,       \* Requests[c]: the calls that c makes
    MaxCalls,       \* bound: calls per caller
    HalfRange,      \* 2^31: an int is in -HalfRange .. HalfRange - 1
    NoPerson,       \* null in the map of persons
    NoRequest       \* a caller that is not in a call

Ints == -HalfRange .. HalfRange - 1

Ops == {"createPerson", "createAccount", "createPersonAccount", "setAmount", "change",
        "getLocalPerson", "createLocalAccount", "setLocalAmount"}

Request == [op : Ops, passport : Passports, fullName : FullNames, name : AccountNames,
            id : Ids, value : Ints,
            number : BOOLEAN]   \* whether the modification is a number

ASSUME IdsAssumption == IdOf \in [Passports -> [AccountNames -> Ids]]
ASSUME RequestsAssumption == Requests \in [Callers -> SUBSET Request]
ASSUME BankBoundsAssumption == MaxCalls \in Nat /\ HalfRange \in Nat \ {0}
ASSUME NullsAssumption ==
    NoPerson \notin FullNames \cup Passports /\ NoRequest \notin Request

Null == 0

VARIABLES
    persons,        \* persons[p]: the full name in the record, or NoPerson
    accounts,       \* accounts[id]: RemoteBank.accounts
    owned,          \* owned[p][id]: RemotePerson.accounts
    heap,           \* heap[o]: the amount of the account o
    credited,       \* history: what the calls have added to the account o
    pc,             \* where each caller is
    req,            \* its call
    account,        \* its local variable account
    amount,         \* what it got from getAmount()
    due,            \* getLocalPerson(): the accounts that it has to copy
    localOf,        \* the passport of the LocalPerson it holds, or NoPerson
    localHas,       \* the accounts of that LocalPerson
    localAmount,    \* their amounts
    calls           \* number of calls so far

bankVars == <<persons, accounts, owned>>
moneyVars == <<heap, credited>>
localVars == <<due, localOf, localHas, localAmount>>
vars == <<persons, accounts, owned, heap, credited, pc, req, account, amount,
          due, localOf, localHas, localAmount, calls>>

Objects == 1..Len(heap)

\* The addition of ints.
Wrap(n) == ((n + HalfRange) % (2 * HalfRange)) - HalfRange

Init ==
    /\ persons = [p \in Passports |-> NoPerson]
    /\ accounts = [id \in Ids |-> Null]
    /\ owned = [p \in Passports |-> [id \in Ids |-> Null]]
    /\ heap = <<>>
    /\ credited = <<>>
    /\ pc = [c \in Callers |-> "idle"]
    /\ req = [c \in Callers |-> NoRequest]
    /\ account = [c \in Callers |-> Null]
    /\ amount = [c \in Callers |-> 0]
    /\ due = [c \in Callers |-> {}]
    /\ localOf = [c \in Callers |-> NoPerson]
    /\ localHas = [c \in Callers |-> {}]
    /\ localAmount = [c \in Callers |-> [id \in Ids |-> 0]]
    /\ calls = [c \in Callers |-> 0]

-----------------------------------------------------------------------------
(* The steps of a call.                                                    *)

Goto(c, state) == pc' = [pc EXCEPT ![c] = state]

Return(c) ==
    /\ Goto(c, "idle")
    /\ req' = [req EXCEPT ![c] = NoRequest]

\* A step inside a call that goes on with the same request.
Continue(c, state) == Goto(c, state) /\ UNCHANGED req

IdIn(r) == IF r.op = "setAmount" THEN r.id ELSE IdOf[r.passport][r.name]

\* Mutant of AccountId: the passport is left out.
AccountIdByName(c) ==
    CHOOSE id \in Ids : \E p \in Passports : id = IdOf[p][req[c].name]

AccountId(c) == IdIn(req[c])

FirstStep(op) ==
    CASE op = "createPersonAccount" -> "putAccount"
      [] op = "setAmount" -> "findAccount"
      [] OTHER -> op

Begin(c) ==
    /\ pc[c] = "idle"
    /\ calls[c] < MaxCalls
    /\ \E r \in Requests[c] :
        /\ r.op = "createPersonAccount" => persons[r.passport] # NoPerson
        /\ r.op \in {"createLocalAccount", "setLocalAmount"} => localOf[c] # NoPerson
        /\ req' = [req EXCEPT ![c] = r]
        /\ Goto(c, FirstStep(r.op))
    /\ calls' = [calls EXCEPT ![c] = @ + 1]
    /\ UNCHANGED <<bankVars, moneyVars, account, amount, localVars>>

\* persons.putIfAbsent(passport, new RemotePerson(name, surname, passport))
PutPerson(c) ==
    LET p == req[c].passport IN
        persons' = [persons EXCEPT ![p] = IF @ = NoPerson THEN req[c].fullName ELSE @]

CreatePerson(c) ==
    /\ pc[c] = "createPerson"
    /\ PutPerson(c)
    /\ Return(c)
    /\ UNCHANGED <<accounts, owned, moneyVars, account, amount, localVars, calls>>

\* A new RemoteAccount with the amount 0.
NewAccount == Len(heap) + 1
Allocate == heap' = Append(heap, 0) /\ credited' = Append(credited, 0)

\* accounts.put(id, new RemoteAccount(id)): also when there is one already.
CreateAccount(c) ==
    /\ pc[c] = "createAccount"
    /\ accounts' = [accounts EXCEPT ![req[c].id] = NewAccount]
    /\ Allocate
    /\ Return(c)
    /\ UNCHANGED <<persons, owned, account, amount, localVars, calls>>

\* Mutant of PutAccount: put() in place of putIfAbsent().
PutAccountAgain(c) ==
    /\ pc[c] = "putAccount"
    /\ accounts' = [accounts EXCEPT ![AccountId(c)] = NewAccount]
    /\ Allocate
    /\ account' = [account EXCEPT ![c] = NewAccount]
    /\ Continue(c, "setAccount")
    /\ UNCHANGED <<persons, owned, amount, localVars, calls>>

\* createPersonAccount for a RemotePerson: first the bank's map, then the
\* person's map. An account object that is not put into the map is garbage.
PutAccount(c) ==
    /\ pc[c] = "putAccount"
    /\ LET id == AccountId(c) IN
        IF accounts[id] = Null
        THEN /\ accounts' = [accounts EXCEPT ![id] = NewAccount]
             /\ Allocate
             /\ account' = [account EXCEPT ![c] = NewAccount]
        ELSE /\ account' = [account EXCEPT ![c] = accounts[id]]
             /\ UNCHANGED <<accounts, moneyVars>>
    /\ Continue(c, "setAccount")
    /\ UNCHANGED <<persons, owned, amount, localVars, calls>>

\* RemotePerson.setAccount: accounts.putIfAbsent(account.getId(), account)
SetAccount(c) ==
    /\ pc[c] = "setAccount"
    /\ LET p == req[c].passport
           id == AccountId(c)
       IN  owned' = [owned EXCEPT ![p][id] = IF @ = Null THEN account[c] ELSE @]
    /\ IF req[c].op = "change"
       THEN Continue(c, "getAccount") /\ UNCHANGED account
       ELSE Return(c) /\ account' = [account EXCEPT ![c] = Null]
    /\ UNCHANGED <<persons, accounts, moneyVars, amount, localVars, calls>>

\* change() of a person with another name does nothing.
Change(c) ==
    /\ pc[c] = "change"
    /\ PutPerson(c)
    /\ IF persons'[req[c].passport] = req[c].fullName
       THEN Continue(c, "putAccount")
       ELSE Return(c)
    /\ UNCHANGED <<accounts, owned, moneyVars, account, amount, localVars, calls>>

GetAccount(c) ==
    /\ pc[c] = "getAccount"
    /\ account' = [account EXCEPT ![c] = owned[req[c].passport][AccountId(c)]]
    /\ Continue(c, "getAmount")
    /\ UNCHANGED <<bankVars, moneyVars, amount, localVars, calls>>

\* account.getAmount(), and then Integer.parseInt, which may throw.
GetAmount(c) ==
    /\ pc[c] = "getAmount"
    /\ account[c] # Null
    /\ amount' = [amount EXCEPT ![c] = heap[account[c]]]
    /\ IF req[c].number
       THEN Continue(c, "addAmount") /\ UNCHANGED account
       ELSE Return(c) /\ account' = [account EXCEPT ![c] = Null]
    /\ UNCHANGED <<bankVars, moneyVars, localVars, calls>>

\* Mutant of AddAmount: the modification replaces the amount.
AddToNothing(c) ==
    /\ pc[c] = "addAmount"
    /\ heap' = [heap EXCEPT ![account[c]] = req[c].value]
    /\ credited' = [credited EXCEPT ![account[c]] = @ + req[c].value]
    /\ Continue(c, "report")
    /\ UNCHANGED <<bankVars, account, amount, localVars, calls>>

\* account.setAmount(what getAmount() returned + modification)
AddAmount(c) ==
    /\ pc[c] = "addAmount"
    /\ heap' = [heap EXCEPT ![account[c]] = Wrap(amount[c] + req[c].value)]
    /\ credited' = [credited EXCEPT ![account[c]] = @ + req[c].value]
    /\ Continue(c, "report")
    /\ UNCHANGED <<bankVars, account, amount, localVars, calls>>

\* return account.getAmount()
Report(c) ==
    /\ pc[c] = "report"
    /\ amount' = [amount EXCEPT ![c] = heap[account[c]]]
    /\ account' = [account EXCEPT ![c] = Null]
    /\ Return(c)
    /\ UNCHANGED <<bankVars, moneyVars, localVars, calls>>

\* getAccount(id) and setAmount(value), by a user of the Bank interface. A
\* bank without such an account returns null.
FindAccount(c) ==
    /\ pc[c] = "findAccount"
    /\ LET o == accounts[AccountId(c)] IN
        IF o = Null
        THEN Return(c) /\ UNCHANGED account
        ELSE Continue(c, "setAmount") /\ account' = [account EXCEPT ![c] = o]
    /\ UNCHANGED <<bankVars, moneyVars, amount, localVars, calls>>

SetAmount(c) ==
    /\ pc[c] = "setAmount"
    /\ heap' = [heap EXCEPT ![account[c]] = req[c].value]
    /\ credited' = [credited EXCEPT ![account[c]] = req[c].value]
    /\ account' = [account EXCEPT ![c] = Null]
    /\ Return(c)
    /\ UNCHANGED <<bankVars, amount, localVars, calls>>

-----------------------------------------------------------------------------
(* Local persons: copies that belong to the caller.                        *)

\* getLocalPerson: returns null or starts to copy the person's accounts.
GetLocalPerson(c) ==
    /\ pc[c] = "getLocalPerson"
    /\ LET p == req[c].passport IN
        IF persons[p] = NoPerson
        THEN Return(c) /\ UNCHANGED localVars
        ELSE /\ Continue(c, "copy")
             /\ localOf' = [localOf EXCEPT ![c] = p]
             /\ localHas' = [localHas EXCEPT ![c] = {}]
             /\ localAmount' = [localAmount EXCEPT ![c] = [id \in Ids |-> 0]]
             /\ due' = [due EXCEPT ![c] = {id \in Ids : owned[p][id] # Null}]
    /\ UNCHANGED <<bankVars, moneyVars, account, amount, calls>>

\* The traversal of a ConcurrentHashMap: it returns what was in the map when
\* it began, and possibly what was added since. Each account is locked for
\* itself (getLocalAccount is synchronized).
CopyAccount(c) ==
    /\ pc[c] = "copy"
    /\ \E id \in Ids \ localHas[c] :
        LET o == owned[localOf[c]][id] IN
        /\ o # Null
        /\ localHas' = [localHas EXCEPT ![c] = @ \cup {id}]
        /\ localAmount' = [localAmount EXCEPT ![c][id] = heap[o]]
        /\ due' = [due EXCEPT ![c] = @ \ {id}]
    /\ UNCHANGED <<bankVars, moneyVars, pc, req, account, amount, localOf, calls>>

CopyEnds(c) ==
    /\ pc[c] = "copy"
    /\ due[c] = {}
    /\ Return(c)
    /\ UNCHANGED <<bankVars, moneyVars, account, amount, localVars, calls>>

\* createPersonAccount for a LocalPerson: put(), not putIfAbsent().
CreateLocalAccount(c) ==
    /\ pc[c] = "createLocalAccount"
    /\ LET id == IdOf[localOf[c]][req[c].name] IN
        /\ localHas' = [localHas EXCEPT ![c] = @ \cup {id}]
        /\ localAmount' = [localAmount EXCEPT ![c][id] = 0]
    /\ Return(c)
    /\ UNCHANGED <<bankVars, moneyVars, account, amount, due, localOf, calls>>

\* LocalAccount.setAmount
SetLocalAmount(c) ==
    /\ pc[c] = "setLocalAmount"
    /\ LET id == IdOf[localOf[c]][req[c].name] IN
        localAmount' = [localAmount EXCEPT ![c][id] =
                            IF id \in localHas[c] THEN req[c].value ELSE @]
    /\ Return(c)
    /\ UNCHANGED <<bankVars, moneyVars, account, amount, due, localOf, localHas, calls>>

-----------------------------------------------------------------------------
BankStep(c) ==
    \/ CreatePerson(c) \/ CreateAccount(c) \/ PutAccount(c) \/ SetAccount(c)
    \/ FindAccount(c) \/ SetAmount(c)
ClientStep(c) ==
    \/ Change(c) \/ GetAccount(c) \/ GetAmount(c) \/ AddAmount(c) \/ Report(c)
LocalStep(c) ==
    \/ GetLocalPerson(c) \/ CopyAccount(c) \/ CopyEnds(c)
    \/ CreateLocalAccount(c) \/ SetLocalAmount(c)

Next == \E c \in Callers : Begin(c) \/ BankStep(c) \/ ClientStep(c) \/ LocalStep(c)

Spec == Init /\ [][Next]_vars

-----------------------------------------------------------------------------
(* Properties.                                                             *)

CallStates == {"idle", "putAccount", "setAccount", "getAccount", "getAmount", "addAmount",
               "report", "findAccount", "copy"} \cup (Ops \ {"createPersonAccount"})
Calling(c) == pc[c] # "idle"

\* Every variable has its type.
TypeOK ==
    /\ persons \in [Passports -> FullNames \cup {NoPerson}]
    /\ heap \in Seq(Int)
    /\ credited \in Seq(Int)
    /\ Len(credited) = Len(heap)
    /\ accounts \in [Ids -> {Null} \cup Objects]
    /\ owned \in [Passports -> [Ids -> {Null} \cup Objects]]
    /\ pc \in [Callers -> CallStates]
    /\ req \in [Callers -> Request \cup {NoRequest}]
    /\ \A c \in Callers : Calling(c) <=> req[c] # NoRequest
    /\ account \in [Callers -> {Null} \cup Objects]
    /\ amount \in [Callers -> Int]
    /\ due \in [Callers -> SUBSET Ids]
    /\ localOf \in [Callers -> Passports \cup {NoPerson}]
    /\ localHas \in [Callers -> SUBSET Ids]
    /\ localAmount \in [Callers -> [Ids -> Int]]
    /\ calls \in [Callers -> 0..MaxCalls]

\* Nobody creates accounts with the identifiers of persons' accounts.
PersonIds == {IdOf[p][n] : p \in Passports, n \in AccountNames}
OnlyPersonsOwn ==
    \A c \in Callers : \A r \in Requests[c] :
        r.op = "createAccount" => r.id \notin PersonIds

\* The two maps are filled one after the other and without a common lock.
\* Still a person has the account that the bank has under the same id, and so
\* has every caller that is about to give it to the person or to use it.
AccountsAgree ==
    OnlyPersonsOwn =>
        /\ \A p \in Passports, id \in Ids :
            owned[p][id] # Null => owned[p][id] = accounts[id]
        /\ \A c \in Callers :
            account[c] # Null /\ AccountId(c) \in PersonIds =>
                account[c] = accounts[AccountId(c)]

\* The identifiers "passport:name" of different persons' accounts differ.
DistinctIds ==
    \A p, q \in Passports, m, n \in AccountNames : IdOf[p][m] = IdOf[q][n] => p = q

\* What change() reads and writes is the account of the person whom it names, and
\* whose name its caller knows: it finds the account that it has just created,
\* and no other person has it.
RightAccount ==
    \A c \in Callers :
        pc[c] \in {"getAmount", "addAmount", "report"} /\ OnlyPersonsOwn =>
            /\ persons[req[c].passport] = req[c].fullName
            /\ account[c] # Null /\ account[c] = owned[req[c].passport][AccountId(c)]
            /\ DistinctIds =>
                \A p \in Passports \ {req[c].passport}, id \in Ids : owned[p][id] # account[c]

\* An account that one caller changes holds the sum of what it was credited with,
\* whatever the others do to other accounts of the same person, and up to the
\* overflow of an int. (Two callers of change() lose modifications.)
Writes(c) == {IdIn(r) : r \in {q \in Requests[c] : q.op \in {"change", "setAmount"}}}
OneWriter == {id \in Ids : \A c, d \in Callers : id \in Writes(c) \cap Writes(d) => c = d}
MoneyAddsUpAlone ==
    \A id \in OneWriter : accounts[id] # Null =>
        heap[accounts[id]] = Wrap(credited[accounts[id]])
=============================================================================
