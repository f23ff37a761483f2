----------------------------- MODULE BankProofs -----------------------------
(* Proofs about Bank: for any number of callers, calls and accounts.       *)
EXTENDS Bank, TLAPS

(* The arithmetic of ints: a sum may be wrapped at every step.             *)

LEMMA DivMod ==
    ASSUME NEW m \in Nat \ {0}, NEW x \in Int
    PROVE  /\ x \div m \in Int
           /\ x % m \in 0..(m - 1)
           /\ x = m * (x \div m) + (x % m)
OBVIOUS

LEMMA ModUnique ==
    ASSUME NEW m \in Nat \ {0}, NEW x \in Int, NEW q \in Int, NEW r \in 0..(m - 1),
           x = m * q + r
    PROVE  x % m = r
OBVIOUS

LEMMA WrapInt == \A n \in Int : Wrap(n) \in Ints
BY BankBoundsAssumption, DivMod DEF Wrap, Ints

LEMMA WrapIdentity == \A n \in Ints : Wrap(n) = n
<1>. SUFFICES ASSUME NEW n \in Ints PROVE Wrap(n) = n
  OBVIOUS
<1>1. /\ 2 * HalfRange \in Nat \ {0} /\ n + HalfRange \in 0..(2 * HalfRange - 1)
      /\ n \in Int /\ HalfRange \in Int
  BY BankBoundsAssumption DEF Ints
<1>2. n + HalfRange = (2 * HalfRange) * 0 + (n + HalfRange)
  BY <1>1
<1>3. (n + HalfRange) % (2 * HalfRange) = n + HalfRange
  BY <1>1, <1>2, ModUnique
<1>. QED BY <1>1, <1>3 DEF Wrap

LEMMA WrapSum == \A n, v \in Int : Wrap(Wrap(n) + v) = Wrap(n + v)
<1>. SUFFICES ASSUME NEW n \in Int, NEW v \in Int PROVE Wrap(Wrap(n) + v) = Wrap(n + v)
  OBVIOUS
<1>. DEFINE m == 2 * HalfRange
            q == (n + HalfRange) \div m
            r == (n + v + HalfRange) % m
            s == (n + v + HalfRange) \div m
<1>1. m \in Nat \ {0} /\ HalfRange \in Int
  BY BankBoundsAssumption
<1>. HIDE DEF m
<1>2. /\ q \in Int /\ (n + HalfRange) % m \in Int
      /\ n + HalfRange = m * q + ((n + HalfRange) % m)
  BY <1>1, DivMod
<1>3. r \in 0..(m - 1) /\ s \in Int /\ n + v + HalfRange = m * s + r
  <2>1. n + v + HalfRange \in Int
    BY <1>1
  <2>. HIDE DEF r, s
  <2>2. \A z \in Int : /\ z \div m \in Int
                       /\ z % m \in 0..(m - 1)
                       /\ z = m * (z \div m) + (z % m)
    BY <1>1, DivMod
  <2>. QED BY <2>1, <2>2 DEF r, s
<1>. HIDE DEF q, r, s
<1>4. Wrap(n) = n - m * q
  BY <1>1, <1>2 DEF Wrap, m
<1>5. m * (s - q) = m * s - m * q
  BY <1>1, <1>2, <1>3
<1>6. Wrap(n) + v + HalfRange = m * (s - q) + r
  BY <1>1, <1>2, <1>3, <1>4, <1>5
<1>7. (Wrap(n) + v + HalfRange) % m = r
  <2>1. Wrap(n) + v + HalfRange \in Int /\ s - q \in Int
    BY <1>1, <1>2, <1>3, WrapInt DEF Ints
  <2>. QED BY <1>1, <1>3, <1>6, <2>1, ModUnique
<1>. QED BY <1>7 DEF Wrap, m, r

-----------------------------------------------------------------------------
(* Type correctness, by the owner of the variables.                        *)

MoneyTypeOK ==
    /\ heap \in Seq(Int) /\ credited \in Seq(Int)
    /\ Len(credited) = Len(heap)
BankTypeOK ==
    /\ persons \in [Passports -> FullNames \cup {NoPerson}]
    /\ accounts \in [Ids -> {Null} \cup Objects]
    /\ owned \in [Passports -> [Ids -> {Null} \cup Objects]]
CallTypeOK ==
    /\ pc \in [Callers -> CallStates]
    /\ req \in [Callers -> Request \cup {NoRequest}]
    /\ \A c \in Callers : Calling(c) <=> req[c] # NoRequest
    /\ calls \in [Callers -> 0..MaxCalls]
HandTypeOK ==
    /\ account \in [Callers -> {Null} \cup Objects]
    /\ amount \in [Callers -> Int]
LocalTypeOK ==
    /\ due \in [Callers -> SUBSET Ids]
    /\ localOf \in [Callers -> Passports \cup {NoPerson}]
    /\ localHas \in [Callers -> SUBSET Ids]
    /\ localAmount \in [Callers -> [Ids -> Int]]

LEMMA TypeOKParts ==
    TypeOK <=> MoneyTypeOK /\ BankTypeOK /\ CallTypeOK /\ HandTypeOK /\ LocalTypeOK
BY DEF TypeOK, MoneyTypeOK, BankTypeOK, CallTypeOK, HandTypeOK, LocalTypeOK

LEMMA TypeOKNextParts ==
    TypeOK' <=> MoneyTypeOK' /\ BankTypeOK' /\ CallTypeOK' /\ HandTypeOK' /\ LocalTypeOK'
BY DEF TypeOK, MoneyTypeOK, BankTypeOK, CallTypeOK, HandTypeOK, LocalTypeOK

LEMMA InitTypeOK == Init => TypeOK
<1>. SUFFICES ASSUME Init PROVE TypeOK
  OBVIOUS
<1>1. MoneyTypeOK /\ BankTypeOK
  BY DEF Init, MoneyTypeOK, BankTypeOK
<1>2. CallTypeOK
  BY BankBoundsAssumption DEF Init, CallTypeOK, CallStates, Calling
<1>3. HandTypeOK /\ LocalTypeOK
  BY DEF Init, HandTypeOK, LocalTypeOK
<1>. QED BY <1>1, <1>2, <1>3, TypeOKParts

\* A caller begins a call, goes on with it, or returns.
LEMMA BeginCall ==
    ASSUME CallTypeOK, NEW c \in Callers, Begin(c)
    PROVE  CallTypeOK'
<1>1. PICK r \in Requests[c] : req' = [req EXCEPT ![c] = r] /\ Goto(c, FirstStep(r.op))
  BY DEF Begin
<1>2. r \in Request
  BY <1>1, RequestsAssumption
<1>3. r # NoRequest /\ r.op \in Ops
  BY <1>2, NullsAssumption DEF Request
<1>4. FirstStep(r.op) \in CallStates \ {"idle"}
  BY <1>3 DEF FirstStep, CallStates, Ops
<1>5. calls' \in [Callers -> 0..MaxCalls]
  BY BankBoundsAssumption DEF Begin, CallTypeOK
<1>6. pc' \in [Callers -> CallStates] /\ req' \in [Callers -> Request \cup {NoRequest}]
  BY <1>1, <1>2, <1>4 DEF CallTypeOK, Goto
<1>7. \A d \in Callers : (pc'[d] # "idle") <=> (req'[d] # NoRequest)
  BY <1>1, <1>3, <1>4 DEF CallTypeOK, Goto, Calling
<1>. QED
  BY <1>5, <1>6, <1>7 DEF CallTypeOK, Calling

LEMMA ContinueCall ==
    ASSUME CallTypeOK, NEW c \in Callers, NEW st \in CallStates \ {"idle"},
           Calling(c), Continue(c, st), calls' = calls
    PROVE  CallTypeOK'
BY DEF CallTypeOK, Continue, Goto, Calling

LEMMA ReturnCall ==
    ASSUME CallTypeOK, NEW c \in Callers, Return(c), calls' = calls
    PROVE  CallTypeOK'
BY DEF CallTypeOK, Return, Goto, Calling, CallStates

LEMMA StepCall ==
    ASSUME CallTypeOK, NEW c \in Callers, BankStep(c) \/ ClientStep(c) \/ LocalStep(c)
    PROVE  CallTypeOK'
<1>. USE DEF Calling, CallStates
<1>1. CASE CreatePerson(c) \/ CreateAccount(c) \/ SetAmount(c) \/ Report(c) \/ CopyEnds(c)
           \/ CreateLocalAccount(c) \/ SetLocalAmount(c)
  BY <1>1, ReturnCall DEF CreatePerson, CreateAccount, SetAmount, Report, CopyEnds,
                          CreateLocalAccount, SetLocalAmount
<1>2. CASE PutAccount(c) \/ GetAccount(c) \/ AddAmount(c)
  BY <1>2, ContinueCall DEF PutAccount, GetAccount, AddAmount
<1>3. CASE SetAccount(c)
  BY <1>3, ContinueCall, ReturnCall DEF SetAccount
<1>4. CASE Change(c)
  BY <1>4, ContinueCall, ReturnCall DEF Change
<1>5. CASE GetAmount(c)
  BY <1>5, ContinueCall, ReturnCall DEF GetAmount
<1>6. CASE FindAccount(c)
  BY <1>6, ContinueCall, ReturnCall DEF FindAccount, Ops
<1>7. CASE GetLocalPerson(c)
  BY <1>7, ContinueCall, ReturnCall DEF GetLocalPerson
<1>8. CASE CopyAccount(c)
  BY <1>8 DEF CopyAccount, CallTypeOK
<1>. QED
  BY <1>1, <1>2, <1>3, <1>4, <1>5, <1>6, <1>7, <1>8 DEF BankStep, ClientStep, LocalStep

\* What a caller in a call has in its request.
LEMMA RequestParts ==
    ASSUME CallTypeOK, NEW c \in Callers, Calling(c)
    PROVE  /\ req[c] \in Request
           /\ req[c].passport \in Passports /\ req[c].fullName \in FullNames
           /\ req[c].id \in Ids /\ req[c].value \in Ints /\ req[c].name \in AccountNames
           /\ AccountId(c) \in Ids
<1>1. req[c] \in Request
  BY DEF CallTypeOK
<1>2. /\ req[c].passport \in Passports /\ req[c].fullName \in FullNames
      /\ req[c].id \in Ids /\ req[c].value \in Ints /\ req[c].name \in AccountNames
  BY <1>1 DEF Request
<1>. QED
  BY <1>1, <1>2, IdsAssumption DEF AccountId, IdIn

\* Accounts are only added, and keep their position.
LEMMA AllocateGrows ==
    ASSUME MoneyTypeOK, Allocate
    PROVE  /\ MoneyTypeOK'
           /\ Objects' = Objects \cup {NewAccount}
           /\ NewAccount \notin Objects /\ NewAccount # Null
           /\ heap'[NewAccount] = 0 /\ credited'[NewAccount] = 0
           /\ \A o \in Objects : heap'[o] = heap[o] /\ credited'[o] = credited[o]
<1>1. /\ Len(heap) \in Nat
      /\ heap' \in Seq(Int) /\ Len(heap') = Len(heap) + 1
      /\ credited' \in Seq(Int) /\ Len(credited') = Len(heap) + 1
  BY DEF MoneyTypeOK, Allocate
<1>2. MoneyTypeOK'
  BY <1>1 DEF MoneyTypeOK
<1>3. Objects' = Objects \cup {NewAccount} /\ NewAccount \notin Objects /\ NewAccount # Null
  BY <1>1 DEF Objects, NewAccount, Null
<1>4. /\ heap'[NewAccount] = 0 /\ credited'[NewAccount] = 0
      /\ \A o \in Objects : heap'[o] = heap[o] /\ credited'[o] = credited[o]
  BY <1>1 DEF Allocate, NewAccount, MoneyTypeOK, Objects
<1>. QED
  BY <1>2, <1>3, <1>4

LEMMA WriteKeeps ==
    ASSUME MoneyTypeOK, NEW o \in Objects, NEW m \in Int, NEW n \in Int,
           heap' = [heap EXCEPT ![o] = m], credited' = [credited EXCEPT ![o] = n]
    PROVE  /\ MoneyTypeOK' /\ Objects' = Objects
           /\ heap'[o] = m /\ credited'[o] = n
           /\ \A u \in Objects \ {o} : heap'[u] = heap[u] /\ credited'[u] = credited[u]
BY DEF MoneyTypeOK, Objects

LEMMA OldObjects ==
    ASSUME BankTypeOK, Objects \subseteq Objects'
    PROVE  /\ accounts \in [Ids -> {Null} \cup Objects']
           /\ owned \in [Passports -> [Ids -> {Null} \cup Objects']]
BY DEF BankTypeOK

\* The steps that create an account, or write to one.
LEMMA MoneyStep ==
    ASSUME TypeOK, NEW c \in Callers, Begin(c) \/ BankStep(c) \/ ClientStep(c) \/ LocalStep(c)
    PROVE  \/ UNCHANGED <<heap, credited>>
           \/ Allocate /\ (CreateAccount(c) \/ PutAccount(c))
           \/ AddAmount(c) \/ SetAmount(c)
BY DEF Begin, BankStep, ClientStep, LocalStep, CreatePerson, CreateAccount, PutAccount,
       SetAccount, FindAccount, Change, GetAccount, GetAmount, Report, GetLocalPerson,
       CopyAccount, CopyEnds, CreateLocalAccount, SetLocalAmount, moneyVars

-----------------------------------------------------------------------------
(* Where a caller is tells what it holds.                                  *)

Holding == {"setAccount", "getAccount", "getAmount", "addAmount", "report", "setAmount"}

ControlAt(c) ==
    /\ Calling(c) => req[c] \in Requests[c]
    /\ pc[c] \in {"putAccount", "setAccount"} => req[c].op \in {"createPersonAccount", "change"}
    /\ pc[c] \in {"change", "getAccount", "getAmount", "addAmount", "report"}
            => req[c].op = "change"
    /\ pc[c] \in {"findAccount", "setAmount"} => req[c].op = "setAmount"
    /\ pc[c] = "createAccount" => req[c].op = "createAccount"
    /\ pc[c] \in {"setAccount", "addAmount", "report", "setAmount"} => account[c] # Null
    /\ account[c] # Null => pc[c] \in Holding
    /\ pc[c] \in {"createLocalAccount", "setLocalAmount", "copy"} => localOf[c] # NoPerson
Control == \A c \in Callers : ControlAt(c)

LEMMA InitControl == Init => Control
BY DEF Init, Control, ControlAt, Calling

\* The others stay where they are.
LEMMA OthersControl ==
    ASSUME TypeOK, Control, NEW c \in Callers, NEW d \in Callers, d # c,
           Begin(c) \/ BankStep(c) \/ ClientStep(c) \/ LocalStep(c)
    PROVE  /\ pc'[d] = pc[d] /\ req'[d] = req[d] /\ account'[d] = account[d]
           /\ amount'[d] = amount[d] /\ localOf'[d] = localOf[d]
           /\ ControlAt(d)'
<1>1. pc'[d] = pc[d] /\ req'[d] = req[d]
  <2>1. CASE Begin(c)
    BY <2>1 DEF TypeOK, Begin, Goto
  <2>2. CASE BankStep(c)
    BY <2>2 DEF TypeOK, BankStep, CreatePerson, CreateAccount, PutAccount, SetAccount,
                FindAccount, SetAmount, Goto, Return, Continue
  <2>3. CASE ClientStep(c)
    BY <2>3 DEF TypeOK, ClientStep, Change, GetAccount, GetAmount, AddAmount, Report,
                Goto, Return, Continue
  <2>4. CASE LocalStep(c)
    <3>1. \/ UNCHANGED <<pc, req>> \/ Return(c) \/ Continue(c, "copy")
      BY <2>4 DEF LocalStep, GetLocalPerson, CopyAccount, CopyEnds,
                  CreateLocalAccount, SetLocalAmount
    <3>. QED BY <3>1 DEF TypeOK, Goto, Return, Continue
  <2>. QED BY <2>1, <2>2, <2>3, <2>4
<1>2. account'[d] = account[d] /\ amount'[d] = amount[d]
  BY DEF TypeOK, Begin, BankStep, ClientStep, LocalStep, CreatePerson, CreateAccount,
         PutAccount, SetAccount, FindAccount, SetAmount, Change, GetAccount, GetAmount,
         AddAmount, Report, GetLocalPerson, CopyAccount, CopyEnds, CreateLocalAccount,
         SetLocalAmount
<1>3. localOf'[d] = localOf[d]
  BY DEF TypeOK, Begin, BankStep, ClientStep, LocalStep, CreatePerson, CreateAccount,
         PutAccount, SetAccount, FindAccount, SetAmount, Change, GetAccount, GetAmount,
         AddAmount, Report, GetLocalPerson, CopyAccount, CopyEnds, CreateLocalAccount,
         SetLocalAmount, localVars
<1>. QED
  BY <1>1, <1>2, <1>3 DEF Control, ControlAt, Calling

LEMMA BeginControl ==
    ASSUME TypeOK, Control, NEW c \in Callers, Begin(c)
    PROVE  ControlAt(c)'
<1>1. PICK r \in Requests[c] :
        /\ r.op \in {"createLocalAccount", "setLocalAmount"} => localOf[c] # NoPerson
        /\ req' = [req EXCEPT ![c] = r] /\ Goto(c, FirstStep(r.op))
  BY DEF Begin
<1>2. r.op \in Ops
  BY <1>1, RequestsAssumption DEF Request
<1>3. req'[c] = r /\ pc'[c] = FirstStep(r.op)
  BY <1>1 DEF TypeOK, Goto
<1>4. account[c] = Null /\ account' = account /\ localOf' = localOf
  BY DEF Begin, Control, ControlAt, Holding, localVars
<1>. QED
  BY <1>1, <1>2, <1>3, <1>4 DEF ControlAt, FirstStep, Ops, Calling

LEMMA StepControl ==
    ASSUME TypeOK, Control, NEW c \in Callers, BankStep(c) \/ ClientStep(c) \/ LocalStep(c)
    PROVE  ControlAt(c)'
<1>. USE DEF Calling, Holding
<1>0. ControlAt(c)
  BY DEF Control
<1>1. CASE CreatePerson(c) \/ CreateAccount(c) \/ CopyEnds(c)
           \/ CreateLocalAccount(c) \/ SetLocalAmount(c)
  BY <1>0, <1>1 DEF CreatePerson, CreateAccount, CopyEnds, CreateLocalAccount, SetLocalAmount,
                    Return, Goto, TypeOK, ControlAt
<1>2. CASE SetAmount(c) \/ Report(c)
  BY <1>2 DEF SetAmount, Report, Return, Goto, TypeOK, ControlAt
<1>3. CASE PutAccount(c)
  <2>1. AccountId(c) \in Ids
    BY <1>3, RequestParts, TypeOKParts DEF PutAccount
  <2>2. account'[c] # Null
    BY <1>3, <2>1 DEF PutAccount, NewAccount, TypeOK, Null
  <2>. QED
    BY <1>0, <1>3, <2>2 DEF PutAccount, Continue, Goto, TypeOK, ControlAt, localVars
<1>4. CASE SetAccount(c)
  BY <1>0, <1>4 DEF SetAccount, Continue, Return, Goto, TypeOK, ControlAt, localVars
<1>5. CASE FindAccount(c) \/ GetAccount(c)
  BY <1>0, <1>5 DEF FindAccount, GetAccount, Continue, Return, Goto, TypeOK, ControlAt, localVars
<1>6. CASE Change(c)
  BY <1>0, <1>6 DEF Change, Continue, Return, Goto, TypeOK, ControlAt, localVars
<1>7. CASE GetAmount(c) \/ AddAmount(c)
  BY <1>0, <1>7 DEF GetAmount, AddAmount, Continue, Return, Goto, TypeOK, ControlAt, localVars
<1>8. CASE GetLocalPerson(c)
  <2>1. req[c].passport \in Passports /\ req[c].passport # NoPerson
    BY <1>8, RequestParts, TypeOKParts, NullsAssumption DEF GetLocalPerson
  <2>. QED
    BY <1>0, <1>8, <2>1 DEF GetLocalPerson, Continue, Return, Goto, TypeOK, ControlAt, localVars
<1>9. CASE CopyAccount(c)
  BY <1>0, <1>9 DEF CopyAccount, ControlAt
<1>. QED
  BY <1>1, <1>2, <1>3, <1>4, <1>5, <1>6, <1>7, <1>8, <1>9 DEF BankStep, ClientStep, LocalStep

-----------------------------------------------------------------------------
LEMMA StepMoneyType ==
    ASSUME TypeOK, Control, NEW c \in Callers,
           Begin(c) \/ BankStep(c) \/ ClientStep(c) \/ LocalStep(c)
    PROVE  MoneyTypeOK' /\ Objects \subseteq Objects'
<1>. MoneyTypeOK /\ HandTypeOK /\ CallTypeOK
  BY TypeOKParts
<1>1. CASE UNCHANGED <<heap, credited>>
  BY <1>1 DEF MoneyTypeOK, Objects
<1>2. CASE Allocate
  BY <1>2, AllocateGrows
<1>3. CASE AddAmount(c)
  <2>1. account[c] \in Objects
    BY <1>3 DEF AddAmount, Control, ControlAt, HandTypeOK
  <2>2. req[c].value \in Int
    BY <1>3, RequestParts, BankBoundsAssumption DEF AddAmount, Ints, Calling
  <2>3. amount[c] + req[c].value \in Int /\ credited[account[c]] + req[c].value \in Int
    <3>1. amount[c] \in Int
      BY DEF HandTypeOK
    <3>2. credited[account[c]] \in Int
      BY <2>1 DEF MoneyTypeOK, Objects
    <3>. QED BY <2>2, <3>1, <3>2
  <2>4. Wrap(amount[c] + req[c].value) \in Int
    BY <2>3, WrapInt, BankBoundsAssumption DEF Ints
  <2>. QED
    BY <1>3, <2>1, <2>3, <2>4, WriteKeeps DEF AddAmount
<1>4. CASE SetAmount(c)
  <2>1. account[c] \in Objects
    BY <1>4 DEF SetAmount, Control, ControlAt, HandTypeOK
  <2>2. req[c].value \in Int
    BY <1>4, RequestParts, BankBoundsAssumption DEF SetAmount, Ints, Calling
  <2>. QED
    BY <1>4, <2>1, <2>2, WriteKeeps DEF SetAmount
<1>. QED
  BY <1>1, <1>2, <1>3, <1>4, MoneyStep

LEMMA StepBankType ==
    ASSUME TypeOK, Control, NEW c \in Callers,
           Begin(c) \/ BankStep(c) \/ ClientStep(c) \/ LocalStep(c)
    PROVE  BankTypeOK'
<1>. MoneyTypeOK /\ HandTypeOK /\ CallTypeOK /\ BankTypeOK
  BY TypeOKParts
<1>0. /\ Objects \subseteq Objects'
      /\ accounts \in [Ids -> {Null} \cup Objects']
      /\ owned \in [Passports -> [Ids -> {Null} \cup Objects']]
  BY StepMoneyType, OldObjects
<1>1. CASE UNCHANGED bankVars
  BY <1>0, <1>1 DEF BankTypeOK, bankVars
<1>2. CASE CreatePerson(c) \/ Change(c)
  <2>1. req[c].fullName \in FullNames
    BY <1>2, RequestParts DEF CreatePerson, Change, Calling
  <2>2. persons' \in [Passports -> FullNames \cup {NoPerson}]
    BY <1>2, <2>1 DEF CreatePerson, Change, PutPerson, BankTypeOK
  <2>. QED
    BY <1>0, <1>2, <2>2 DEF CreatePerson, Change, BankTypeOK
<1>3. CASE CreateAccount(c) \/ PutAccount(c)
  <2>1. persons' = persons /\ owned' = owned
    BY <1>3 DEF CreateAccount, PutAccount
  <2>2. \/ accounts' = accounts
        \/ Allocate /\ \E id \in Ids : accounts' = [accounts EXCEPT ![id] = NewAccount]
    BY <1>3, RequestParts DEF CreateAccount, PutAccount, Calling
  <2>3. accounts' \in [Ids -> {Null} \cup Objects']
    BY <1>0, <2>2, AllocateGrows
  <2>. QED
    BY <1>0, <2>1, <2>3 DEF BankTypeOK
<1>4. CASE SetAccount(c)
  <2>1. AccountId(c) \in Ids /\ req[c].passport \in Passports
    BY <1>4, RequestParts DEF SetAccount, Calling
  <2>2. account[c] \in Objects'
    BY <1>0, <1>4 DEF SetAccount, Control, ControlAt, HandTypeOK
  <2>. DEFINE S == {Null} \cup Objects'
  <2>3. account[c] \in S /\ owned \in [Passports -> [Ids -> S]]
    BY <1>0, <2>2
  <2>. HIDE DEF S
  <2>4. owned' \in [Passports -> [Ids -> S]]
    BY <1>4, <2>1, <2>3 DEF SetAccount
  <2>. QED
    BY <1>0, <1>4, <2>4 DEF SetAccount, BankTypeOK, S
<1>. QED
  BY <1>1, <1>2, <1>3, <1>4
     DEF Begin, BankStep, ClientStep, LocalStep, FindAccount, SetAmount, GetAccount, GetAmount,
         AddAmount, Report, GetLocalPerson, CopyAccount, CopyEnds, CreateLocalAccount,
         SetLocalAmount

LEMMA StepHandType ==
    ASSUME TypeOK, Control, NEW c \in Callers,
           Begin(c) \/ BankStep(c) \/ ClientStep(c) \/ LocalStep(c)
    PROVE  HandTypeOK'
<1>. MoneyTypeOK /\ HandTypeOK /\ CallTypeOK /\ BankTypeOK
  BY TypeOKParts
<1>. DEFINE S == {Null} \cup Objects'
<1>0. Objects \subseteq Objects' /\ account \in [Callers -> S] /\ Null \in S
  BY StepMoneyType DEF HandTypeOK
<1>1. amount' \in [Callers -> Int]
  <2>1. CASE GetAmount(c) \/ Report(c)
    <3>1. account[c] \in Objects
      BY <2>1 DEF GetAmount, Report, Control, ControlAt, HandTypeOK
    <3>2. heap[account[c]] \in Int
      BY <3>1 DEF MoneyTypeOK, Objects
    <3>. QED BY <2>1, <3>2 DEF GetAmount, Report, HandTypeOK
  <2>2. CASE UNCHANGED amount
    BY <2>2 DEF HandTypeOK
  <2>. QED
    BY <2>1, <2>2
       DEF Begin, BankStep, ClientStep, LocalStep, CreatePerson, CreateAccount, PutAccount,
           SetAccount, FindAccount, SetAmount, Change, GetAccount, AddAmount, GetLocalPerson,
           CopyAccount, CopyEnds, CreateLocalAccount, SetLocalAmount
<1>2. account' \in [Callers -> S]
  <2>1. CASE PutAccount(c) \/ FindAccount(c)
    <3>1. AccountId(c) \in Ids
      BY <2>1, RequestParts DEF PutAccount, FindAccount, Calling
    <3>2. accounts[AccountId(c)] \in S
      BY <1>0, <3>1 DEF BankTypeOK
    <3>3. Allocate => NewAccount \in S
      BY AllocateGrows
    <3>. HIDE DEF S
    <3>. QED BY <1>0, <2>1, <3>2, <3>3 DEF PutAccount, FindAccount
  <2>2. CASE GetAccount(c)
    <3>1. AccountId(c) \in Ids /\ req[c].passport \in Passports
      BY <2>2, RequestParts DEF GetAccount, Calling
    <3>2. owned[req[c].passport][AccountId(c)] \in S
      BY <1>0, <3>1 DEF BankTypeOK
    <3>. HIDE DEF S
    <3>. QED BY <1>0, <2>2, <3>2 DEF GetAccount
  <2>3. CASE account' = [account EXCEPT ![c] = Null] \/ account' = account
    <3>. HIDE DEF S
    <3>. QED BY <1>0, <2>3
  <2>. HIDE DEF S
  <2>. QED
    BY <2>1, <2>2, <2>3
       DEF Begin, BankStep, ClientStep, LocalStep, CreatePerson, CreateAccount, SetAccount,
           SetAmount, Change, GetAmount, AddAmount, Report, GetLocalPerson, CopyAccount,
           CopyEnds, CreateLocalAccount, SetLocalAmount
<1>. QED
  BY <1>1, <1>2 DEF HandTypeOK

LEMMA StepLocalType ==
    ASSUME TypeOK, Control, NEW c \in Callers,
           Begin(c) \/ BankStep(c) \/ ClientStep(c) \/ LocalStep(c)
    PROVE  LocalTypeOK'
<1>. MoneyTypeOK /\ CallTypeOK /\ BankTypeOK /\ LocalTypeOK
  BY TypeOKParts
<1>1. CASE UNCHANGED localVars
  BY <1>1 DEF LocalTypeOK, localVars
<1>2. CASE GetLocalPerson(c)
  <2>1. req[c].passport \in Passports
    BY <1>2, RequestParts DEF GetLocalPerson, Calling
  <2>2. CASE UNCHANGED localVars
    BY <2>2 DEF LocalTypeOK, localVars
  <2>3. CASE ~UNCHANGED localVars
    <3>1. /\ localOf' = [localOf EXCEPT ![c] = req[c].passport]
          /\ localHas' = [localHas EXCEPT ![c] = {}]
          /\ localAmount' = [localAmount EXCEPT ![c] = [id \in Ids |-> 0]]
      BY <1>2, <2>3 DEF GetLocalPerson
    <3>2. due' = [due EXCEPT ![c] = {id \in Ids : owned[req[c].passport][id] # Null}]
      BY <1>2, <2>3 DEF GetLocalPerson
    <3>3. due' \in [Callers -> SUBSET Ids]
      BY <3>2 DEF LocalTypeOK
    <3>4. localOf' \in [Callers -> Passports \cup {NoPerson}]
      BY <2>1, <3>1 DEF LocalTypeOK
    <3>5. localHas' \in [Callers -> SUBSET Ids]
      BY <3>1 DEF LocalTypeOK
    <3>6. [id \in Ids |-> 0] \in [Ids -> Int]
      OBVIOUS
    <3>7. localAmount' \in [Callers -> [Ids -> Int]]
      BY <3>1, <3>6 DEF LocalTypeOK
    <3>. QED BY <3>3, <3>4, <3>5, <3>7 DEF LocalTypeOK
  <2>. QED BY <2>2, <2>3
<1>3. CASE CopyAccount(c)
  <2>1. PICK id \in Ids :
          /\ owned[localOf[c]][id] # Null
          /\ localHas' = [localHas EXCEPT ![c] = @ \cup {id}]
          /\ localAmount' = [localAmount EXCEPT ![c][id] = heap[owned[localOf[c]][id]]]
          /\ due' = [due EXCEPT ![c] = @ \ {id}]
    BY <1>3 DEF CopyAccount
  <2>2. localOf[c] \in Passports
    BY <1>3 DEF CopyAccount, Control, ControlAt, LocalTypeOK
  <2>3. owned[localOf[c]][id] \in Objects
    BY <2>1, <2>2 DEF BankTypeOK
  <2>4. heap[owned[localOf[c]][id]] \in Int
    BY <2>3 DEF MoneyTypeOK, Objects
  <2>5. localAmount' \in [Callers -> [Ids -> Int]]
    BY <2>1, <2>4 DEF LocalTypeOK
  <2>. QED
    BY <1>3, <2>1, <2>5 DEF CopyAccount, LocalTypeOK
<1>4. CASE CreateLocalAccount(c) \/ SetLocalAmount(c)
  <2>0. Calling(c)
    BY <1>4 DEF CreateLocalAccount, SetLocalAmount, Calling
  <2>1. req[c].name \in AccountNames /\ req[c].value \in Int
    BY <2>0, RequestParts, BankBoundsAssumption DEF Ints
  <2>2. localOf[c] \in Passports
    BY <1>4 DEF CreateLocalAccount, SetLocalAmount, Control, ControlAt, LocalTypeOK
  <2>3. IdOf[localOf[c]][req[c].name] \in Ids
    BY <2>1, <2>2, IdsAssumption
  <2>4. localHas' \in [Callers -> SUBSET Ids]
    <3>1. localHas \in [Callers -> SUBSET Ids]
      BY DEF LocalTypeOK
    <3>2. CASE CreateLocalAccount(c)
      <4>1. localHas' = [localHas EXCEPT ![c] = @ \cup {IdOf[localOf[c]][req[c].name]}]
        BY <3>2 DEF CreateLocalAccount
      <4>. QED BY <2>3, <3>1, <4>1
    <3>3. CASE SetLocalAmount(c)
      BY <3>1, <3>3 DEF SetLocalAmount
    <3>. QED BY <1>4, <3>2, <3>3
  <2>. DEFINE id == IdOf[localOf[c]][req[c].name]
  <2>6. PICK a \in Int : localAmount' = [localAmount EXCEPT ![c][id] = a]
    <3>1. CASE CreateLocalAccount(c)
      <4>1. localAmount' = [localAmount EXCEPT ![c][id] = 0] /\ 0 \in Int
        BY <3>1 DEF CreateLocalAccount
      <4>. QED BY <4>1
    <3>2. CASE SetLocalAmount(c)
      <4>1. CASE id \in localHas[c]
        BY <2>1, <3>2, <4>1 DEF SetLocalAmount
      <4>2. CASE id \notin localHas[c]
        <5>1. localAmount[c][id] \in Int
          BY <2>3 DEF LocalTypeOK
        <5>. QED BY <3>2, <4>2, <5>1 DEF SetLocalAmount
      <4>. QED BY <4>1, <4>2
    <3>. QED BY <1>4, <3>1, <3>2
  <2>. HIDE DEF id
  <2>5. localAmount' \in [Callers -> [Ids -> Int]]
    <3>1. id \in Ids
      BY <2>3 DEF id
    <3>. QED BY <2>6, <3>1 DEF LocalTypeOK
  <2>. QED
    <3>1. UNCHANGED <<due, localOf>>
      BY <1>4 DEF CreateLocalAccount, SetLocalAmount
    <3>. QED BY <2>4, <2>5, <3>1 DEF LocalTypeOK
<1>. QED
  BY <1>1, <1>2, <1>3, <1>4
     DEF Begin, BankStep, ClientStep, LocalStep, CreatePerson, CreateAccount, PutAccount,
         SetAccount, FindAccount, SetAmount, Change, GetAccount, GetAmount, AddAmount, Report,
         CopyEnds

TypeInv == TypeOK /\ Control

LEMMA NextTypeInv == TypeInv /\ [Next]_vars => TypeInv'
<1>. SUFFICES ASSUME TypeOK, Control, [Next]_vars PROVE TypeOK' /\ Control'
  BY DEF TypeInv
<1>1. CASE UNCHANGED vars
  BY <1>1 DEF TypeOK, Control, ControlAt, Calling, Objects, vars
<1>2. ASSUME NEW c \in Callers, Begin(c) \/ BankStep(c) \/ ClientStep(c) \/ LocalStep(c)
      PROVE  TypeOK' /\ Control'
  <2>1. CallTypeOK'
    BY <1>2, BeginCall, StepCall, TypeOKParts
  <2>2. TypeOK'
    BY <1>2, <2>1, StepMoneyType, StepBankType, StepHandType, StepLocalType, TypeOKNextParts
  <2>3. Control'
    BY <1>2, OthersControl, BeginControl, StepControl DEF Control
  <2>. QED BY <2>2, <2>3
<1>. QED
  BY <1>1, <1>2 DEF Next

LEMMA TypeInvariant == Spec => []TypeInv
<1>1. Init => TypeInv
  BY InitTypeOK, InitControl DEF TypeInv
<1>. QED
  BY <1>1, NextTypeInv, PTL DEF Spec

\* The variables of the bank keep their types: in particular every reference
\* to an account is null or an account that exists.
THEOREM TypeCorrect == Spec => []TypeOK
<1>1. TypeInv => TypeOK
  BY DEF TypeInv
<1>. QED
  BY <1>1, TypeInvariant, PTL

-----------------------------------------------------------------------------
(* The maps of the bank and of its persons agree.                          *)

AStep(c) == Begin(c) \/ BankStep(c) \/ ClientStep(c) \/ LocalStep(c)

\* The identifier under which a step creates an account.
NewId(c) == IF pc[c] = "createAccount" THEN req[c].id ELSE AccountId(c)

\* How each of the maps changes.
LEMMA AccountsStep ==
    ASSUME TypeOK, NEW c \in Callers, AStep(c), NEW id \in Ids
    PROVE  \/ accounts'[id] = accounts[id]
           \/ /\ accounts'[id] = NewAccount /\ Allocate /\ id = NewId(c)
              /\ pc[c] = "createAccount" \/ (pc[c] = "putAccount" /\ accounts[id] = Null)
<1>1. CASE CreateAccount(c)
  BY <1>1 DEF CreateAccount, TypeOK, NewId
<1>2. CASE PutAccount(c)
  BY <1>2 DEF PutAccount, TypeOK, NewId
<1>3. CASE accounts' = accounts
  BY <1>3
<1>. QED
  BY <1>1, <1>2, <1>3
     DEF AStep, Begin, BankStep, ClientStep, LocalStep, CreatePerson, SetAccount, FindAccount,
         SetAmount, Change, GetAccount, GetAmount, AddAmount, Report, GetLocalPerson,
         CopyAccount, CopyEnds, CreateLocalAccount, SetLocalAmount, bankVars

LEMMA OwnedStep ==
    ASSUME TypeOK, NEW c \in Callers, AStep(c), NEW p \in Passports, NEW id \in Ids
    PROVE  \/ owned'[p][id] = owned[p][id]
           \/ /\ owned[p][id] = Null /\ owned'[p][id] = account[c]
              /\ SetAccount(c) /\ p = req[c].passport /\ id = AccountId(c)
<1>1. CASE SetAccount(c)
  <2>1. Calling(c) /\ CallTypeOK
    BY <1>1, TypeOKParts DEF SetAccount, Calling
  <2>2. req[c].passport \in Passports /\ AccountId(c) \in Ids
    BY <2>1, RequestParts
  <2>3. owned \in [Passports -> [Ids -> {Null} \cup Objects]]
    BY DEF TypeOK
  <2>. HIDE DEF SetAccount
  <2>4. owned' = [owned EXCEPT ![req[c].passport][AccountId(c)] =
                    IF @ = Null THEN account[c] ELSE @]
    BY <1>1 DEF SetAccount
  <2>5. CASE p = req[c].passport /\ id = AccountId(c)
    BY <1>1, <2>3, <2>4, <2>5
  <2>6. CASE ~(p = req[c].passport /\ id = AccountId(c))
    BY <2>3, <2>4, <2>6
  <2>. QED BY <2>5, <2>6
<1>2. CASE owned' = owned
  BY <1>2
<1>. QED
  BY <1>1, <1>2
     DEF AStep, Begin, BankStep, ClientStep, LocalStep, CreatePerson, CreateAccount, PutAccount,
         FindAccount, SetAmount, Change, GetAccount, GetAmount, AddAmount, Report,
         GetLocalPerson, CopyAccount, CopyEnds, CreateLocalAccount, SetLocalAmount, bankVars

LEMMA HandStep ==
    ASSUME TypeOK, Control, NEW c \in Callers, AStep(c), account'[c] # Null
    PROVE  /\ req'[c] = req[c] /\ Calling(c)
           /\ \/ account'[c] = account[c]
              \/ /\ PutAccount(c) /\ accounts[AccountId(c)] = Null
                 /\ account'[c] = NewAccount /\ Allocate
              \/ PutAccount(c) /\ account'[c] = accounts[AccountId(c)]
              \/ FindAccount(c) /\ account'[c] = accounts[AccountId(c)]
              \/ GetAccount(c) /\ account'[c] = owned[req[c].passport][AccountId(c)]
<1>. account \in [Callers -> {Null} \cup Objects] /\ req \in [Callers -> Request \cup {NoRequest}]
  BY DEF TypeOK
<1>. USE DEF Calling
<1>0. account[c] # Null => pc[c] \in Holding
  BY DEF Control, ControlAt
<1>1. CASE Begin(c)
  BY <1>0, <1>1 DEF Begin, Holding
<1>2. CASE PutAccount(c)
  BY <1>2 DEF PutAccount, Continue
<1>3. CASE FindAccount(c) \/ GetAccount(c)
  BY <1>0, <1>3 DEF FindAccount, GetAccount, Continue, Holding
<1>4. CASE SetAccount(c) \/ GetAmount(c) \/ AddAmount(c) \/ Report(c) \/ SetAmount(c)
  BY <1>4 DEF SetAccount, GetAmount, AddAmount, Report, SetAmount, Continue
<1>5. CASE CreatePerson(c) \/ CreateAccount(c) \/ Change(c) \/ LocalStep(c)
  <2>1. account' = account /\ pc[c] \notin Holding
    BY <1>5 DEF CreatePerson, CreateAccount, Change, LocalStep, GetLocalPerson, CopyAccount,
                CopyEnds, CreateLocalAccount, SetLocalAmount, Holding
  <2>. QED BY <1>0, <2>1
<1>. QED
  BY <1>1, <1>2, <1>3, <1>4, <1>5 DEF AStep, BankStep, ClientStep

\* What a person has belongs under an identifier of that person.
OwnIds == \A p \in Passports, id \in Ids :
            owned[p][id] # Null => \E n \in AccountNames : id = IdOf[p][n]

LEMMA NextOwnIds == TypeInv /\ OwnIds /\ [Next]_vars => OwnIds'
<1>. SUFFICES ASSUME TypeOK, Control, OwnIds, [Next]_vars,
                     NEW p \in Passports, NEW id \in Ids, owned'[p][id] # Null
              PROVE  \E n \in AccountNames : id = IdOf[p][n]
  BY DEF TypeInv, OwnIds
<1>1. CASE owned'[p][id] = owned[p][id]
  BY <1>1 DEF OwnIds
<1>2. ASSUME NEW c \in Callers, SetAccount(c), p = req[c].passport, id = AccountId(c)
      PROVE  \E n \in AccountNames : id = IdOf[p][n]
  <2>1. req[c].name \in AccountNames
    BY <1>2, RequestParts, TypeOKParts DEF SetAccount, Calling
  <2>2. id = IdOf[p][req[c].name]
    BY <1>2 DEF SetAccount, Control, ControlAt, AccountId, IdIn
  <2>. QED BY <2>1, <2>2
<1>3. CASE UNCHANGED vars
  BY <1>1, <1>3 DEF vars
<1>. QED
  BY <1>1, <1>2, <1>3, OwnedStep DEF Next, AStep

AgreeOwned ==
    OnlyPersonsOwn =>
        \A p \in Passports, id \in Ids : owned[p][id] # Null => owned[p][id] = accounts[id]
AgreeHand ==
    OnlyPersonsOwn =>
        \A c \in Callers :
            account[c] # Null /\ AccountId(c) \in PersonIds => account[c] = accounts[AccountId(c)]

\* An account of a person is never replaced.
LEMMA AccountsLast ==
    ASSUME TypeOK, Control, OnlyPersonsOwn, NEW c \in Callers, AStep(c),
           NEW id \in PersonIds, id \in Ids, accounts[id] # Null
    PROVE  accounts'[id] = accounts[id]
<1>. SUFFICES ASSUME pc[c] = "createAccount", id = NewId(c) PROVE FALSE
  BY AccountsStep
<1>1. req[c] \in Requests[c] /\ id = req[c].id
  BY DEF Control, ControlAt, Calling, NewId
<1>. QED
  BY <1>1 DEF OnlyPersonsOwn, Control, ControlAt, Calling

LEMMA StepAgreeOwned ==
    ASSUME TypeOK, Control, OwnIds, AgreeOwned, AgreeHand, OnlyPersonsOwn,
           NEW c \in Callers, AStep(c),
           NEW p \in Passports, NEW id \in Ids, owned'[p][id] # Null
    PROVE  owned'[p][id] = accounts'[id]
<1>1. CASE owned'[p][id] = owned[p][id]
  <2>1. owned[p][id] # Null /\ owned[p][id] = accounts[id]
    BY <1>1 DEF AgreeOwned
  <2>2. id \in PersonIds
    BY <2>1 DEF OwnIds, PersonIds
  <2>. QED BY <1>1, <2>1, <2>2, AccountsLast
<1>2. CASE /\ owned'[p][id] = account[c] /\ SetAccount(c)
           /\ p = req[c].passport /\ id = AccountId(c)
  <2>1. id \in PersonIds
    <3>1. req[c].name \in AccountNames
      BY <1>2, RequestParts, TypeOKParts DEF SetAccount, Calling
    <3>2. id = IdOf[p][req[c].name]
      BY <1>2 DEF SetAccount, Control, ControlAt, AccountId, IdIn
    <3>. QED BY <3>1, <3>2 DEF PersonIds
  <2>2. account[c] # Null
    BY <1>2
  <2>3. account[c] = accounts[id]
    BY <1>2, <2>1, <2>2 DEF AgreeHand
  <2>4. accounts'[id] = accounts[id]
    BY <1>2, <2>1, <2>2, <2>3, AccountsLast
  <2>. QED BY <1>2, <2>3, <2>4
<1>. QED BY <1>1, <1>2, OwnedStep

LEMMA StepAgreeHand ==
    ASSUME TypeOK, Control, OwnIds, AgreeOwned, AgreeHand, OnlyPersonsOwn,
           NEW c \in Callers, AStep(c), NEW d \in Callers,
           account'[d] # Null, AccountId(d)' \in PersonIds
    PROVE  account'[d] = accounts'[AccountId(d)']
<1>1. CASE account'[d] = account[d] /\ req'[d] = req[d] /\ Calling(d)
  <2>1. AccountId(d)' = AccountId(d) /\ AccountId(d) \in Ids
    BY <1>1, RequestParts, TypeOKParts DEF AccountId
  <2>2. account[d] = accounts[AccountId(d)]
    BY <1>1, <2>1 DEF AgreeHand
  <2>3. accounts'[AccountId(d)] = accounts[AccountId(d)]
    BY <1>1, <2>1, <2>2, AccountsLast
  <2>. QED BY <1>1, <2>1, <2>2, <2>3
<1>2. CASE d # c
  <2>1. account'[d] = account[d] /\ req'[d] = req[d]
    BY <1>2, OthersControl DEF AStep
  <2>2. Calling(d)
    BY <2>1 DEF Control, ControlAt, Holding, Calling
  <2>. QED BY <1>1, <2>1, <2>2
<1>3. CASE d = c /\ account'[c] # account[c]
  <2>1. /\ req'[c] = req[c] /\ Calling(c)
        /\ \/ /\ PutAccount(c) /\ accounts[AccountId(c)] = Null
              /\ account'[c] = NewAccount /\ Allocate
           \/ PutAccount(c) /\ account'[c] = accounts[AccountId(c)]
           \/ FindAccount(c) /\ account'[c] = accounts[AccountId(c)]
           \/ GetAccount(c) /\ account'[c] = owned[req[c].passport][AccountId(c)]
    BY <1>3, HandStep
  <2>2. /\ AccountId(c)' = AccountId(c) /\ AccountId(c) \in Ids /\ AccountId(c) \in PersonIds
        /\ req[c].passport \in Passports
    BY <1>3, <2>1, RequestParts, TypeOKParts DEF AccountId
  <2>3. CASE account'[c] = accounts[AccountId(c)]
    BY <1>3, <2>2, <2>3, AccountsLast
  <2>4. CASE PutAccount(c) /\ accounts[AccountId(c)] = Null /\ account'[c] = NewAccount
    <3>1. accounts' = [accounts EXCEPT ![AccountId(c)] = NewAccount]
      BY <2>4 DEF PutAccount
    <3>. QED BY <1>3, <2>2, <2>4, <3>1 DEF TypeOK
  <2>5. CASE account'[c] = owned[req[c].passport][AccountId(c)]
    <3>1. account'[c] = accounts[AccountId(c)]
      BY <1>3, <2>2, <2>5 DEF AgreeOwned
    <3>. QED BY <2>3, <3>1
  <2>. QED BY <2>1, <2>3, <2>4, <2>5
<1>4. CASE d = c /\ account'[c] = account[c]
  BY <1>1, <1>4, HandStep
<1>. QED BY <1>2, <1>3, <1>4

AgreeInv == OwnIds /\ AgreeOwned /\ AgreeHand

LEMMA NextAgreeInv == TypeInv /\ AgreeInv /\ [Next]_vars => AgreeInv'
<1>. SUFFICES ASSUME TypeInv, AgreeInv, [Next]_vars PROVE AgreeInv'
  OBVIOUS
<1>0. TypeOK /\ Control /\ OwnIds /\ AgreeOwned /\ AgreeHand
  BY DEF TypeInv, AgreeInv
<1>1. OwnIds'
  BY NextOwnIds DEF AgreeInv
<1>2. CASE UNCHANGED vars
  BY <1>0, <1>1, <1>2
     DEF AgreeInv, AgreeOwned, AgreeHand, AccountId, vars
<1>3. ASSUME NEW c \in Callers, AStep(c)
      PROVE  AgreeOwned' /\ AgreeHand'
  <2>1. AgreeOwned'
    BY <1>0, <1>3, StepAgreeOwned DEF AgreeOwned
  <2>2. AgreeHand'
    BY <1>0, <1>3, StepAgreeHand DEF AgreeHand
  <2>. QED BY <2>1, <2>2
<1>. QED
  BY <1>1, <1>2, <1>3 DEF Next, AStep, AgreeInv

LEMMA AgreeInvariant == Spec => []AgreeInv
<1>1. Init => AgreeInv
  BY DEF Init, AgreeInv, OwnIds, AgreeOwned, AgreeHand
<1>. QED
  BY <1>1, TypeInvariant, NextAgreeInv, PTL DEF Spec

\* Although createPersonAccount fills the two maps one after the other, without
\* a common lock, they never disagree, and neither does what a caller holds.
THEOREM MapsAgree == Spec => []AccountsAgree
<1>1. AgreeInv => AccountsAgree
  BY DEF AgreeInv, AgreeOwned, AgreeHand, AccountsAgree
<1>. QED
  BY <1>1, AgreeInvariant, PTL

-----------------------------------------------------------------------------
(* An account object is known under one identifier only: no other entry of *)
(* the bank's map, of a person's map or of a caller refers to it.          *)

DistinctObjects ==
    \A i, j \in Ids : accounts[i] # Null /\ accounts[i] = accounts[j] => i = j
OwnHome ==
    \A p \in Passports, i, j \in Ids : owned[p][i] # Null /\ accounts[j] = owned[p][i] => i = j
HandHome ==
    \A c \in Callers, j \in Ids :
        account[c] # Null /\ accounts[j] = account[c] => AccountId(c) = j

HomeInv == DistinctObjects /\ OwnHome /\ HandHome

LEMMA NewIsNew == TypeOK => NewAccount \notin {Null} \cup Objects
BY DEF TypeOK, NewAccount, Objects, Null

\* An entry that refers to an old object was there before.
LEMMA OldEntry ==
    ASSUME TypeOK, NEW c \in Callers, AStep(c), NEW j \in Ids, accounts'[j] # NewAccount
    PROVE  accounts'[j] = accounts[j]
BY AccountsStep

LEMMA StepDistinctObjects ==
    ASSUME TypeOK, DistinctObjects, NEW c \in Callers, AStep(c)
    PROVE  DistinctObjects'
<1>. SUFFICES ASSUME NEW i \in Ids, NEW j \in Ids,
                     accounts'[i] # Null, accounts'[i] = accounts'[j]
              PROVE  i = j
  BY DEF DistinctObjects
<1>1. accounts[i] \in {Null} \cup Objects /\ accounts[j] \in {Null} \cup Objects
  BY DEF TypeOK
<1>2. CASE accounts'[i] = NewAccount
  <2>1. accounts'[i] # accounts[i] /\ accounts'[j] # accounts[j]
    BY <1>1, <1>2, NewIsNew
  <2>. QED BY <2>1, AccountsStep
<1>3. CASE accounts'[i] # NewAccount
  BY <1>3, OldEntry DEF DistinctObjects
<1>. QED BY <1>2, <1>3

LEMMA StepOwnHome ==
    ASSUME TypeOK, OwnHome, HandHome, NEW c \in Callers, AStep(c)
    PROVE  OwnHome'
<1>. SUFFICES ASSUME NEW p \in Passports, NEW i \in Ids, NEW j \in Ids,
                     owned'[p][i] # Null, accounts'[j] = owned'[p][i]
              PROVE  i = j
  BY DEF OwnHome
<1>1. owned[p][i] \in {Null} \cup Objects /\ account[c] \in {Null} \cup Objects
  BY DEF TypeOK
<1>2. owned'[p][i] # NewAccount
  BY <1>1, OwnedStep, NewIsNew
<1>3. accounts[j] = owned'[p][i]
  BY <1>2, OldEntry
<1>. QED BY <1>3, OwnedStep DEF OwnHome, HandHome

LEMMA StepHandHome ==
    ASSUME TypeOK, Control, HomeInv, NEW c \in Callers, AStep(c)
    PROVE  HandHome'
<1>. SUFFICES ASSUME NEW d \in Callers, NEW j \in Ids,
                     account'[d] # Null, accounts'[j] = account'[d]
              PROVE  AccountId(d)' = j
  BY DEF HandHome
<1>. USE DEF HomeInv
<1>1. CASE account'[d] = account[d] /\ req'[d] = req[d]
  <2>1. account[d] \in {Null} \cup Objects
    BY DEF TypeOK
  <2>2. accounts[j] = account[d]
    BY <1>1, <2>1, NewIsNew, OldEntry
  <2>. QED BY <1>1, <2>2 DEF HandHome, AccountId
<1>2. CASE d # c
  BY <1>1, <1>2, OthersControl DEF AStep
<1>3. CASE d = c /\ account'[c] # account[c]
  <2>1. /\ req'[c] = req[c] /\ Calling(c)
        /\ \/ /\ PutAccount(c) /\ accounts[AccountId(c)] = Null
              /\ account'[c] = NewAccount /\ Allocate
           \/ PutAccount(c) /\ account'[c] = accounts[AccountId(c)]
           \/ FindAccount(c) /\ account'[c] = accounts[AccountId(c)]
           \/ GetAccount(c) /\ account'[c] = owned[req[c].passport][AccountId(c)]
    BY <1>3, HandStep
  <2>2. /\ AccountId(c)' = AccountId(c) /\ AccountId(c) \in Ids
        /\ req[c].passport \in Passports
    BY <2>1, RequestParts, TypeOKParts DEF AccountId
  <2>3. CASE PutAccount(c) /\ account'[c] = NewAccount
    <3>1. accounts'[j] = NewAccount /\ accounts[j] # NewAccount
      BY <1>3, <2>3, NewIsNew DEF TypeOK
    <3>2. j = NewId(c) /\ pc[c] = "putAccount"
      BY <2>3, <3>1, AccountsStep DEF PutAccount
    <3>. QED BY <1>3, <2>2, <3>2 DEF NewId
  <2>4. CASE account'[c] = accounts[AccountId(c)]
    <3>1. accounts[j] = accounts[AccountId(c)] /\ accounts[j] # Null
      BY <1>3, <2>2, <2>4, NewIsNew, OldEntry DEF TypeOK
    <3>. QED BY <1>3, <2>2, <3>1 DEF DistinctObjects
  <2>5. CASE account'[c] = owned[req[c].passport][AccountId(c)]
    <3>. DEFINE o == owned[req[c].passport][AccountId(c)]
    <3>1. o \in {Null} \cup Objects
      BY <2>2 DEF TypeOK
    <3>2. accounts[j] = o /\ o # Null
      BY <1>3, <2>5, <3>1, NewIsNew, OldEntry
    <3>. QED BY <1>3, <2>2, <3>2 DEF OwnHome
  <2>. QED BY <2>1, <2>3, <2>4, <2>5
<1>4. CASE d = c /\ account'[c] = account[c]
  BY <1>1, <1>4, HandStep
<1>. QED BY <1>2, <1>3, <1>4

LEMMA NextHomeInv == TypeInv /\ HomeInv /\ [Next]_vars => HomeInv'
<1>. SUFFICES ASSUME TypeOK, Control, HomeInv, [Next]_vars PROVE HomeInv'
  BY DEF TypeInv
<1>1. CASE UNCHANGED vars
  BY <1>1 DEF HomeInv, DistinctObjects, OwnHome, HandHome, AccountId, vars
<1>2. ASSUME NEW c \in Callers, AStep(c)
      PROVE  HomeInv'
  BY <1>2, StepDistinctObjects, StepOwnHome, StepHandHome DEF HomeInv
<1>. QED BY <1>1, <1>2 DEF Next, AStep

LEMMA HomeInvariant == Spec => []HomeInv
<1>1. Init => HomeInv
  BY DEF Init, HomeInv, DistinctObjects, OwnHome, HandHome
<1>. QED BY <1>1, TypeInvariant, NextHomeInv, PTL DEF Spec

-----------------------------------------------------------------------------
(* change() goes on only for a person with the name that it was given, and *)
(* finds the account that it has put into the person's map.                *)

Changing == {"getAmount", "addAmount", "report"}

NameAt(c) ==
    pc[c] \in {"putAccount", "setAccount", "getAccount"} \cup Changing /\ req[c].op = "change" =>
        persons[req[c].passport] = req[c].fullName
FoundAt(c) ==
    /\ pc[c] = "getAccount" => owned[req[c].passport][AccountId(c)] # Null
    /\ pc[c] \in Changing =>
        /\ account[c] # Null
        /\ account[c] = owned[req[c].passport][AccountId(c)]
ChangeInv == \A c \in Callers : NameAt(c) /\ FoundAt(c)

\* A person keeps the name, and the accounts.
LEMMA NameLasts ==
    ASSUME TypeOK, NEW c \in Callers, AStep(c), NEW p \in Passports, persons[p] # NoPerson
    PROVE  persons'[p] = persons[p]
<1>1. CASE CreatePerson(c) \/ Change(c)
  BY <1>1 DEF CreatePerson, Change, PutPerson, TypeOK
<1>2. CASE persons' = persons
  BY <1>2
<1>. QED
  BY <1>1, <1>2
     DEF AStep, Begin, BankStep, ClientStep, LocalStep, CreateAccount, PutAccount, SetAccount,
         FindAccount, SetAmount, GetAccount, GetAmount, AddAmount, Report, GetLocalPerson,
         CopyAccount, CopyEnds, CreateLocalAccount, SetLocalAmount, bankVars

LEMMA OwnedLasts ==
    ASSUME TypeOK, NEW c \in Callers, AStep(c), NEW p \in Passports, NEW id \in Ids,
           owned[p][id] # Null
    PROVE  owned'[p][id] = owned[p][id]
BY OwnedStep

\* A caller that keeps its request and its account keeps what it knows of them.
LEMMA ChangeLasts ==
    ASSUME TypeOK, NEW c \in Callers, AStep(c), NEW d \in Callers, Calling(d),
           req'[d] = req[d]
    PROVE  /\ persons[req[d].passport] = req[d].fullName =>
                persons'[req'[d].passport] = req'[d].fullName
           /\ owned[req[d].passport][AccountId(d)] # Null =>
                owned'[req'[d].passport][AccountId(d)'] = owned[req[d].passport][AccountId(d)]
<1>1. /\ req[d].passport \in Passports /\ req[d].fullName # NoPerson
      /\ AccountId(d) \in Ids /\ AccountId(d)' = AccountId(d)
  BY RequestParts, TypeOKParts, NullsAssumption DEF AccountId
<1>2. persons[req[d].passport] = req[d].fullName =>
        persons'[req[d].passport] = req[d].fullName
  BY <1>1, NameLasts
<1>3. owned[req[d].passport][AccountId(d)] # Null =>
        owned'[req[d].passport][AccountId(d)] = owned[req[d].passport][AccountId(d)]
  BY <1>1, OwnedLasts
<1>. QED BY <1>1, <1>2, <1>3

LEMMA OthersChange ==
    ASSUME TypeOK, Control, ChangeInv, NEW c \in Callers, AStep(c),
           NEW d \in Callers, d # c
    PROVE  NameAt(d)' /\ FoundAt(d)'
<1>1. pc'[d] = pc[d] /\ req'[d] = req[d] /\ account'[d] = account[d]
  BY OthersControl DEF AStep
<1>2. NameAt(d) /\ FoundAt(d)
  BY DEF ChangeInv
<1>3. pc[d] # "idle" => Calling(d)
  BY DEF Calling
<1>4. NameAt(d)'
  BY <1>1, <1>2, <1>3, ChangeLasts DEF NameAt, Changing
<1>5. FoundAt(d)'
  BY <1>1, <1>2, <1>3, ChangeLasts DEF FoundAt, Changing
<1>. QED BY <1>4, <1>5

LEMMA StepChange ==
    ASSUME TypeOK, Control, ChangeInv, NEW c \in Callers, AStep(c)
    PROVE  NameAt(c)' /\ FoundAt(c)'
<1>0. NameAt(c) /\ FoundAt(c) /\ ControlAt(c)
  BY DEF ChangeInv, Control
<1>t. /\ pc \in [Callers -> CallStates] /\ req \in [Callers -> Request \cup {NoRequest}]
      /\ account \in [Callers -> {Null} \cup Objects]
  BY DEF TypeOK
<1>1. CASE Begin(c)
  <2>1. PICK r \in Requests[c] : req' = [req EXCEPT ![c] = r] /\ Goto(c, FirstStep(r.op))
    BY <1>1 DEF Begin
  <2>2. req'[c] = r /\ pc'[c] = FirstStep(r.op)
    BY <1>t, <2>1 DEF Goto
  <2>3. r \in Request
    BY RequestsAssumption
  <2>4. r.op \in Ops
    BY <2>3 DEF Request
  <2>. QED BY <2>2, <2>4 DEF NameAt, FoundAt, FirstStep, Ops, Changing
<1>2. CASE Change(c)
  <2>1. \/ pc'[c] = "putAccount" /\ req' = req /\ persons'[req[c].passport] = req[c].fullName
        \/ pc'[c] = "idle"
    BY <1>t, <1>2 DEF Change, Continue, Return, Goto
  <2>. QED BY <2>1 DEF NameAt, FoundAt, Changing
<1>3. CASE PutAccount(c)
  <2>1. pc[c] = "putAccount" /\ pc'[c] = "setAccount" /\ req'[c] = req[c]
    BY <1>t, <1>3 DEF PutAccount, Continue, Goto
  <2>2. NameAt(c)'
    BY <1>0, <2>1, ChangeLasts DEF NameAt, Calling
  <2>. QED BY <2>1, <2>2 DEF FoundAt, Changing
<1>4. CASE SetAccount(c)
  <2>0. pc[c] = "setAccount" /\ Calling(c) /\ account[c] # Null
    BY <1>0, <1>4 DEF SetAccount, Calling, ControlAt
  <2>1. CASE req[c].op = "change"
    <3>1. pc'[c] = "getAccount" /\ req'[c] = req[c] /\ AccountId(c)' = AccountId(c)
      BY <1>t, <1>4, <2>1 DEF SetAccount, Continue, Goto, AccountId
    <3>2. NameAt(c)'
      BY <1>0, <2>0, <3>1, ChangeLasts DEF NameAt
    <3>3. AccountId(c) \in Ids /\ req[c].passport \in Passports
      BY <2>0, RequestParts, TypeOKParts
    <3>4. owned'[req[c].passport][AccountId(c)] # Null
      <4>. DEFINE p == req[c].passport
                  id == AccountId(c)
                  S == {Null} \cup Objects
      <4>1. owned \in [Passports -> [Ids -> S]]
        BY DEF TypeOK
      <4>2. owned' = [owned EXCEPT ![p][id] = IF @ = Null THEN account[c] ELSE @]
        BY <1>4 DEF SetAccount
      <4>. HIDE DEF p, id, S
      <4>3. p \in Passports /\ id \in Ids
        BY <3>3 DEF p, id
      <4>4. owned'[p][id] # Null
        BY <2>0, <4>1, <4>2, <4>3
      <4>. QED BY <4>4 DEF p, id
    <3>5. FoundAt(c)'
      BY <3>1, <3>4 DEF FoundAt, Changing
    <3>. QED BY <3>2, <3>5
  <2>2. CASE req[c].op # "change"
    <3>1. pc'[c] = "idle"
      BY <1>t, <1>4, <2>2 DEF SetAccount, Return, Goto
    <3>. QED BY <3>1 DEF NameAt, FoundAt, Changing
  <2>. QED BY <2>1, <2>2
<1>5. CASE GetAccount(c) \/ GetAmount(c) \/ AddAmount(c)
  <2>0. Calling(c) /\ pc[c] \in {"getAccount"} \cup Changing /\ req[c].op = "change"
    BY <1>0, <1>5 DEF GetAccount, GetAmount, AddAmount, Calling, ControlAt, Changing
  <2>1. CASE req' = req /\ pc'[c] \in Changing
    <3>1. NameAt(c)'
      BY <1>0, <2>0, <2>1, ChangeLasts DEF NameAt
    <3>2. account'[c] = owned[req[c].passport][AccountId(c)] /\ account'[c] # Null
      <4>1. CASE GetAccount(c)
        BY <1>0, <1>t, <4>1 DEF GetAccount, FoundAt
      <4>2. CASE GetAmount(c) \/ AddAmount(c)
        <5>1. pc[c] \in Changing
          BY <4>2 DEF GetAmount, AddAmount, Changing
        <5>2. account' = account
          <6>1. CASE GetAmount(c) /\ ~req[c].number
            BY <1>t, <2>1, <6>1 DEF GetAmount, Return, Goto, Changing
          <6>2. CASE ~(GetAmount(c) /\ ~req[c].number)
            BY <4>2, <6>2 DEF GetAmount, AddAmount
          <6>. QED BY <6>1, <6>2
        <5>. QED BY <1>0, <5>1, <5>2 DEF FoundAt
      <4>. QED BY <1>5, <4>1, <4>2
    <3>3. FoundAt(c)'
      BY <2>0, <2>1, <3>2, ChangeLasts DEF FoundAt, Changing
    <3>. QED BY <3>1, <3>3
  <2>2. CASE pc'[c] = "idle"
    BY <2>2 DEF NameAt, FoundAt, Changing
  <2>3. (req' = req /\ pc'[c] \in Changing) \/ pc'[c] = "idle"
    BY <1>t, <1>5 DEF GetAccount, GetAmount, AddAmount, Continue, Return, Goto, Changing
  <2>. QED BY <2>1, <2>2, <2>3
<1>6. CASE FindAccount(c)
  <2>1. pc'[c] \in {"idle", "setAmount"}
    BY <1>t, <1>6 DEF FindAccount, Continue, Return, Goto
  <2>. QED BY <2>1 DEF NameAt, FoundAt, Changing
<1>7. CASE LocalStep(c) \/ CreatePerson(c) \/ CreateAccount(c) \/ SetAmount(c) \/ Report(c)
  <2>1. pc'[c] \in {"idle", "copy"}
    BY <1>t, <1>7 DEF LocalStep, GetLocalPerson, CopyAccount, CopyEnds, CreateLocalAccount,
                      SetLocalAmount, CreatePerson, CreateAccount, SetAmount, Report,
                      Continue, Return, Goto
  <2>. QED BY <2>1 DEF NameAt, FoundAt, Changing
<1>. QED
  BY <1>1, <1>2, <1>3, <1>4, <1>5, <1>6, <1>7 DEF AStep, BankStep, ClientStep

LEMMA NextChangeInv == TypeInv /\ ChangeInv /\ [Next]_vars => ChangeInv'
<1>. SUFFICES ASSUME TypeOK, Control, ChangeInv, [Next]_vars PROVE ChangeInv'
  BY DEF TypeInv
<1>1. CASE UNCHANGED vars
  BY <1>1 DEF ChangeInv, NameAt, FoundAt, AccountId, vars
<1>2. ASSUME NEW c \in Callers, AStep(c)
      PROVE  ChangeInv'
  BY <1>2, OthersChange, StepChange DEF ChangeInv
<1>. QED BY <1>1, <1>2 DEF Next, AStep

\* What change() reads and writes is the account of the person whom it names,
\* under the name that its caller knows, and nobody else's.
THEOREM ChangesRightAccount == Spec => []RightAccount
<1>1. Init => ChangeInv
  BY DEF Init, ChangeInv, NameAt, FoundAt, Changing
<1>2. ASSUME TypeInv, AgreeInv, HomeInv, ChangeInv
      PROVE  RightAccount
  <2>. SUFFICES ASSUME NEW c \in Callers, pc[c] \in Changing, OnlyPersonsOwn
                PROVE  /\ persons[req[c].passport] = req[c].fullName
                       /\ account[c] # Null
                       /\ account[c] = owned[req[c].passport][AccountId(c)]
                       /\ DistinctIds =>
                            \A p \in Passports \ {req[c].passport}, id \in Ids :
                                owned[p][id] # account[c]
    BY DEF RightAccount, Changing
  <2>0. TypeOK /\ ControlAt(c) /\ NameAt(c) /\ FoundAt(c)
    BY <1>2 DEF TypeInv, Control, ChangeInv
  <2>1. Calling(c) /\ req[c].op = "change"
    BY <2>0 DEF Calling, ControlAt, Changing
  <2>2. /\ persons[req[c].passport] = req[c].fullName
        /\ account[c] # Null /\ account[c] = owned[req[c].passport][AccountId(c)]
    BY <2>0, <2>1 DEF NameAt, FoundAt
  <2>3. ASSUME DistinctIds, NEW p \in Passports, p # req[c].passport, NEW id \in Ids,
               owned[p][id] = account[c]
        PROVE  FALSE
    <3>1. owned[p][id] = accounts[id]
      BY <1>2, <2>2, <2>3 DEF AgreeInv, AgreeOwned
    <3>2. AccountId(c) = id
      BY <1>2, <2>2, <2>3, <3>1 DEF HomeInv, HandHome
    <3>3. req[c].name \in AccountNames /\ req[c].passport \in Passports
      BY <2>0, <2>1, RequestParts, TypeOKParts
    <3>4. id = IdOf[req[c].passport][req[c].name]
      BY <2>1, <3>2 DEF AccountId, IdIn
    <3>5. PICK n \in AccountNames : id = IdOf[p][n]
      BY <1>2, <2>2, <2>3 DEF AgreeInv, OwnIds
    <3>6. IdOf[req[c].passport][req[c].name] = IdOf[p][n]
      BY <3>4, <3>5
    <3>7. req[c].passport = p
      <4>1. \A q \in Passports, m, k \in AccountNames : IdOf[q][m] = IdOf[p][k] => q = p
        BY <2>3 DEF DistinctIds
      <4>. QED BY <3>3, <3>5, <3>6, <4>1
    <3>. QED BY <2>3, <3>7
  <2>. QED BY <2>2, <2>3
<1>3. TypeInv /\ AgreeInv /\ HomeInv /\ ChangeInv => RightAccount
  BY <1>2
<1>. QED
  BY <1>1, <1>3, TypeInvariant, AgreeInvariant, HomeInvariant, NextChangeInv, PTL DEF Spec

-----------------------------------------------------------------------------
(* An account with one writer holds the sum that was credited to it: what  *)
(* the writer got from getAmount() is still the amount when it adds.       *)

MoneyAt(id) ==
    /\ heap[accounts[id]] = Wrap(credited[accounts[id]])
    /\ \A c \in Callers :
        pc[c] = "addAmount" /\ account[c] = accounts[id] => amount[c] = heap[account[c]]
MoneyInv == \A id \in OneWriter : accounts[id] # Null => MoneyAt(id)

\* Who is about to write writes the account that one of its requests names.
LEMMA WriterNames ==
    ASSUME Control, NEW c \in Callers, pc[c] \in {"addAmount", "setAmount"}
    PROVE  AccountId(c) \in Writes(c)
<1>1. req[c] \in Requests[c] /\ req[c].op \in {"change", "setAmount"}
  BY DEF Control, ControlAt, Calling
<1>. QED BY <1>1 DEF AccountId, Writes

LEMMA OneWriterOnly ==
    ASSUME Control, HomeInv, NEW id \in OneWriter, accounts[id] # Null,
           NEW c \in Callers, pc[c] \in {"addAmount", "setAmount"}, account[c] = accounts[id],
           NEW d \in Callers, pc[d] \in {"addAmount", "setAmount"}, account[d] = accounts[id]
    PROVE  c = d
<1>1. id \in Ids /\ AccountId(c) = id /\ AccountId(d) = id
  BY DEF HomeInv, HandHome, OneWriter
<1>. QED BY <1>1, WriterNames DEF OneWriter

\* addAmount is reached from getAmount only.
LEMMA ComesToAdd ==
    ASSUME TypeOK, Control, NEW c \in Callers, AStep(c), pc'[c] = "addAmount"
    PROVE  GetAmount(c) /\ account' = account /\ amount'[c] = heap[account[c]]
<1>t. pc \in [Callers -> CallStates] /\ amount \in [Callers -> Int]
  BY DEF TypeOK
<1>1. CASE GetAmount(c)
  BY <1>t, <1>1 DEF GetAmount, Continue, Return, Goto
<1>2. CASE Begin(c)
  <2>1. PICK r \in Requests[c] : Goto(c, FirstStep(r.op))
    BY <1>2 DEF Begin
  <2>2. pc'[c] = FirstStep(r.op)
    BY <1>t, <2>1 DEF Goto
  <2>3. r \in Request
    BY RequestsAssumption
  <2>4. r.op \in Ops
    BY <2>3 DEF Request
  <2>. QED BY <2>2, <2>4 DEF FirstStep, Ops
<1>3. CASE BankStep(c)
  BY <1>t, <1>3 DEF BankStep, CreatePerson, CreateAccount, PutAccount, SetAccount, FindAccount,
                    SetAmount, Continue, Return, Goto
<1>4. CASE Change(c) \/ GetAccount(c) \/ AddAmount(c) \/ Report(c)
  BY <1>t, <1>4 DEF Change, GetAccount, AddAmount, Report, Continue, Return, Goto
<1>5. CASE LocalStep(c)
  BY <1>t, <1>5 DEF LocalStep, GetLocalPerson, CopyAccount, CopyEnds, CreateLocalAccount,
                    SetLocalAmount, Continue, Return, Goto
<1>. QED BY <1>1, <1>2, <1>3, <1>4, <1>5 DEF AStep, ClientStep

\* The account o of a step that does not write to it.
LEMMA KeepsMoneyAt ==
    ASSUME TypeOK, Control, NEW c \in Callers, AStep(c), NEW id \in Ids, accounts[id] # Null,
           accounts'[id] = accounts[id], MoneyAt(id),
           heap'[accounts[id]] = heap[accounts[id]],
           credited'[accounts[id]] = credited[accounts[id]]
    PROVE  MoneyAt(id)'
<1>1. ASSUME NEW d \in Callers, pc'[d] = "addAmount", account'[d] = accounts'[id]
      PROVE  amount'[d] = heap'[account'[d]]
  <2>1. CASE d = c
    BY <1>1, <2>1, ComesToAdd
  <2>2. CASE d # c
    <3>1. pc'[d] = pc[d] /\ account'[d] = account[d] /\ amount'[d] = amount[d]
      BY <2>2, OthersControl DEF AStep
    <3>. QED BY <1>1, <3>1 DEF MoneyAt
  <2>. QED BY <2>1, <2>2
<1>2. heap'[accounts'[id]] = Wrap(credited'[accounts'[id]])
  BY DEF MoneyAt
<1>. QED BY <1>1, <1>2 DEF MoneyAt

\* A new account, and a write to an account.
LEMMA NewMoneyAt ==
    ASSUME TypeOK, Control, NEW c \in Callers, AStep(c), NEW id \in Ids,
           accounts'[id] = NewAccount, Allocate, pc[c] \in {"createAccount", "putAccount"}
    PROVE  MoneyAt(id)'
<1>1. heap'[NewAccount] = 0 /\ credited'[NewAccount] = 0
  BY AllocateGrows, TypeOKParts
<1>2. Wrap(0) = 0
  BY WrapIdentity, BankBoundsAssumption DEF Ints
<1>3. ASSUME NEW d \in Callers, pc'[d] = "addAmount", account'[d] = NewAccount
      PROVE  FALSE
  <2>1. account'[d] = account[d]
    <3>1. CASE d = c
      BY <1>3, <3>1, ComesToAdd
    <3>2. CASE d # c
      BY <3>2, OthersControl DEF AStep
    <3>. QED BY <3>1, <3>2
  <2>. QED BY <1>3, <2>1, NewIsNew DEF TypeOK
<1>. QED BY <1>1, <1>2, <1>3 DEF MoneyAt

LEMMA WriteMoneyAt ==
    ASSUME TypeOK, Control, HomeInv, NEW c \in Callers, AddAmount(c) \/ SetAmount(c),
           NEW id \in OneWriter, accounts[id] # Null, MoneyAt(id)
    PROVE  MoneyAt(id)' /\ accounts' = accounts
<1>. DEFINE o == accounts[id]
            u == account[c]
<1>0. AStep(c) /\ accounts' = accounts /\ id \in Ids /\ pc[c] \in {"addAmount", "setAmount"}
  BY DEF AStep, BankStep, ClientStep, AddAmount, SetAmount, bankVars, OneWriter
<1>1. u \in Objects /\ o \in Objects /\ MoneyTypeOK /\ CallTypeOK
  BY <1>0, TypeOKParts DEF Control, ControlAt, TypeOK
<1>2. req[c].value \in Ints /\ amount[c] \in Int /\ req[c].value \in Int
  BY <1>0, <1>1, RequestParts, BankBoundsAssumption DEF Calling, TypeOK, Ints
<1>3. credited[o] \in Int /\ credited[u] \in Int
  BY <1>1 DEF MoneyTypeOK, Objects
<1>4. /\ heap'[u] = IF AddAmount(c) THEN Wrap(amount[c] + req[c].value) ELSE req[c].value
      /\ credited'[u] = IF AddAmount(c) THEN credited[u] + req[c].value ELSE req[c].value
      /\ \A x \in Objects \ {u} : heap'[x] = heap[x] /\ credited'[x] = credited[x]
  <2>1. CASE AddAmount(c)
    <3>1. Wrap(amount[c] + req[c].value) \in Int /\ credited[u] + req[c].value \in Int
      BY <1>2, <1>3, WrapInt, BankBoundsAssumption DEF Ints
    <3>2. heap' = [heap EXCEPT ![u] = Wrap(amount[c] + req[c].value)]
      BY <2>1 DEF AddAmount
    <3>3. credited' = [credited EXCEPT ![u] = credited[u] + req[c].value]
      BY <2>1 DEF AddAmount
    <3>4. PICK m \in Int : m = Wrap(amount[c] + req[c].value)
      BY <3>1
    <3>5. PICK n \in Int : n = credited[u] + req[c].value
      BY <3>1
    <3>6. heap' = [heap EXCEPT ![u] = m] /\ credited' = [credited EXCEPT ![u] = n]
      BY <3>2, <3>3, <3>4, <3>5
    <3>7. /\ heap'[u] = m /\ credited'[u] = n
          /\ \A x \in Objects \ {u} : heap'[x] = heap[x] /\ credited'[x] = credited[x]
      <4>1. PICK w \in Objects : w = u
        BY <1>1
      <4>2. /\ heap'[w] = m /\ credited'[w] = n
            /\ \A x \in Objects \ {w} : heap'[x] = heap[x] /\ credited'[x] = credited[x]
        BY <1>1, <3>6, <4>1 DEF MoneyTypeOK, Objects
      <4>. QED BY <4>1, <4>2
    <3>8. heap'[u] = Wrap(amount[c] + req[c].value) /\ credited'[u] = credited[u] + req[c].value
      BY <3>4, <3>5, <3>7, Zenon
    <3>. QED BY <2>1, <3>7, <3>8
  <2>2. CASE ~AddAmount(c)
    BY <1>1, <1>2, <2>2, WriteKeeps DEF SetAmount
  <2>. QED BY <2>1, <2>2
<1>5. CASE u # o
  BY <1>0, <1>1, <1>4, <1>5, KeepsMoneyAt
<1>6. CASE u = o
  <2>1. heap'[o] = Wrap(credited'[o])
    <3>1. CASE AddAmount(c)
      <4>1. amount[c] = Wrap(credited[o])
        BY <1>6, <3>1 DEF AddAmount, MoneyAt
      <4>2. /\ heap'[o] = Wrap(Wrap(credited[o]) + req[c].value)
            /\ credited'[o] = credited[o] + req[c].value
        BY <1>4, <1>6, <3>1, <4>1
      <4>3. Wrap(Wrap(credited[o]) + req[c].value) = Wrap(credited[o] + req[c].value)
        BY <1>2, <1>3, WrapSum
      <4>. QED BY <4>2, <4>3
    <3>2. CASE ~AddAmount(c)
      BY <1>2, <1>4, <1>6, <3>2, WrapIdentity
    <3>. QED BY <3>1, <3>2
  <2>2. ASSUME NEW d \in Callers, pc'[d] = "addAmount", account'[d] = o
        PROVE  FALSE
    <3>1. d # c
      <4>1. pc'[c] # "addAmount"
        BY <1>0, ComesToAdd DEF AddAmount, SetAmount, GetAmount
      <4>. QED BY <2>2, <4>1
    <3>2. pc[d] = "addAmount" /\ account[d] = o
      BY <1>0, <2>2, <3>1, OthersControl DEF AStep
    <3>. QED BY <1>0, <1>6, <3>1, <3>2, OneWriterOnly
  <2>. QED BY <1>0, <2>1, <2>2 DEF MoneyAt
<1>. QED BY <1>0, <1>5, <1>6

LEMMA NextMoneyInv == TypeInv /\ HomeInv /\ MoneyInv /\ [Next]_vars => MoneyInv'
<1>. SUFFICES ASSUME TypeOK, Control, HomeInv, MoneyInv, [Next]_vars PROVE MoneyInv'
  BY DEF TypeInv
<1>0. OneWriter \subseteq Ids
  BY DEF OneWriter
<1>1. CASE UNCHANGED vars
  BY <1>1 DEF MoneyInv, MoneyAt, vars
<1>2. ASSUME NEW c \in Callers, AStep(c), NEW id \in OneWriter, accounts'[id] # Null
      PROVE  MoneyAt(id)'
  <2>. id \in Ids
    BY <1>0
  <2>1. CASE accounts'[id] = accounts[id]
    <3>0. MoneyAt(id) /\ accounts[id] \in Objects
      BY <1>2, <2>1 DEF MoneyInv, TypeOK
    <3>1. CASE UNCHANGED <<heap, credited>>
      BY <1>2, <2>1, <3>0, <3>1, KeepsMoneyAt
    <3>2. CASE Allocate
      <4>1. /\ heap'[accounts[id]] = heap[accounts[id]]
            /\ credited'[accounts[id]] = credited[accounts[id]]
        BY <3>0, <3>2, AllocateGrows, TypeOKParts
      <4>. QED BY <1>2, <2>1, <3>0, <4>1, KeepsMoneyAt
    <3>3. CASE AddAmount(c) \/ SetAmount(c)
      BY <1>2, <2>1, <3>0, <3>3, WriteMoneyAt
    <3>. QED BY <1>2, <3>1, <3>2, <3>3, MoneyStep DEF AStep
  <2>2. CASE accounts'[id] # accounts[id]
    BY <1>2, <2>2, AccountsStep, NewMoneyAt
  <2>. QED BY <2>1, <2>2
<1>. QED BY <1>1, <1>2 DEF Next, AStep, MoneyInv

\* An account that one caller changes holds the sum of what it was credited
\* with, up to the overflow of an int, whatever the other callers do.
THEOREM MoneyAddsUp == Spec => []MoneyAddsUpAlone
<1>1. Init => MoneyInv
  BY DEF Init, MoneyInv, OneWriter
<1>2. MoneyInv => MoneyAddsUpAlone
  BY DEF MoneyInv, MoneyAt, MoneyAddsUpAlone
<1>. QED
  BY <1>1, <1>2, TypeInvariant, HomeInvariant, NextMoneyInv, PTL DEF Spec
=============================================================================
