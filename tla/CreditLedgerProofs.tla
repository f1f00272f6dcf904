-------------------------- MODULE CreditLedgerProofs -------------------------
(***************************************************************************)
(* The credit services, each on its own and then together.  Recharges:     *)
(* the shared rows stay in agreement, an order is credited at most as      *)
(* often as calls for it run at once, and calls that do not overlap keep   *)
(* the promise of PaymentPromise.  Cuts and transfers: cuts are logged and *)
(* charged together, the overdraft is bounded, CutCredit rows are never    *)
(* driven below zero and always back the credits.  Last, the phone, which  *)
(* commits the token of a cut, and so spends a credit, only for a drawing  *)
(* that has reached the plotter.  All for any number of organizations,     *)
(* orders, packages, requests, simultaneous calls and cuts.                *)
(***************************************************************************)
EXTENDS CreditLedger, RechargePromise, PlotterCut, SumLemmas

-----------------------------------------------------------------------------
\* The shared rows, whatever the services do: every write of a wallet and of its
\* CreditTransaction rows keeps their types and their agreement.  The proofs about
\* all the credit services cite these lemmas.

\* The rows start empty and in agreement.
LEMMA AccountsInitBalanced ==
    ASSUME AccountsInit
    PROVE  AccountsTypeOK /\ LedgerBalanced
BY OrgAccountsAssumption
   DEF AccountsInit, AccountsTypeOK, LedgerBalanced, Balanced, NoWallet, Wallets, Journals,
       Lots, LicenseStatus

\* A recharge or grant of n credits (CreditWallet) keeps wallet and journal typed
\* and in agreement, lowers no balance and removes no wallet.
LEMMA CreditWalletBalanced ==
    ASSUME AccountsTypeOK, LedgerBalanced, NEW o \in Orgs, NEW n \in Nat, CreditWallet(o, n)
    PROVE  /\ wallet' \in [Orgs -> Wallets]
           /\ journal' \in [Orgs -> Journals]
           /\ LedgerBalanced'
           /\ \A p \in Orgs : /\ wallet'[p].balance >= wallet[p].balance
                              /\ wallet'[p].usedCredits = wallet[p].usedCredits
                              /\ wallet[p].exists => wallet'[p].exists
                              /\ journal'[p].sent = journal[p].sent
                              /\ journal'[p].received = journal[p].received
                              /\ journal'[p].credit = journal[p].credit
                                                          + (IF p = o THEN n ELSE 0)
<1>1. wallet[o] \in Wallets /\ journal[o] \in Journals
  BY DEF AccountsTypeOK
<1>2. /\ wallet' \in [Orgs -> Wallets]
      /\ wallet'[o].exists = TRUE
      /\ wallet'[o].balance = wallet[o].balance + n
      /\ wallet'[o].totalCredits = wallet[o].totalCredits + n
      /\ wallet'[o].usedCredits = wallet[o].usedCredits
  <2> DEFINE w == Credited(wallet[o], n)
  <2>1. /\ w \in Wallets /\ w.exists = TRUE /\ w.balance = wallet[o].balance + n
        /\ w.totalCredits = wallet[o].totalCredits + n /\ w.usedCredits = wallet[o].usedCredits
    BY <1>1 DEF Wallets, Credited
  <2>2. wallet' = [wallet EXCEPT ![o] = w]
    BY DEF CreditWallet
  <2>3. wallet'[o] = w /\ wallet' \in [Orgs -> Wallets]
    BY <2>1, <2>2 DEF AccountsTypeOK
  <2>4. QED BY <2>1, <2>3
<1>3. /\ journal' \in [Orgs -> Journals]
      /\ journal'[o] \in Journals
      /\ journal'[o].opening = journal[o].opening
      /\ journal'[o].credit = journal[o].credit + n
      /\ journal'[o].cut = journal[o].cut
      /\ journal'[o].sent = journal[o].sent
      /\ journal'[o].received = journal[o].received
  <2> DEFINE j == [journal[o] EXCEPT !.credit = @ + n]
  <2>1. /\ j \in Journals
        /\ j.opening = journal[o].opening /\ j.credit = journal[o].credit + n
        /\ j.cut = journal[o].cut /\ j.sent = journal[o].sent /\ j.received = journal[o].received
    BY <1>1 DEF Journals
  <2>2. journal' = [journal EXCEPT ![o] = j]
    BY DEF CreditWallet
  <2>3. journal'[o] = j /\ journal' \in [Orgs -> Journals]
    BY <2>1, <2>2 DEF AccountsTypeOK
  <2>4. QED BY <2>1, <2>3
<1>5. Balanced(wallet'[o], journal'[o])
  BY <1>1, <1>2, <1>3 DEF Wallets, Journals, LedgerBalanced, Balanced
<1>6. \A p \in Orgs \ {o} : wallet'[p] = wallet[p] /\ journal'[p] = journal[p]
  BY DEF CreditWallet, AccountsTypeOK
<1>7. LedgerBalanced'
  BY <1>5, <1>6 DEF LedgerBalanced, Balanced
<1>8. \A p \in Orgs : /\ wallet'[p].balance >= wallet[p].balance
                      /\ wallet'[p].usedCredits = wallet[p].usedCredits
                      /\ wallet[p].exists => wallet'[p].exists
  <2>1. /\ wallet'[o].balance >= wallet[o].balance /\ wallet'[o].exists
        /\ wallet'[o].usedCredits = wallet[o].usedCredits
    BY <1>1, <1>2 DEF AccountsTypeOK, Wallets
  <2>2. \A p \in Orgs : wallet[p].balance \in Int
    BY DEF AccountsTypeOK, Wallets
  <2>3. QED BY <1>6, <2>1, <2>2
<1>9. \A p \in Orgs : /\ journal'[p].sent = journal[p].sent
                      /\ journal'[p].received = journal[p].received
                      /\ journal'[p].credit = journal[p].credit + (IF p = o THEN n ELSE 0)
  <2>1. \A p \in Orgs : journal[p].credit \in Nat
    BY DEF AccountsTypeOK, Journals
  <2>2. QED BY <1>3, <1>6, <2>1
<1>10. QED BY <1>2, <1>3, <1>7, <1>8, <1>9

\* Rows that stay as they are stay in agreement.
LEMMA UnchangedBalanced ==
    ASSUME LedgerBalanced, UNCHANGED <<wallet, journal>>
    PROVE  LedgerBalanced'
BY DEF LedgerBalanced, Balanced

\* The steps of the rest of the backend (activation, device binding, status
\* changes, the end of a plan) keep the rows typed and in agreement, lower no
\* balance, charge nothing and remove no wallet.
LEMMA AccountsStepBalanced ==
    ASSUME AccountsTypeOK, LedgerBalanced, AccountsNext
    PROVE  /\ AccountsTypeOK'
           /\ LedgerBalanced'
           /\ \A p \in Orgs : /\ wallet'[p].balance >= wallet[p].balance
                              /\ wallet'[p].usedCredits = wallet[p].usedCredits
                              /\ wallet[p].exists => wallet'[p].exists
<1>0. \A p \in Orgs : wallet[p] \in Wallets /\ wallet[p].balance \in Int
  BY DEF AccountsTypeOK, Wallets
<1>1. PICK o \in Orgs :
        \/ ActivateLicense(o)
        \/ BindDevice(o)
        \/ \E s \in LicenseStatus \ {"none"} : SetLicenseStatus(o, s)
        \/ PlanEnds(o)
  BY DEF AccountsNext
<1>2. CASE ActivateLicense(o)
  <2>1. wallet' = [wallet EXCEPT ![o].exists = TRUE] /\ journal' = journal
    BY <1>2 DEF ActivateLicense
  <2>2. \A p \in Orgs : /\ wallet'[p] \in Wallets
                        /\ wallet'[p].exists \/ wallet'[p] = wallet[p]
                        /\ wallet'[p].balance = wallet[p].balance
                        /\ wallet'[p].totalCredits = wallet[p].totalCredits
                        /\ wallet'[p].usedCredits = wallet[p].usedCredits
    BY <1>0, <2>1 DEF AccountsTypeOK, Wallets
  <2>3. AccountsTypeOK'
    BY <1>2, <2>1, <2>2 DEF ActivateLicense, AccountsTypeOK, LicenseStatus
  <2>4. LedgerBalanced'
    BY <2>1, <2>2 DEF LedgerBalanced, Balanced
  <2>5. QED BY <1>0, <2>2, <2>3, <2>4
<1>3. CASE BindDevice(o)
  <2>0. license' \in [Orgs -> LicenseStatus] /\ UNCHANGED <<lots, plan, locked>>
    BY <1>3 DEF BindDevice, AccountsTypeOK, LicenseStatus
  <2>1. CASE wallet[o].exists
    <3>1. UNCHANGED <<wallet, journal>>
      BY <1>3, <2>1 DEF BindDevice
    <3>2. QED BY <1>0, <2>0, <3>1, UnchangedBalanced DEF AccountsTypeOK
  <2>2. CASE ~wallet[o].exists
    <3> DEFINE w == [exists |-> TRUE, balance |-> BindCredits,
                     totalCredits |-> BindCredits, usedCredits |-> 0]
    <3>1. wallet' = [wallet EXCEPT ![o] = w] /\ journal' = [journal EXCEPT ![o].opening = BindCredits]
      BY <1>3, <2>2 DEF BindDevice
    <3>2. wallet[o] = NoWallet /\ Balanced(NoWallet, journal[o]) /\ journal[o] \in Journals
      BY <2>2 DEF LedgerBalanced, Balanced, AccountsTypeOK
    <3>3. w \in Wallets /\ w.balance >= 0
      BY OrgAccountsAssumption DEF Wallets
    <3>4. /\ journal'[o] \in Journals
          /\ journal'[o].opening = BindCredits
          /\ journal'[o].credit = 0 /\ journal'[o].received = 0
          /\ journal'[o].cut = 0 /\ journal'[o].sent = 0
      <4> DEFINE j == [journal[o] EXCEPT !.opening = BindCredits]
      <4>1. /\ j \in Journals
            /\ j.opening = BindCredits /\ j.credit = journal[o].credit
            /\ j.cut = journal[o].cut /\ j.sent = journal[o].sent /\ j.received = journal[o].received
        BY <3>2, OrgAccountsAssumption DEF Journals
      <4>2. /\ journal[o].credit = 0 /\ journal[o].received = 0
            /\ journal[o].cut = 0 /\ journal[o].sent = 0
        <5>1. /\ 0 = 0 - 0 - journal[o].sent /\ 0 = journal[o].cut
              /\ 0 = journal[o].opening + journal[o].credit + journal[o].received
          BY <3>2 DEF Balanced, NoWallet
        <5>2. /\ journal[o].opening \in Nat /\ journal[o].credit \in Nat
              /\ journal[o].received \in Nat /\ journal[o].sent \in Nat
          BY <3>2 DEF Journals
        <5>3. journal[o].cut = 0 /\ journal[o].sent = 0
          <6>1. \A a \in Nat : 0 = 0 - 0 - a => a = 0
            OBVIOUS
          <6>2. QED BY <5>1, <5>2, <6>1
        <5>4. journal[o].credit = 0 /\ journal[o].received = 0
          <6>1. \A a, b, c \in Nat : 0 = a + b + c => b = 0 /\ c = 0
            OBVIOUS
          <6>2. QED BY <5>1, <5>2, <6>1
        <5>5. QED BY <5>3, <5>4
      <4>3. journal'[o] = j
        BY <3>1 DEF AccountsTypeOK
      <4>4. QED BY <4>1, <4>2, <4>3
    <3>5. Balanced(wallet'[o], journal'[o])
      BY <3>1, <3>4, OrgAccountsAssumption DEF Balanced, AccountsTypeOK
    <3>6. \A p \in Orgs \ {o} : wallet'[p] = wallet[p] /\ journal'[p] = journal[p]
      BY <3>1 DEF AccountsTypeOK
    <3>7. LedgerBalanced'
      BY <3>5, <3>6 DEF LedgerBalanced, Balanced
    <3>8. AccountsTypeOK'
      BY <2>0, <3>1, <3>3, <3>4 DEF AccountsTypeOK
    <3>9. \A p \in Orgs : /\ wallet'[p].balance >= wallet[p].balance
                          /\ wallet'[p].usedCredits = wallet[p].usedCredits
                          /\ wallet[p].exists => wallet'[p].exists
      BY <1>0, <3>1, <3>2, <3>3, <3>6 DEF NoWallet, AccountsTypeOK
    <3>10. QED BY <3>7, <3>8, <3>9
  <2>3. QED BY <2>1, <2>2
<1>4. CASE \E s \in LicenseStatus \ {"none"} : SetLicenseStatus(o, s)
  <2>1. UNCHANGED <<wallet, journal, lots, plan, locked>> /\ license' \in [Orgs -> LicenseStatus]
    BY <1>4 DEF SetLicenseStatus, AccountsTypeOK
  <2>2. QED BY <1>0, <2>1, UnchangedBalanced DEF AccountsTypeOK
<1>5. CASE PlanEnds(o)
  <2>1. UNCHANGED <<wallet, journal, lots, license, locked>> /\ plan' \in [Orgs -> BOOLEAN]
    BY <1>5 DEF PlanEnds, AccountsTypeOK
  <2>2. QED BY <1>0, <2>1, UnchangedBalanced DEF AccountsTypeOK
<1>6. QED BY <1>1, <1>2, <1>3, <1>4, <1>5

\* None of those steps touches rows, locks, or what was credited, sent or
\* received.
LEMMA AccountsStepQuiet ==
    ASSUME AccountsTypeOK, AccountsNext
    PROVE  /\ UNCHANGED <<lots, locked>>
           /\ \A p \in Orgs : /\ journal'[p].credit = journal[p].credit
                              /\ journal'[p].sent = journal[p].sent
                              /\ journal'[p].received = journal[p].received
<1>1. \A p \in Orgs : journal[p] \in Journals
  BY DEF AccountsTypeOK
<1>2. PICK o \in Orgs :
        \/ ActivateLicense(o)
        \/ BindDevice(o)
        \/ \E s \in LicenseStatus \ {"none"} : SetLicenseStatus(o, s)
        \/ PlanEnds(o)
  BY DEF AccountsNext
<1>3. UNCHANGED <<lots, locked>>
  BY <1>2 DEF ActivateLicense, BindDevice, SetLicenseStatus, PlanEnds
<1>4. UNCHANGED journal \/ journal' = [journal EXCEPT ![o].opening = BindCredits]
  BY <1>2 DEF ActivateLicense, BindDevice, SetLicenseStatus, PlanEnds
<1>5. QED BY <1>1, <1>3, <1>4 DEF AccountsTypeOK, Journals

-----------------------------------------------------------------------------
\* An order that has been credited is settled: the row and the status are
\* written by the same transaction.
CreditedSettled == \A i \in Orders : order[i].rows > 0 => order[i].status = "SUCCESS"

RechargeInv == RechargeSystemTypeOK /\ LedgerBalanced /\ CreditedSettled /\ OvercreditBounded

-----------------------------------------------------------------------------
\* The calls in flight for an order are finitely many, and no more than there
\* are calls.
LEMMA FlightFinite ==
    ASSUME NEW i \in Orders
    PROVE  /\ IsFiniteSet(InFlight(i))
           /\ Cardinality(InFlight(i)) \in Nat
           /\ Cardinality(InFlight(i)) <= Cardinality(Calls)
           /\ Cardinality(Calls) \in Nat
<1>1. InFlight(i) \subseteq Calls /\ IsFiniteSet(Calls)
  BY RechargeAssumption DEF InFlight
<1>2. QED BY <1>1, FS_Subset, FS_CardinalityType

\* A request that holds nothing is typed.
LEMMA IdleTyped == Idle \in CallStates /\ Idle.pc = "idle"
<1>1. (CHOOSE i \in Orders : TRUE) \in Orders
  BY RechargeAssumption
<1>2. QED BY <1>1 DEF Idle, CallStates

\* A step that leaves rows and calls, and settles or keeps what was settled,
\* keeps the bound on credits.
LEMMA QuietOrders ==
    ASSUME RechargeInv, UNCHANGED call,
           \A i \in Orders : /\ order'[i].rows = order[i].rows
                             /\ order[i].status = "SUCCESS" => order'[i].status = "SUCCESS"
    PROVE  CreditedSettled' /\ OvercreditBounded'
<1>1. \A i \in Orders : InFlight(i)' = InFlight(i)
  BY DEF InFlight
<1>2. QED BY <1>1 DEF RechargeInv, CreditedSettled, OvercreditBounded

\* When a call ends, its order has one call less in flight, the others as many.
LEMMA RechargeCallEnds ==
    ASSUME RechargeSystemTypeOK, NEW c \in Calls, call[c].pc # "idle", call' = [call EXCEPT ![c] = Idle]
    PROVE  /\ call' \in [Calls -> CallStates]
           /\ call[c].order \in Orders
           /\ \A i \in Orders :
                 /\ InFlight(i)' \subseteq InFlight(i)
                 /\ Cardinality(InFlight(i)') =
                       IF i = call[c].order THEN Cardinality(InFlight(i)) - 1
                                            ELSE Cardinality(InFlight(i))
<1>1. call' \in [Calls -> CallStates] /\ call'[c].pc = "idle" /\ call[c].order \in Orders
      /\ \A d \in Calls \ {c} : call'[d] = call[d]
  BY IdleTyped DEF RechargeSystemTypeOK, RechargeTypeOK, CallStates
<1>2. \A i \in Orders : InFlight(i)' = InFlight(i) \ {c}
  BY <1>1 DEF InFlight
<1>3. \A i \in Orders : c \in InFlight(i) <=> i = call[c].order
  BY DEF InFlight
<1>4. \A i \in Orders : Cardinality(InFlight(i) \ {c}) =
          IF c \in InFlight(i) THEN Cardinality(InFlight(i)) - 1 ELSE Cardinality(InFlight(i))
  BY FlightFinite, FS_RemoveElement
<1>5. QED BY <1>1, <1>2, <1>3, <1>4

-----------------------------------------------------------------------------
LEMMA CreateOrderStep ==
    ASSUME RechargeInv, NEW i \in Orders, NEW o \in Orgs, NEW p \in Packages, CreateOrder(i, o, p)
    PROVE  RechargeInv'
<1> DEFINE r == [order[i] EXCEPT !.status = "PENDING", !.org = o, !.package = p]
<1>1. /\ r \in OrderRows /\ r.rows = order[i].rows
      /\ order \in [Orders -> OrderRows] /\ order[i].status = "none"
  BY DEF RechargeInv, RechargeSystemTypeOK, RechargeTypeOK, OrderRows, CreateOrder
<1>2. order' = [order EXCEPT ![i] = r] \/ UNCHANGED order
  BY DEF CreateOrder
<1> HIDE DEF r
<1>3. /\ order' \in [Orders -> OrderRows]
      /\ \A j \in Orders : /\ order'[j].rows = order[j].rows
                           /\ order[j].status = "SUCCESS" => order'[j].status = "SUCCESS"
  BY <1>1, <1>2
<1>4. /\ UNCHANGED <<wallet, journal, lots, plan, locked, package, call, lost>>
      /\ license' \in [Orgs -> LicenseStatus]
  BY DEF CreateOrder, RechargeInv, RechargeSystemTypeOK, AccountsTypeOK, LicenseStatus
<1>5. RechargeSystemTypeOK'
  BY <1>3, <1>4 DEF RechargeInv, RechargeSystemTypeOK, AccountsTypeOK, RechargeTypeOK
<1>6. QED BY <1>3, <1>4, <1>5, QuietOrders, UnchangedBalanced DEF RechargeInv

LEMMA UpdatePackageStep ==
    ASSUME RechargeInv, NEW p \in UsagePackages, NEW n \in Offers, NEW b \in BOOLEAN,
           UpdatePackage(p, n, b)
    PROVE  RechargeInv'
<1>1. n \in Nat /\ p \in Packages
  BY RechargeAssumption
<1>2. /\ package' \in [Packages -> [active: BOOLEAN, credits: Nat]]
      /\ UNCHANGED <<wallet, journal, lots, license, plan, locked, order, call, lost>>
  BY <1>1 DEF UpdatePackage, accountVars, RechargeInv, RechargeSystemTypeOK, RechargeTypeOK
<1>3. RechargeSystemTypeOK'
  BY <1>2 DEF RechargeInv, RechargeSystemTypeOK, AccountsTypeOK, RechargeTypeOK
<1>4. QED BY <1>2, <1>3, QuietOrders, UnchangedBalanced DEF RechargeInv

LEMMA PayStep ==
    ASSUME RechargeInv, NEW i \in Orders, Pay(i)
    PROVE  RechargeInv'
<1> DEFINE r == [order[i] EXCEPT !.paid = TRUE]
<1>1. /\ r \in OrderRows /\ r.rows = order[i].rows /\ r.status = order[i].status
      /\ order \in [Orders -> OrderRows]
  BY DEF RechargeInv, RechargeSystemTypeOK, RechargeTypeOK, OrderRows
<1>2. /\ order' = [order EXCEPT ![i] = r]
      /\ UNCHANGED <<wallet, journal, lots, license, plan, locked, package, call, lost>>
  BY DEF Pay, accountVars
<1> HIDE DEF r
<1>3. /\ order' \in [Orders -> OrderRows]
      /\ \A j \in Orders : /\ order'[j].rows = order[j].rows
                           /\ order[j].status = "SUCCESS" => order'[j].status = "SUCCESS"
  BY <1>1, <1>2
<1>4. RechargeSystemTypeOK'
  BY <1>2, <1>3 DEF RechargeInv, RechargeSystemTypeOK, AccountsTypeOK, RechargeTypeOK
<1>5. QED BY <1>2, <1>3, <1>4, QuietOrders, UnchangedBalanced DEF RechargeInv

\* A call that joins finds the order without a credit, and the calls in flight
\* for it are calls.
LEMMA ReadOrderStep ==
    ASSUME RechargeInv, NEW c \in Calls, NEW i \in Orders, ReadOrder(c, i)
    PROVE  RechargeInv'
<1> DEFINE n == Worth(order[i].package)
           r == [call[c] EXCEPT !.pc = "read", !.order = i, !.credits = n]
<1>1. n \in Nat
  BY DEF RechargeInv, RechargeSystemTypeOK, RechargeTypeOK, OrderRows, Worth
<1>2. r \in CallStates /\ r.order = i /\ r.pc = "read"
  <2> HIDE DEF n
  <2>1. QED BY <1>1 DEF RechargeInv, RechargeSystemTypeOK, RechargeTypeOK, CallStates
<1>3. /\ call' = [call EXCEPT ![c] = r] /\ call[c].pc = "idle" /\ order[i].status # "SUCCESS"
      /\ UNCHANGED <<wallet, journal, lots, license, plan, locked, package, order, lost>>
  BY DEF ReadOrder, accountVars
<1> HIDE DEF n, r
<1>4. /\ call' \in [Calls -> CallStates] /\ call'[c] = r
      /\ \A d \in Calls \ {c} : call'[d] = call[d]
  BY <1>2, <1>3 DEF RechargeInv, RechargeSystemTypeOK, RechargeTypeOK
<1>5. RechargeSystemTypeOK'
  BY <1>3, <1>4 DEF RechargeInv, RechargeSystemTypeOK, AccountsTypeOK, RechargeTypeOK
<1>6. OvercreditBounded'
  <2> SUFFICES ASSUME NEW j \in Orders
               PROVE  order'[j].rows + Cardinality(InFlight(j)') <= Cardinality(Calls)
    BY DEF OvercreditBounded
  <2>1. order'[j].rows = order[j].rows /\ order[j].rows \in Nat
    BY <1>3 DEF RechargeInv, RechargeSystemTypeOK, RechargeTypeOK, OrderRows
  <2>2. CASE j = i
    <3>1. order[i].rows = 0
      BY <1>3, <2>1, <2>2 DEF RechargeInv, CreditedSettled
    <3>2. InFlight(i)' \subseteq Calls /\ IsFiniteSet(Calls) /\ Cardinality(Calls) \in Nat
      BY RechargeAssumption, FS_CardinalityType DEF InFlight
    <3>3. Cardinality(InFlight(i)') <= Cardinality(Calls) /\ Cardinality(InFlight(i)') \in Nat
      BY <3>2, FS_Subset, FS_CardinalityType
    <3>4. QED BY <2>1, <2>2, <3>1, <3>3
  <2>3. CASE j # i
    <3>1. InFlight(j)' = InFlight(j)
      BY <1>2, <1>3, <1>4, <2>3 DEF InFlight
    <3>2. QED BY <2>1, <3>1 DEF RechargeInv, OvercreditBounded
  <2>4. QED BY <2>2, <2>3
<1>7. CreditedSettled'
  BY <1>3 DEF RechargeInv, CreditedSettled
<1>8. LedgerBalanced'
  BY <1>3, UnchangedBalanced DEF RechargeInv
<1>9. QED BY <1>5, <1>6, <1>7, <1>8 DEF RechargeInv

LEMMA UpdateStatusStep ==
    ASSUME RechargeInv, NEW c \in Calls, UpdateStatus(c)
    PROVE  RechargeInv'
<1> DEFINE o == order[call[c].order].org
           r == [call[c] EXCEPT !.pc = "crediting", !.hasWallet = wallet[o].exists,
                                !.licensed = (license[o] = "ACTIVE")]
<1>1. o \in Orgs /\ wallet[o].exists \in BOOLEAN
  BY DEF RechargeInv, RechargeSystemTypeOK, AccountsTypeOK, Wallets, RechargeTypeOK, CallStates, OrderRows
<1>2. r \in CallStates /\ r.order = call[c].order /\ r.pc = "crediting"
  <2> HIDE DEF o
  <2>1. QED BY <1>1 DEF RechargeInv, RechargeSystemTypeOK, RechargeTypeOK, CallStates
<1>3. /\ call' = [call EXCEPT ![c] = r] /\ call[c].pc = "read"
      /\ UNCHANGED <<wallet, journal, lots, license, plan, locked, package, order, lost>>
  BY DEF UpdateStatus, accountVars
<1> HIDE DEF o, r
<1>4. /\ call' \in [Calls -> CallStates] /\ call'[c] = r
      /\ \A d \in Calls \ {c} : call'[d] = call[d]
  BY <1>2, <1>3 DEF RechargeInv, RechargeSystemTypeOK, RechargeTypeOK
<1>5. \A i \in Orders : InFlight(i)' = InFlight(i)
  BY <1>2, <1>3, <1>4 DEF InFlight
<1>6. RechargeSystemTypeOK'
  BY <1>3, <1>4 DEF RechargeInv, RechargeSystemTypeOK, AccountsTypeOK, RechargeTypeOK
<1>7. QED BY <1>3, <1>5, <1>6, UnchangedBalanced
         DEF RechargeInv, CreditedSettled, OvercreditBounded

\* The commit moves one call from those in flight to the rows.
LEMMA CreditOrderStep ==
    ASSUME RechargeInv, NEW c \in Calls, CreditOrder(c)
    PROVE  RechargeInv'
<1> DEFINE i == call[c].order
           o == order[i].org
           n == call[c].credits
           named == call[c].licensed
           r == [order[i] EXCEPT !.status = "SUCCESS", !.rows = @ + 1, !.credited = @ + n]
<1>1. /\ RechargeSystemTypeOK /\ call[c].pc # "idle"
      /\ i \in Orders /\ o \in Orgs /\ n \in Nat /\ order[i] \in OrderRows
  BY DEF RechargeInv, RechargeSystemTypeOK, RechargeTypeOK, CallStates, OrderRows, CreditOrder
<1>2. /\ r \in OrderRows /\ r.status = "SUCCESS" /\ r.rows = order[i].rows + 1
      /\ order[i].rows \in Nat
  <2>1. order[i].rows \in Nat /\ order[i].rows + 1 \in Nat /\ order[i].credited + n \in Nat
    BY <1>1 DEF OrderRows
  <2> HIDE DEF n, i
  <2>2. QED BY <1>1, <2>1 DEF OrderRows
<1>3. /\ order' = [order EXCEPT ![i] = r]
      /\ CreditWallet(o, n) /\ AddLot(Distributor, n, named)
      /\ plan' = [plan EXCEPT ![o] = @ \/ order[i].package \notin UsagePackages]
      /\ call' = [call EXCEPT ![c] = Idle]
      /\ UNCHANGED <<license, locked, package, lost>>
  BY DEF CreditOrder
<1> HIDE DEF i, o, n, named, r
<1>4. /\ order' \in [Orders -> OrderRows] /\ order'[i] = r
      /\ \A j \in Orders \ {i} : order'[j] = order[j]
  BY <1>1, <1>2, <1>3 DEF RechargeSystemTypeOK, RechargeTypeOK
<1>5. /\ call' \in [Calls -> CallStates]
      /\ \A j \in Orders : Cardinality(InFlight(j)') =
            IF j = i THEN Cardinality(InFlight(j)) - 1 ELSE Cardinality(InFlight(j))
  BY <1>1, <1>3, RechargeCallEnds DEF i
<1>6. /\ wallet' \in [Orgs -> Wallets] /\ journal' \in [Orgs -> Journals] /\ LedgerBalanced'
  BY <1>1, <1>3, CreditWalletBalanced DEF RechargeInv, RechargeSystemTypeOK
<1>7. lots' \in [Orgs -> Lots]
  <2>1. Distributor \in Orgs /\ lots \in [Orgs -> Lots] /\ lots[Distributor] \in Lots
    BY RechargeAssumption DEF RechargeInv, RechargeSystemTypeOK, AccountsTypeOK
  <2>2. /\ [lots[Distributor] EXCEPT !.assigned = @ + n] \in Lots
        /\ [lots[Distributor] EXCEPT !.unassigned = @ + n] \in Lots
    BY <1>1, <2>1 DEF Lots
  <2>3. QED BY <1>3, <2>1, <2>2 DEF AddLot
<1>8. plan' \in [Orgs -> BOOLEAN]
  BY <1>3 DEF RechargeInv, RechargeSystemTypeOK, AccountsTypeOK
<1>9. RechargeSystemTypeOK'
  BY <1>3, <1>4, <1>5, <1>6, <1>7, <1>8 DEF RechargeInv, RechargeSystemTypeOK, AccountsTypeOK, RechargeTypeOK
<1>10. CreditedSettled'
  BY <1>2, <1>4 DEF RechargeInv, CreditedSettled
<1>11. OvercreditBounded'
  <2> SUFFICES ASSUME NEW j \in Orders
               PROVE  order'[j].rows + Cardinality(InFlight(j)') <= Cardinality(Calls)
    BY DEF OvercreditBounded
  <2>1. /\ order[j].rows + Cardinality(InFlight(j)) <= Cardinality(Calls)
        /\ Cardinality(InFlight(j)) \in Nat
    BY FlightFinite DEF RechargeInv, OvercreditBounded
  <2>2. CASE j = i
    <3>1. order'[j].rows = order[j].rows + 1 /\ order[j].rows \in Nat
      BY <1>2, <1>4, <2>2
    <3>2. Cardinality(InFlight(j)') = Cardinality(InFlight(j)) - 1
      BY <1>5, <2>2
    <3>3. QED BY <2>1, <3>1, <3>2
  <2>3. CASE j # i
    BY <1>4, <1>5, <2>1, <2>3
  <2>4. QED BY <2>2, <2>3
<1>12. QED BY <1>6, <1>9, <1>10, <1>11 DEF RechargeInv

LEMMA LoseCallStep ==
    ASSUME RechargeInv, NEW c \in Calls, LoseCall(c)
    PROVE  RechargeInv'
<1>1. /\ call[c].pc # "idle" /\ call' = [call EXCEPT ![c] = Idle]
      /\ UNCHANGED <<wallet, journal, lots, license, plan, locked, package, order>>
  BY DEF LoseCall, accountVars
<1>2. lost' \in 0..MaxLost
  BY RechargeAssumption DEF LoseCall, RechargeInv, RechargeSystemTypeOK, RechargeTypeOK
<1>3. /\ call' \in [Calls -> CallStates]
      /\ \A i \in Orders : \/ Cardinality(InFlight(i)') = Cardinality(InFlight(i)) - 1
                           \/ Cardinality(InFlight(i)') = Cardinality(InFlight(i))
  BY <1>1, RechargeCallEnds DEF RechargeInv
<1>4. RechargeSystemTypeOK'
  BY <1>1, <1>2, <1>3 DEF RechargeInv, RechargeSystemTypeOK, AccountsTypeOK, RechargeTypeOK
<1>5. OvercreditBounded'
  <2> SUFFICES ASSUME NEW j \in Orders
               PROVE  order[j].rows + Cardinality(InFlight(j)') <= Cardinality(Calls)
    BY <1>1 DEF OvercreditBounded
  <2>1. /\ order[j].rows + Cardinality(InFlight(j)) <= Cardinality(Calls)
        /\ Cardinality(InFlight(j)) \in Nat /\ Cardinality(Calls) \in Nat
        /\ order[j].rows \in Nat
    BY FlightFinite DEF RechargeInv, OvercreditBounded, RechargeSystemTypeOK, RechargeTypeOK, OrderRows
  <2>2. \/ Cardinality(InFlight(j)') = Cardinality(InFlight(j)) - 1
        \/ Cardinality(InFlight(j)') = Cardinality(InFlight(j))
    BY <1>3
  <2>3. QED BY <2>1, <2>2
<1>6. QED BY <1>1, <1>4, <1>5, UnchangedBalanced DEF RechargeInv, CreditedSettled

\* What another service writes, as long as the rows stay typed and in
\* agreement, does not concern recharges.
LEMMA RechargeKept ==
    ASSUME RechargeInv, AccountsTypeOK', LedgerBalanced', UNCHANGED rechargeVars
    PROVE  RechargeInv'
<1>1. UNCHANGED <<package, order, call, lost>>
  BY DEF rechargeVars
<1>2. RechargeSystemTypeOK'
  BY <1>1 DEF RechargeInv, RechargeSystemTypeOK, RechargeTypeOK
<1>3. QED BY <1>1, <1>2, QuietOrders DEF RechargeInv

LEMMA RechargeOutsideStep ==
    ASSUME RechargeInv, AccountsNext, UNCHANGED rechargeVars
    PROVE  RechargeInv'
BY AccountsStepBalanced, RechargeKept DEF RechargeInv, RechargeSystemTypeOK

-----------------------------------------------------------------------------
LEMMA RechargeInitInv == RechargeSystemInit => RechargeInv
<1> SUFFICES ASSUME RechargeSystemInit PROVE RechargeInv
  OBVIOUS
<1>1. AccountsTypeOK /\ LedgerBalanced
  BY AccountsInitBalanced DEF RechargeSystemInit
<1>2. (CHOOSE p \in Packages : TRUE) \in Packages
  BY RechargeAssumption
<1>3. /\ order \in [Orders -> OrderRows]
      /\ \A i \in Orders : order[i].rows = 0
  BY <1>2, RechargeAssumption DEF RechargeSystemInit, RechargeInit, OrderRows
<1>4. RechargeTypeOK
  <2>1. package \in [Packages -> [active: BOOLEAN, credits: Nat]]
    BY RechargeAssumption DEF RechargeSystemInit, RechargeInit
  <2>2. QED BY <1>3, <2>1, IdleTyped, RechargeAssumption DEF RechargeSystemInit, RechargeInit, RechargeTypeOK
<1>5. OvercreditBounded
  BY <1>3, FlightFinite DEF OvercreditBounded
<1>6. QED BY <1>1, <1>3, <1>4, <1>5 DEF RechargeInv, RechargeSystemTypeOK, CreditedSettled

LEMMA RechargeStepInv == RechargeInv /\ [RechargeNext]_rechargeSystemVars => RechargeInv'
<1> SUFFICES ASSUME RechargeInv, [RechargeNext]_rechargeSystemVars PROVE RechargeInv'
  OBVIOUS
<1>1. CASE UNCHANGED rechargeSystemVars
  <2>1. UNCHANGED <<wallet, journal, lots, license, plan, locked, package, order, call, lost>>
    BY <1>1 DEF rechargeSystemVars, accountVars, rechargeVars
  <2>2. RechargeSystemTypeOK'
    BY <2>1 DEF RechargeInv, RechargeSystemTypeOK, AccountsTypeOK, RechargeTypeOK
  <2>3. QED BY <2>1, <2>2, QuietOrders, UnchangedBalanced DEF RechargeInv
<1>2. CASE \E i \in Orders, o \in Orgs, p \in Packages : CreateOrder(i, o, p)
  BY <1>2, CreateOrderStep
<1>3. CASE \E p \in UsagePackages, n \in Offers, b \in BOOLEAN : UpdatePackage(p, n, b)
  BY <1>3, UpdatePackageStep
<1>4. CASE \E i \in Orders : Pay(i)
  BY <1>4, PayStep
<1>5. CASE \E c \in Calls : CallStep(c)
  BY <1>5, ReadOrderStep, UpdateStatusStep, CreditOrderStep, LoseCallStep DEF CallStep
<1>6. CASE AccountsNext /\ UNCHANGED rechargeVars
  BY <1>6, RechargeOutsideStep
<1>7. QED BY <1>1, <1>2, <1>3, <1>4, <1>5, <1>6 DEF RechargeNext, RechargeStep

LEMMA RechargeInvariance == RechargeSpec => []RechargeInv
BY RechargeInitInv, RechargeStepInv, PTL DEF RechargeSpec

-----------------------------------------------------------------------------
\* What has been credited is also accounted for: nothing is credited before the
\* order is settled, so an order that is opened anew for another organization
\* takes no credits with it.
CreditsAfterSettling == \A i \in Orders : order[i].status # "SUCCESS" => order[i].credited = 0

AccountedInv == CreditsAfterSettling /\ RechargesAccounted

\* Steps that leave the orders' credits, the wallets' credits and the rows as
\* they were, and turn over only orders that carry no credit, keep the accounts.
LEMMA AccountedQuiet ==
    ASSUME AccountedInv, UNCHANGED lots,
           \A o \in Orgs : journal'[o].credit = journal[o].credit,
           \A i \in Orders : /\ order'[i].credited = order[i].credited
                             /\ order[i].status = "SUCCESS" => order'[i].status = "SUCCESS"
                             /\ order'[i].org = order[i].org \/ order[i].credited = 0
    PROVE  AccountedInv'
<1>1. CreditsAfterSettling'
  BY DEF AccountedInv, CreditsAfterSettling
<1>2. ASSUME NEW o \in Orgs
      PROVE  SumFunctionOnSet(CreditedTo(o), Orders)' = SumFunctionOnSet(CreditedTo(o), Orders)
  <2> DEFINE f == CreditedTo(o)
             g == [i \in Orders |-> IF order'[i].org = o THEN order'[i].credited ELSE 0]
  <2>1. \A i \in Orders : g[i] = f[i]
    BY DEF CreditedTo
  <2>2. SumFunctionOnSet(CreditedTo(o), Orders)' = SumFunctionOnSet(g, Orders)
    BY DEF CreditedTo
  <2> HIDE DEF f, g
  <2>3. SumFunctionOnSet(g, Orders) = SumFunctionOnSet(f, Orders)
    BY <2>1, SumSame, RechargeAssumption
  <2>4. QED BY <2>2, <2>3 DEF f
<1>3. CreditedRows' = CreditedRows
  BY DEF CreditedRows
<1>4. RechargesAccounted'
  BY <1>2, <1>3 DEF AccountedInv, RechargesAccounted
<1>5. QED BY <1>1, <1>4 DEF AccountedInv

\* The commit of a recharge adds the same amount to one order, one wallet and
\* the distributor's rows.
LEMMA AccountedCredit ==
    ASSUME RechargeInv, AccountedInv, NEW c \in Calls, CreditOrder(c)
    PROVE  AccountedInv'
<1> DEFINE i == call[c].order
           o == order[i].org
           n == call[c].credits
           named == call[c].licensed
<1>1. /\ i \in Orders /\ o \in Orgs /\ n \in Nat
      /\ order \in [Orders -> OrderRows] /\ \A j \in Orders : order[j].credited \in Nat
      /\ AccountsTypeOK /\ LedgerBalanced
  BY DEF RechargeInv, RechargeSystemTypeOK, RechargeTypeOK, CallStates, OrderRows
<1>2. /\ order' = [order EXCEPT ![i].status = "SUCCESS", ![i].rows = @ + 1, ![i].credited = @ + n]
      /\ CreditWallet(o, n) /\ AddLot(Distributor, n, named)
  BY DEF CreditOrder
<1> HIDE DEF i, o, n, named
<1>3. \A j \in Orders : /\ order'[j].org = order[j].org
                        /\ order'[j].credited = order[j].credited + (IF j = i THEN n ELSE 0)
                        /\ order'[j].status = IF j = i THEN "SUCCESS" ELSE order[j].status
  BY <1>1, <1>2 DEF OrderRows
<1>4. order[i].org = o
  BY DEF o
<1>5. CreditsAfterSettling'
  BY <1>1, <1>3 DEF AccountedInv, CreditsAfterSettling
<1>6. ASSUME NEW p \in Orgs
      PROVE  journal'[p].credit = SumFunctionOnSet(CreditedTo(p), Orders)'
  <2> DEFINE f == CreditedTo(p)
             g == [j \in Orders |-> IF order'[j].org = p THEN order'[j].credited ELSE 0]
  <2>1. /\ \A j \in Orders : f[j] \in Int /\ g[j] \in Int
        /\ \A j \in Orders \ {i} : g[j] = f[j]
    BY <1>1, <1>3, <1>4 DEF CreditedTo
  <2>0. g[i] - f[i] = IF p = o THEN n ELSE 0
    BY <1>1, <1>3, <1>4 DEF CreditedTo
  <2>2. SumFunctionOnSet(CreditedTo(p), Orders)' = SumFunctionOnSet(g, Orders)
    BY DEF CreditedTo
  <2>3. journal[p].credit = SumFunctionOnSet(f, Orders)
    BY DEF AccountedInv, RechargesAccounted
  <2> HIDE DEF f, g
  <2>7. i \in Orders /\ IsFiniteSet(Orders)
    BY <1>1, RechargeAssumption
  <2>4. /\ SumFunctionOnSet(f, Orders) \in Int
        /\ SumFunctionOnSet(g, Orders) = SumFunctionOnSet(f, Orders) + (g[i] - f[i])
    BY <2>1, <2>7, SumChange
  <2>5. journal'[p].credit = journal[p].credit + (IF p = o THEN n ELSE 0)
    BY <1>1, <1>2, CreditWalletBalanced
  <2>6. QED BY <2>0, <2>2, <2>3, <2>4, <2>5
<1>7. lots'[Distributor].unassigned + lots'[Distributor].assigned
          = SumFunctionOnSet(CreditedRows, Orders)'
  <2> DEFINE f == CreditedRows
             g == [j \in Orders |-> order'[j].credited]
             d == lots[Distributor]
  <2>1. /\ \A j \in Orders : f[j] \in Int /\ g[j] \in Int
        /\ \A j \in Orders \ {i} : g[j] = f[j]
        /\ g[i] - f[i] = n
    BY <1>1, <1>3 DEF CreditedRows
  <2>2. SumFunctionOnSet(CreditedRows, Orders)' = SumFunctionOnSet(g, Orders)
    BY DEF CreditedRows
  <2>3. d.unassigned + d.assigned = SumFunctionOnSet(f, Orders)
    BY DEF AccountedInv, RechargesAccounted
  <2>4. lots \in [Orgs -> Lots] /\ Distributor \in Orgs /\ d.unassigned \in Int /\ d.assigned \in Nat
    BY <1>1, RechargeAssumption DEF AccountsTypeOK, Lots
  <2>5. lots'[Distributor].unassigned + lots'[Distributor].assigned = d.unassigned + d.assigned + n
    BY <1>1, <1>2, <2>4 DEF AddLot, Lots
  <2> HIDE DEF f, g, d
  <2>8. i \in Orders /\ IsFiniteSet(Orders)
    BY <1>1, RechargeAssumption
  <2>6. /\ SumFunctionOnSet(f, Orders) \in Int
        /\ SumFunctionOnSet(g, Orders) = SumFunctionOnSet(f, Orders) + (g[i] - f[i])
    BY <2>1, <2>8, SumChange
  <2>7. QED BY <2>1, <2>2, <2>3, <2>5, <2>6
<1>8. RechargesAccounted'
  BY <1>6, <1>7 DEF RechargesAccounted
<1>9. QED BY <1>5, <1>8 DEF AccountedInv

LEMMA AccountedInit == RechargeSystemInit => AccountedInv
<1> SUFFICES ASSUME RechargeSystemInit PROVE AccountedInv
  OBVIOUS
<1>1. \A i \in Orders : order[i].credited = 0
  BY DEF RechargeSystemInit, RechargeInit
<1>2. ASSUME NEW o \in Orgs PROVE SumFunctionOnSet(CreditedTo(o), Orders) = 0
  <2>1. \A i \in Orders : CreditedTo(o)[i] = 0
    BY <1>1 DEF CreditedTo
  <2>2. QED BY <2>1, SumZero, RechargeAssumption
<1>3. SumFunctionOnSet(CreditedRows, Orders) = 0
  <2>1. \A i \in Orders : CreditedRows[i] = 0
    BY <1>1 DEF CreditedRows
  <2>2. QED BY <2>1, SumZero, RechargeAssumption
<1>4. /\ \A o \in Orgs : journal[o].credit = 0
      /\ lots[Distributor].unassigned = 0 /\ lots[Distributor].assigned = 0
  BY RechargeAssumption DEF RechargeSystemInit, AccountsInit
<1>5. QED BY <1>1, <1>2, <1>3, <1>4 DEF AccountedInv, CreditsAfterSettling, RechargesAccounted

LEMMA AccountedStep ==
    RechargeInv /\ AccountedInv /\ [RechargeNext]_rechargeSystemVars => AccountedInv'
<1> SUFFICES ASSUME RechargeInv, AccountedInv, [RechargeNext]_rechargeSystemVars
             PROVE  AccountedInv'
  OBVIOUS
<1>0. /\ AccountsTypeOK /\ order \in [Orders -> OrderRows]
      /\ \A i \in Orders : order[i].status = "none" => order[i].credited = 0
  BY DEF RechargeInv, RechargeSystemTypeOK, RechargeTypeOK, AccountedInv, CreditsAfterSettling
<1>1. CASE \E i \in Orders, o \in Orgs, p \in Packages : CreateOrder(i, o, p)
  <2>1. PICK i \in Orders, o \in Orgs, p \in Packages : CreateOrder(i, o, p)
    BY <1>1
  <2>2. /\ UNCHANGED <<lots, journal>> /\ order[i].status = "none"
        /\ \/ UNCHANGED order
           \/ order' = [order EXCEPT ![i].status = "PENDING", ![i].org = o, ![i].package = p]
    BY <2>1 DEF CreateOrder
  <2>3. \A j \in Orders : /\ order'[j].credited = order[j].credited
                          /\ order[j].status = "SUCCESS" => order'[j].status = "SUCCESS"
                          /\ order'[j].org = order[j].org \/ order[j].credited = 0
    BY <1>0, <2>2 DEF OrderRows
  <2>4. QED BY <2>2, <2>3, AccountedQuiet
<1>2. CASE \E i \in Orders : Pay(i)
  <2>1. PICK i \in Orders : Pay(i)
    BY <1>2
  <2>2. UNCHANGED <<lots, journal>> /\ order' = [order EXCEPT ![i].paid = TRUE]
    BY <2>1 DEF Pay, accountVars
  <2>3. \A j \in Orders : /\ order'[j].credited = order[j].credited
                          /\ order'[j].status = order[j].status
                          /\ order'[j].org = order[j].org
    BY <1>0, <2>2 DEF OrderRows
  <2>4. QED BY <2>2, <2>3, AccountedQuiet
<1>3. CASE \E c \in Calls : CreditOrder(c)
  BY <1>3, AccountedCredit
<1>4. ASSUME UNCHANGED <<lots, journal, order>> PROVE AccountedInv'
  BY <1>4, AccountedQuiet
<1>5. CASE \/ \E p \in UsagePackages, n \in Offers, b \in BOOLEAN : UpdatePackage(p, n, b)
           \/ \E c \in Calls, i \in Orders : ReadOrder(c, i)
           \/ \E c \in Calls : UpdateStatus(c) \/ LoseCall(c)
           \/ UNCHANGED rechargeSystemVars
  BY <1>4, <1>5 DEF UpdatePackage, ReadOrder, UpdateStatus, LoseCall, accountVars,
                    rechargeSystemVars, rechargeVars
<1>6. CASE AccountsNext /\ UNCHANGED rechargeVars
  BY <1>0, <1>6, AccountsStepQuiet, AccountedQuiet DEF rechargeVars
<1>7. QED BY <1>1, <1>2, <1>3, <1>5, <1>6 DEF RechargeNext, RechargeStep, CallStep

\* Packages may be edited and transactions may die: history rows, wallets and
\* the distributor's rows always add up to the same credits.
THEOREM RechargesAddUp == RechargeSpec => []RechargesAccounted
<1>1. RechargeSpec => []AccountedInv
  BY RechargeInvariance, AccountedInit, AccountedStep, PTL DEF RechargeSpec
<1>2. AccountedInv => RechargesAccounted
  BY DEF AccountedInv
<1>3. QED BY <1>1, <1>2, PTL

-----------------------------------------------------------------------------
\* Every variable has its type.
THEOREM RechargeTypesHold == RechargeSpec => []RechargeSystemTypeOK
BY RechargeInvariance, PTL DEF RechargeInv

\* Recharges keep the counters of a wallet and its CreditTransaction rows in
\* agreement.
THEOREM RechargeLedgerHolds == RechargeSpec => []LedgerBalanced
BY RechargeInvariance, PTL DEF RechargeInv

\* However often client and gateway call, an order is credited at most as often
\* as calls for it ran at once.
THEOREM OvercreditHolds == RechargeSpec => []OvercreditBounded
BY RechargeInvariance, PTL DEF RechargeInv

\* Once an order is SUCCESS no later call joins those that may credit it.
THEOREM SettledHolds == RechargeSpec => SuccessAdmitsNoNewCredit
<1>1. ASSUME RechargeInv, [RechargeNext]_rechargeSystemVars
      PROVE  [\A i \in Orders : order[i].status = "SUCCESS" =>
                /\ order'[i].status = "SUCCESS"
                /\ InFlight(i)' \subseteq InFlight(i)]_rechargeSystemVars
  <2> SUFFICES ASSUME RechargeNext, NEW i \in Orders, order[i].status = "SUCCESS"
               PROVE  order'[i].status = "SUCCESS" /\ InFlight(i)' \subseteq InFlight(i)
    BY <1>1
  <2>0. /\ RechargeSystemTypeOK /\ order \in [Orders -> OrderRows] /\ order[i] \in OrderRows
        /\ call \in [Calls -> CallStates]
    BY <1>1 DEF RechargeInv, RechargeSystemTypeOK, RechargeTypeOK
  <2>1. UNCHANGED call => InFlight(i)' \subseteq InFlight(i)
    BY DEF InFlight
  <2>2. ASSUME NEW j \in Orders, NEW o \in Orgs, NEW p \in Packages, CreateOrder(j, o, p)
        PROVE  order'[i].status = "SUCCESS" /\ UNCHANGED call
    BY <2>0, <2>2 DEF CreateOrder
  <2>3. ASSUME NEW p \in UsagePackages, NEW n \in Offers, NEW b \in BOOLEAN,
               UpdatePackage(p, n, b)
        PROVE  order'[i].status = "SUCCESS" /\ UNCHANGED call
    BY <2>3 DEF UpdatePackage
  <2>4. ASSUME NEW j \in Orders, Pay(j)
        PROVE  order'[i].status = "SUCCESS" /\ UNCHANGED call
    BY <2>0, <2>4 DEF Pay
  <2>5. ASSUME NEW c \in Calls, CallStep(c)
        PROVE  order'[i].status = "SUCCESS" /\ InFlight(i)' \subseteq InFlight(i)
    <3>1. CASE \E j \in Orders : ReadOrder(c, j)
      <4>1. PICK j \in Orders : ReadOrder(c, j)
        BY <3>1
      <4>2. j # i /\ call'[c].order = j /\ UNCHANGED order
        BY <2>0, <4>1 DEF ReadOrder, CallStates
      <4>3. \A d \in Calls \ {c} : call'[d] = call[d]
        BY <2>0, <4>1 DEF ReadOrder
      <4>4. QED BY <4>2, <4>3 DEF InFlight
    <3>2. CASE UpdateStatus(c)
      <4>1. call'[c].order = call[c].order /\ call[c].pc # "idle" /\ UNCHANGED order
        BY <2>0, <3>2 DEF UpdateStatus, CallStates
      <4>2. \A d \in Calls \ {c} : call'[d] = call[d]
        BY <2>0, <3>2 DEF UpdateStatus
      <4>3. QED BY <4>1, <4>2 DEF InFlight
    <3>3. CASE CreditOrder(c)
      <4>1. InFlight(i)' \subseteq InFlight(i)
        BY <2>0, <3>3, RechargeCallEnds DEF CreditOrder
      <4>2. order'[i].status = "SUCCESS"
        BY <2>0, <3>3 DEF CreditOrder, OrderRows
      <4>3. QED BY <4>1, <4>2
    <3>4. CASE LoseCall(c)
      BY <2>0, <3>4, RechargeCallEnds DEF LoseCall
    <3>5. QED BY <2>5, <3>1, <3>2, <3>3, <3>4 DEF CallStep
  <2>6. CASE AccountsNext /\ UNCHANGED rechargeVars
    BY <2>1, <2>6 DEF rechargeVars
  <2>7. QED BY <2>1, <2>2, <2>3, <2>4, <2>5, <2>6 DEF RechargeNext, RechargeStep
<1>2. QED BY <1>1, RechargeInvariance, PTL DEF RechargeSpec, SuccessAdmitsNoNewCredit

-----------------------------------------------------------------------------
\* The refinement, for calls that do not overlap: what such a call has read of
\* its order is still so when it commits.
CallsPending == \A c \in Calls : call[c].pc # "idle" =>
    order[call[c].order].paid /\ order[call[c].order].status = "PENDING"

\* Only an order that has been opened is paid.
PaidOpened == \A i \in Orders : order[i].paid => order[i].status # "none"

PromiseInv == RechargeInv /\ CallsPending /\ PaidOpened

\* The one call there is works for its own order and has read that package.
LEMMA OneInFlight ==
    ASSUME NEW c \in Calls, \A d \in Calls : d = c, NEW i \in Orders
    PROVE  /\ call[c].pc # "idle" /\ call[c].order = i =>
                 InFlight(i) # {} /\ Quoted(i) = call[c].credits
           /\ ~(call[c].pc # "idle" /\ call[c].order = i) =>
                 InFlight(i) = {} /\ Quoted(i) = 0
<1>1. CASE call[c].pc # "idle" /\ call[c].order = i
  <2>1. InFlight(i) = {c}
    BY <1>1 DEF InFlight
  <2>2. (CHOOSE d \in {c} : TRUE) = c
    OBVIOUS
  <2>3. QED BY <1>1, <2>1, <2>2 DEF Quoted
<1>2. CASE ~(call[c].pc # "idle" /\ call[c].order = i)
  <2>1. InFlight(i) = {}
    BY <1>2 DEF InFlight
  <2>2. QED BY <1>2, <2>1 DEF Quoted
<1>3. QED BY <1>1, <1>2

\* The same in the state after a step.
LEMMA OneInFlightNext ==
    ASSUME NEW c \in Calls, \A d \in Calls : d = c, NEW i \in Orders
    PROVE  /\ call'[c].pc # "idle" /\ call'[c].order = i =>
                 InFlight(i)' # {} /\ Quoted(i)' = call'[c].credits
           /\ ~(call'[c].pc # "idle" /\ call'[c].order = i) =>
                 InFlight(i)' = {} /\ Quoted(i)' = 0
<1>1. CASE call'[c].pc # "idle" /\ call'[c].order = i
  <2>1. InFlight(i)' = {c}
    BY <1>1 DEF InFlight
  <2>2. (CHOOSE d \in {c} : TRUE) = c
    OBVIOUS
  <2>3. QED BY <1>1, <2>1, <2>2 DEF Quoted
<1>2. CASE ~(call'[c].pc # "idle" /\ call'[c].order = i)
  <2>1. InFlight(i)' = {}
    BY <1>2 DEF InFlight
  <2>2. QED BY <1>2, <2>1 DEF Quoted
<1>3. QED BY <1>1, <1>2

\* While no call takes a step, what runs for an order and what it has read stay.
LEMMA QuotesKept ==
    ASSUME UNCHANGED call, NEW i \in Orders
    PROVE  InFlight(i)' = InFlight(i) /\ Quoted(i)' = Quoted(i)
BY DEF InFlight, Quoted

\* A step that keeps every order's stage, buyer, package and quote, the packages,
\* and what organizations were credited, is no step of the promise.
LEMMA NoPromiseStep ==
    ASSUME UNCHANGED package,
           \A i \in Orders : /\ Stage(i)' = Stage(i)
                             /\ Quoted(i)' = Quoted(i)
                             /\ order'[i].org = order[i].org
                             /\ order'[i].package = order[i].package,
           \A o \in Orgs : journal'[o].credit = journal[o].credit
    PROVE  UNCHANGED Promise!promiseVars
<1>1. \A p \in Packages : Worth(p)' = Worth(p)
  BY DEF Worth
<1>2. QED BY <1>1 DEF Promise!promiseVars

\* Calls that stay as they are, with orders that only go forward.
LEMMA PromiseReadyKept ==
    ASSUME CallsPending, UNCHANGED call,
           \A c \in Calls : call[c].order \in Orders,
           \A i \in Orders : /\ order[i].paid => order'[i].paid
                             /\ order[i].status = "PENDING" => order'[i].status = "PENDING"
                             /\ order'[i].paid => order'[i].status # "none"
    PROVE  CallsPending' /\ PaidOpened'
BY DEF CallsPending, PaidOpened

\* createOrder opens an order, or changes only a license.
LEMMA OpenStep ==
    ASSUME PromiseInv, NEW i \in Orders, NEW o \in Orgs, NEW p \in Packages, CreateOrder(i, o, p)
    PROVE  CallsPending' /\ PaidOpened' /\ [Promise!Next]_Promise!promiseVars
<1> DEFINE r == [order[i] EXCEPT !.status = "PENDING", !.org = o, !.package = p]
<1>1. /\ order \in [Orders -> OrderRows] /\ order[i].status = "none" /\ ~order[i].paid
      /\ r.status = "PENDING" /\ r.paid = order[i].paid /\ r.org = o /\ r.package = p
      /\ \A c \in Calls : call[c].order \in Orders
  BY DEF PromiseInv, PaidOpened, RechargeInv, RechargeSystemTypeOK, RechargeTypeOK, OrderRows, CallStates, CreateOrder
<1>2. /\ order' = [order EXCEPT ![i] = r] \/ UNCHANGED order
      /\ UNCHANGED <<package, call, journal>>
  BY DEF CreateOrder
<1> HIDE DEF r
<1>3. CallsPending' /\ PaidOpened'
  BY <1>1, <1>2, PromiseReadyKept DEF PromiseInv, PaidOpened
<1>4. \A j \in Orders : InFlight(j)' = InFlight(j) /\ Quoted(j)' = Quoted(j)
  BY <1>2, QuotesKept
<1>5. CASE UNCHANGED order
  <2>1. \A j \in Orders : Stage(j)' = Stage(j)
    BY <1>4, <1>5 DEF Stage
  <2>2. QED BY <1>2, <1>3, <1>4, <1>5, <2>1, NoPromiseStep
<1>6. CASE order' = [order EXCEPT ![i] = r]
  <2>1. \A j \in Orders : order'[j] = IF j = i THEN r ELSE order[j]
    BY <1>1, <1>6
  <2>2. Stage(i) = "new" /\ \A j \in Orders : Stage(j)' = IF j = i THEN "open" ELSE Stage(j)
    <3>1. Stage(i) = "new" /\ Stage(i)' = "open"
      BY <1>1, <2>1 DEF Stage
    <3>2. ASSUME NEW j \in Orders \ {i} PROVE Stage(j)' = Stage(j)
      BY <1>4, <2>1, <3>2 DEF Stage
    <3>3. QED BY <3>1, <3>2
  <2>3. \A q \in Packages : Worth(q)' = Worth(q)
    BY <1>2 DEF Worth
  <2>4. Promise!Open(i, o, p)
    BY <1>1, <1>2, <1>4, <2>1, <2>2, <2>3 DEF Promise!Open
  <2>5. QED BY <1>3, <2>4 DEF Promise!Next
<1>7. QED BY <1>2, <1>5, <1>6

\* Paying pays an open order, or one that is paid already.
LEMMA PaymentStep ==
    ASSUME PromiseInv, NEW i \in Orders, Pay(i)
    PROVE  CallsPending' /\ PaidOpened' /\ [Promise!Next]_Promise!promiseVars
<1> DEFINE r == [order[i] EXCEPT !.paid = TRUE]
<1>1. /\ order \in [Orders -> OrderRows] /\ call \in [Calls -> CallStates]
      /\ order[i].status = "PENDING" /\ order[i].paid \in BOOLEAN
      /\ r.status = order[i].status /\ r.paid /\ r.org = order[i].org /\ r.package = order[i].package
      /\ \A c \in Calls : call[c].order \in Orders
  BY DEF PromiseInv, RechargeInv, RechargeSystemTypeOK, RechargeTypeOK, OrderRows, CallStates, Pay
<1>2. order' = [order EXCEPT ![i] = r] /\ UNCHANGED <<package, call, journal>>
  BY DEF Pay, accountVars
<1> HIDE DEF r
<1>3. \A j \in Orders : order'[j] = IF j = i THEN r ELSE order[j]
  BY <1>1, <1>2
<1>4. CallsPending' /\ PaidOpened'
  BY <1>1, <1>2, <1>3, PromiseReadyKept DEF PromiseInv, PaidOpened
<1>5. \A j \in Orders : InFlight(j)' = InFlight(j) /\ Quoted(j)' = Quoted(j)
  BY <1>2, QuotesKept
<1>6. CASE order[i].paid
  <2>1. \A j \in Orders : Stage(j)' = Stage(j)
    BY <1>1, <1>3, <1>5, <1>6 DEF Stage
  <2>2. UNCHANGED Promise!promiseVars
    BY <1>1, <1>2, <1>3, <1>5, <2>1, NoPromiseStep
  <2>3. QED BY <1>4, <2>2
<1>7. CASE ~order[i].paid
  <2>1. Stage(i) = "open" /\ \A j \in Orders : Stage(j)' = IF j = i THEN "paid" ELSE Stage(j)
    <3>1. InFlight(i) = {}
      BY <1>7 DEF InFlight, PromiseInv, CallsPending
    <3>2. Stage(i) = "open" /\ Stage(i)' = "paid"
      BY <1>1, <1>3, <1>5, <1>7, <3>1 DEF Stage
    <3>3. ASSUME NEW j \in Orders \ {i} PROVE Stage(j)' = Stage(j)
      BY <1>3, <1>5, <3>3 DEF Stage
    <3>4. QED BY <3>2, <3>3
  <2>2. \A q \in Packages : Worth(q)' = Worth(q)
    BY <1>2 DEF Worth
  <2>3. Promise!Pay(i)
    BY <1>1, <1>2, <1>3, <1>5, <2>1, <2>2 DEF Promise!Pay
  <2>4. QED BY <1>4, <2>3 DEF Promise!Next
<1>8. QED BY <1>6, <1>7

\* A call that reads its order puts down what the order's package offers now.
LEMMA QuoteStep ==
    ASSUME PromiseInv, NEW c \in Calls, \A d \in Calls : d = c, NEW i \in Orders, ReadOrder(c, i)
    PROVE  CallsPending' /\ PaidOpened' /\ [Promise!Next]_Promise!promiseVars
<1>1. /\ call \in [Calls -> CallStates] /\ order \in [Orders -> OrderRows]
      /\ UNCHANGED <<order, journal, package>>
      /\ call[c].pc = "idle"
      /\ order[i].paid /\ order[i].status = "PENDING" /\ order[i].package \in Packages
  BY DEF PromiseInv, PaidOpened, RechargeInv, RechargeSystemTypeOK, RechargeTypeOK, OrderRows, ReadOrder, accountVars
<1>2. /\ call'[c].pc = "read" /\ call'[c].order = i
      /\ call'[c].credits = Worth(order[i].package)
  BY <1>1 DEF ReadOrder, CallStates
<1>3. CallsPending' /\ PaidOpened'
  BY <1>1, <1>2 DEF PromiseInv, CallsPending, PaidOpened
<1>4. \A j \in Orders : InFlight(j) = {} /\ Quoted(j) = 0
  BY <1>1, OneInFlight
<1>5. /\ InFlight(i)' # {} /\ Quoted(i)' = Worth(order[i].package)
      /\ \A j \in Orders \ {i} : InFlight(j)' = {} /\ Quoted(j)' = 0
  BY <1>2, OneInFlightNext
<1>6. Stage(i) = "paid" /\ \A j \in Orders : Stage(j)' = IF j = i THEN "quoted" ELSE Stage(j)
  <2>1. Stage(i) = "paid" /\ Stage(i)' = "quoted"
    BY <1>1, <1>4, <1>5 DEF Stage
  <2>2. ASSUME NEW j \in Orders \ {i} PROVE Stage(j)' = Stage(j)
    BY <1>1, <1>4, <1>5, <2>2 DEF Stage
  <2>3. QED BY <2>1, <2>2
<1>7. \A q \in Packages : Worth(q)' = Worth(q)
  BY <1>1 DEF Worth
<1>8. [p \in Packages |-> Worth(p)][[j \in Orders |-> order[j].package][i]] = Worth(order[i].package)
  BY <1>1
<1>9. [j \in Orders |-> Quoted(j)]'
        = [[j \in Orders |-> Quoted(j)] EXCEPT ![i] = Worth(order[i].package)]
  BY <1>4, <1>5
<1>10. [j \in Orders |-> Stage(j)]' = [[j \in Orders |-> Stage(j)] EXCEPT ![i] = "quoted"]
  BY <1>6
<1>11. Promise!Quote(i)
  BY <1>1, <1>6, <1>7, <1>8, <1>9, <1>10 DEF Promise!Quote
<1>12. QED BY <1>3, <1>11 DEF Promise!Next

\* A call that is lost gives its quote up; the order stays paid.
LEMMA GiveUpStep ==
    ASSUME PromiseInv, NEW c \in Calls, \A d \in Calls : d = c, LoseCall(c)
    PROVE  CallsPending' /\ PaidOpened' /\ [Promise!Next]_Promise!promiseVars
<1>1. PICK i : i = call[c].order
  OBVIOUS
<1>2. /\ call \in [Calls -> CallStates] /\ order \in [Orders -> OrderRows] /\ i \in Orders
      /\ UNCHANGED <<order, journal, package>>
      /\ call[c].pc # "idle" /\ order[i].paid /\ order[i].status = "PENDING"
  BY <1>1 DEF PromiseInv, CallsPending, RechargeInv, RechargeSystemTypeOK, RechargeTypeOK, CallStates, LoseCall, accountVars
<1>3. call'[c].pc = "idle"
  <2>1. call'[c] = Idle
    BY <1>2 DEF LoseCall
  <2>2. QED BY <2>1 DEF Idle
<1>4. CallsPending' /\ PaidOpened'
  BY <1>2, <1>3 DEF PromiseInv, CallsPending, PaidOpened
<1>5. InFlight(i) # {} /\ \A j \in Orders \ {i} : InFlight(j) = {} /\ Quoted(j) = 0
  BY <1>1, <1>2, OneInFlight
<1>6. \A j \in Orders : InFlight(j)' = {} /\ Quoted(j)' = 0
  BY <1>3, OneInFlightNext
<1>7. Stage(i) = "quoted" /\ \A j \in Orders : Stage(j)' = IF j = i THEN "paid" ELSE Stage(j)
  <2>1. Stage(i) = "quoted" /\ Stage(i)' = "paid"
    BY <1>2, <1>5, <1>6 DEF Stage
  <2>2. ASSUME NEW j \in Orders \ {i} PROVE Stage(j)' = Stage(j)
    BY <1>2, <1>5, <1>6, <2>2 DEF Stage
  <2>3. QED BY <2>1, <2>2
<1>8. \A q \in Packages : Worth(q)' = Worth(q)
  BY <1>2 DEF Worth
<1>9. [j \in Orders |-> Quoted(j)]' = [[j \in Orders |-> Quoted(j)] EXCEPT ![i] = 0]
  BY <1>5, <1>6
<1>10. [j \in Orders |-> Stage(j)]' = [[j \in Orders |-> Stage(j)] EXCEPT ![i] = "paid"]
  BY <1>7
<1>11. Promise!GiveUp(i)
  BY <1>2, <1>7, <1>8, <1>9, <1>10 DEF Promise!GiveUp
<1>12. QED BY <1>2, <1>4, <1>11 DEF Promise!Next

\* A commit settles the order, which is still paid and pending, with its quote.
LEMMA SettleStep ==
    ASSUME PromiseInv, NEW c \in Calls, \A d \in Calls : d = c, CreditOrder(c),
           NEW i, i = call[c].order, NEW o, o = order[i].org, NEW n, n = call[c].credits
    PROVE  CallsPending' /\ PaidOpened' /\ [Promise!Next]_Promise!promiseVars
<1> DEFINE r == [order[i] EXCEPT !.status = "SUCCESS", !.rows = @ + 1, !.credited = @ + n]
<1>1. /\ RechargeSystemTypeOK /\ order \in [Orders -> OrderRows] /\ call[c].pc # "idle"
      /\ i \in Orders /\ o \in Orgs /\ order[i] \in OrderRows
      /\ order[i].status = "PENDING" /\ order[i].paid
  BY DEF PromiseInv, CallsPending, RechargeInv, RechargeSystemTypeOK, RechargeTypeOK, CallStates, OrderRows, CreditOrder
<1>2. /\ r.status = "SUCCESS" /\ r.paid = order[i].paid /\ r.org = order[i].org
      /\ r.package = order[i].package
  BY <1>1 DEF OrderRows
<1>3. /\ order' = [order EXCEPT ![i] = r] /\ CreditWallet(o, n)
      /\ call' = [call EXCEPT ![c] = Idle] /\ UNCHANGED package
  BY DEF CreditOrder
<1> HIDE DEF r
<1>4. \A j \in Orders : order'[j] = IF j = i THEN r ELSE order[j]
  BY <1>1, <1>3
<1>5. /\ journal \in [Orgs -> Journals]
      /\ journal' = [journal EXCEPT ![o].credit = @ + n]
      /\ \A q \in Orgs : journal'[q].credit =
            IF q = o THEN journal[q].credit + n ELSE journal[q].credit
  BY <1>1, <1>3 DEF CreditWallet, RechargeSystemTypeOK, AccountsTypeOK, Journals
<1>6. call'[c].pc = "idle"
  <2>1. call'[c] = Idle
    BY <1>3 DEF PromiseInv, RechargeInv, RechargeSystemTypeOK, RechargeTypeOK
  <2>2. QED BY <2>1 DEF Idle
<1>7. CallsPending' /\ PaidOpened'
  BY <1>2, <1>4, <1>6 DEF PromiseInv, CallsPending, PaidOpened
<1>8. /\ InFlight(i) # {} /\ Quoted(i) = n
      /\ \A j \in Orders \ {i} : InFlight(j) = {} /\ Quoted(j) = 0
  BY <1>1, OneInFlight
<1>9. \A j \in Orders : InFlight(j)' = {} /\ Quoted(j)' = 0
  BY <1>6, OneInFlightNext
<1>10. Promise!Settle(i)
  <2>1. Stage(i) = "quoted" /\ \A j \in Orders : Stage(j)' = IF j = i THEN "settled" ELSE Stage(j)
    <3>1. Stage(i) = "quoted"
      BY <1>1, <1>8 DEF Stage
    <3>2. Stage(i)' = "settled"
      BY <1>1, <1>2, <1>4 DEF Stage
    <3>3. ASSUME NEW j \in Orders \ {i} PROVE Stage(j)' = Stage(j)
      BY <1>4, <1>8, <1>9, <3>3 DEF Stage
    <3>4. QED BY <3>1, <3>2, <3>3
  <2>2. [j \in Orders |-> Stage(j)]' = [[j \in Orders |-> Stage(j)] EXCEPT ![i] = "settled"]
    BY <1>1, <2>1
  <2>3. /\ [j \in Orders |-> order[j].org]' = [j \in Orders |-> order[j].org]
        /\ [j \in Orders |-> order[j].package]' = [j \in Orders |-> order[j].package]
    BY <1>2, <1>4
  <2>4. [q \in Orgs |-> journal[q].credit]'
           = [[q \in Orgs |-> journal[q].credit] EXCEPT ![o] = @ + n]
    BY <1>1, <1>5
  <2>5. /\ [j \in Orders |-> order[j].org][i] = o
        /\ [j \in Orders |-> Quoted(j)][i] = n
        /\ [j \in Orders |-> Stage(j)][i] = "quoted"
    BY <1>1, <1>8, <2>1
  <2>6. [j \in Orders |-> Quoted(j)]' = [[j \in Orders |-> Quoted(j)] EXCEPT ![i] = 0]
    BY <1>8, <1>9
  <2>7. [p \in Packages |-> Worth(p)]' = [p \in Packages |-> Worth(p)]
    BY <1>3 DEF Worth
  <2>8. QED BY <2>2, <2>3, <2>4, <2>5, <2>6, <2>7 DEF Promise!Settle
<1>11. QED BY <1>1, <1>7, <1>10 DEF Promise!Next

\* The status update of a call is none of the promise.
LEMMA QuietPromise ==
    ASSUME PromiseInv, NEW c \in Calls, \A d \in Calls : d = c, UpdateStatus(c)
    PROVE  CallsPending' /\ PaidOpened' /\ [Promise!Next]_Promise!promiseVars
<1>1. /\ UNCHANGED <<order, journal, package>>
      /\ call[c].pc = "read" /\ call'[c].pc = "crediting"
      /\ call'[c].order = call[c].order /\ call'[c].credits = call[c].credits
  BY DEF UpdateStatus, accountVars, PromiseInv, RechargeInv, RechargeSystemTypeOK, RechargeTypeOK, CallStates
<1>2. CallsPending' /\ PaidOpened'
  BY <1>1 DEF PromiseInv, CallsPending, PaidOpened
<1>3. ASSUME NEW i \in Orders
      PROVE  Quoted(i)' = Quoted(i) /\ (InFlight(i)' = {}) = (InFlight(i) = {})
  BY <1>1, OneInFlight, OneInFlightNext
<1>4. \A i \in Orders : Stage(i)' = Stage(i)
  BY <1>1, <1>3 DEF Stage
<1>5. QED BY <1>1, <1>2, <1>3, <1>4, NoPromiseStep

\* Editing a package changes what it offers; the rest of the backend changes
\* nothing the promise is about.
LEMMA OtherPromise ==
    ASSUME PromiseInv,
           \/ \E p \in UsagePackages, n \in Offers, b \in BOOLEAN : UpdatePackage(p, n, b)
           \/ AccountsNext /\ UNCHANGED rechargeVars
    PROVE  CallsPending' /\ PaidOpened' /\ [Promise!Next]_Promise!promiseVars
<1>1. UNCHANGED <<order, call>>
  BY DEF UpdatePackage, accountVars, rechargeVars
<1>2. CallsPending' /\ PaidOpened'
  BY <1>1 DEF PromiseInv, CallsPending, PaidOpened
<1>3. \A i \in Orders : InFlight(i)' = InFlight(i) /\ Quoted(i)' = Quoted(i)
  BY <1>1, QuotesKept
<1>4. \A i \in Orders : Stage(i)' = Stage(i)
  BY <1>1, <1>3 DEF Stage
<1>5. CASE \E p \in UsagePackages, n \in Offers, b \in BOOLEAN : UpdatePackage(p, n, b)
  <2>1. PICK p \in UsagePackages, n \in Offers, b \in BOOLEAN : UpdatePackage(p, n, b)
    BY <1>5
  <2>2. package \in [Packages -> [active: BOOLEAN, credits: Nat]] /\ p \in Packages
    BY RechargeAssumption DEF PromiseInv, RechargeInv, RechargeSystemTypeOK, RechargeTypeOK
  <2>3. package' = [package EXCEPT ![p] = [active |-> b, credits |-> n]] /\ UNCHANGED journal
    BY <2>1 DEF UpdatePackage, accountVars
  <2>4. \A q \in Packages : Worth(q)' = IF q = p THEN n ELSE Worth(q)
    BY <2>2, <2>3 DEF Worth
  <2>5. [q \in Packages |-> Worth(q)]' = [[q \in Packages |-> Worth(q)] EXCEPT ![p] = n]
    BY <2>2, <2>4
  <2>6. Promise!Edit(p, n)
    BY <1>1, <1>3, <1>4, <2>3, <2>5 DEF Promise!Edit
  <2>7. QED BY <1>2, <2>2, <2>6 DEF Promise!Next
<1>6. CASE AccountsNext /\ UNCHANGED rechargeVars
  <2>1. PICK o \in Orgs :
          \/ UNCHANGED journal
          \/ journal' = [journal EXCEPT ![o].opening = BindCredits]
    BY <1>6 DEF AccountsNext, ActivateLicense, BindDevice, SetLicenseStatus, PlanEnds
  <2>2. \A q \in Orgs : journal'[q].credit = journal[q].credit
    BY <2>1 DEF PromiseInv, RechargeInv, RechargeSystemTypeOK, AccountsTypeOK, Journals
  <2>3. UNCHANGED package
    BY <1>6 DEF rechargeVars
  <2>4. QED BY <1>1, <1>2, <1>3, <1>4, <2>2, <2>3, NoPromiseStep
<1>7. QED BY <1>5, <1>6

\* With calls that do not overlap, repeated and lost as often as may be, recharge
\* implements its promise: an order is credited when it becomes settled, once,
\* and with what its package was worth when the transaction read the order.
THEOREM PromiseKept ==
    ASSUME \A c, d \in Calls : c = d
    PROVE  RechargeSpec => KeepsPromise
<1>1. RechargeSystemInit => PromiseInv /\ Promise!Init
  <2> SUFFICES ASSUME RechargeSystemInit PROVE PromiseInv /\ Promise!Init
    OBVIOUS
  <2>1. RechargeInv
    BY RechargeInitInv
  <2>2. /\ \A i \in Orders : /\ order[i].status = "none" /\ ~order[i].paid
                             /\ order[i].org \in Orgs /\ order[i].package \in Packages
        /\ \A c \in Calls : call[c] = Idle
        /\ \A o \in Orgs : journal[o].credit = 0
        /\ \A p \in Packages : package[p].credits \in Offers
    BY RechargeAssumption DEF RechargeSystemInit, RechargeInit, AccountsInit
  <2>3. Idle.pc = "idle"
    BY DEF Idle
  <2>4. PromiseInv
    BY <2>1, <2>2, <2>3 DEF PromiseInv, CallsPending, PaidOpened
  <2>5. \A i \in Orders : Stage(i) = "new"
    BY <2>2 DEF Stage
  <2>6. \A i \in Orders : Quoted(i) = 0
    BY <2>2, <2>3 DEF Quoted, InFlight
  <2>7. \A p \in Packages : Worth(p) \in Offers \cup {0}
    BY <2>2 DEF Worth
  <2>8. Promise!Init
    BY <2>2, <2>5, <2>6, <2>7 DEF Promise!Init
  <2>9. QED BY <2>4, <2>8
<1>2. PromiseInv /\ [RechargeNext]_rechargeSystemVars => PromiseInv' /\ [Promise!Next]_Promise!promiseVars
  <2> SUFFICES ASSUME PromiseInv, [RechargeNext]_rechargeSystemVars
               PROVE  PromiseInv' /\ [Promise!Next]_Promise!promiseVars
    OBVIOUS
  <2>1. RechargeInv'
    BY RechargeStepInv DEF PromiseInv
  <2>2. CASE UNCHANGED rechargeSystemVars
    <3>1. UNCHANGED <<package, order, call, journal>>
      BY <2>2 DEF rechargeSystemVars, accountVars, rechargeVars
    <3>2. CallsPending' /\ PaidOpened'
      BY <3>1 DEF PromiseInv, CallsPending, PaidOpened
    <3>3. \A i \in Orders : Stage(i)' = Stage(i) /\ Quoted(i)' = Quoted(i)
      BY <3>1, QuotesKept DEF Stage
    <3>4. QED BY <2>1, <3>1, <3>2, <3>3, NoPromiseStep DEF PromiseInv
  <2>3. CASE RechargeNext
    <3>1. \A c \in Calls : \A d \in Calls : d = c
      OBVIOUS
    <3>2. ASSUME NEW c \in Calls, CallStep(c)
          PROVE  CallsPending' /\ PaidOpened' /\ [Promise!Next]_Promise!promiseVars
      BY <3>1, <3>2, QuoteStep, GiveUpStep, SettleStep, QuietPromise DEF CallStep
    <3>3. CallsPending' /\ PaidOpened' /\ [Promise!Next]_Promise!promiseVars
      BY <2>3, <3>2, OpenStep, PaymentStep, OtherPromise DEF RechargeNext, RechargeStep
    <3>4. QED BY <2>1, <3>3 DEF PromiseInv
  <2>4. QED BY <2>2, <2>3
<1>3. QED BY <1>1, <1>2, PTL DEF RechargeSpec, KeepsPromise, Promise!Spec

-----------------------------------------------------------------------------
\* Charging a wallet one credit together with its DEBIT row keeps both typed
\* and in agreement.
LEMMA ChargedBalanced ==
    ASSUME AccountsTypeOK, LedgerBalanced, NEW o \in Orgs, wallet[o].exists,
           wallet' = [wallet EXCEPT ![o] = Charged(@)],
           journal' = [journal EXCEPT ![o].cut = @ + 1]
    PROVE  /\ wallet' \in [Orgs -> Wallets]
           /\ journal' \in [Orgs -> Journals]
           /\ LedgerBalanced'
           /\ \A p \in Orgs :
                 /\ wallet'[p].exists = wallet[p].exists
                 /\ wallet'[p].balance = wallet[p].balance - (IF p = o THEN 1 ELSE 0)
                 /\ wallet'[p].usedCredits = wallet[p].usedCredits + (IF p = o THEN 1 ELSE 0)
                 /\ journal'[p].sent = journal[p].sent
                 /\ journal'[p].received = journal[p].received
                 /\ journal'[p].credit = journal[p].credit
<1>1. /\ wallet[o] \in Wallets /\ journal[o] \in Journals /\ Balanced(wallet[o], journal[o])
      /\ wallet[o].balance \in Int /\ wallet[o].totalCredits \in Nat
      /\ wallet[o].usedCredits \in Nat /\ journal[o].sent \in Nat
  BY DEF AccountsTypeOK, LedgerBalanced, Wallets, Journals
<1>2. /\ wallet' \in [Orgs -> Wallets]
      /\ wallet'[o].exists = wallet[o].exists
      /\ wallet'[o].balance = wallet[o].balance - 1
      /\ wallet'[o].totalCredits = wallet[o].totalCredits
      /\ wallet'[o].usedCredits = wallet[o].usedCredits + 1
      /\ \A p \in Orgs \ {o} : wallet'[p] = wallet[p]
  BY <1>1 DEF AccountsTypeOK, Wallets, Charged
<1>3. /\ journal' \in [Orgs -> Journals]
      /\ journal'[o].cut = journal[o].cut + 1 /\ journal'[o].sent = journal[o].sent
      /\ journal'[o].opening = journal[o].opening /\ journal'[o].credit = journal[o].credit
      /\ journal'[o].received = journal[o].received
      /\ \A p \in Orgs \ {o} : journal'[p] = journal[p]
  <2>1. journal \in [Orgs -> Journals]
    BY DEF AccountsTypeOK
  <2>2. QED BY <1>1, <2>1 DEF Journals
<1>4. Balanced(wallet'[o], journal'[o])
  <2>1. \A b, x, u, n \in Int : b = x - u - n => b - 1 = x - (u + 1) - n
    OBVIOUS
  <2>2. wallet'[o].balance = wallet'[o].totalCredits - wallet'[o].usedCredits - journal'[o].sent
    BY <1>1, <1>2, <1>3, <2>1 DEF Balanced
  <2>3. QED BY <1>1, <1>2, <1>3, <2>2 DEF Balanced
<1>5. LedgerBalanced'
  BY <1>2, <1>3, <1>4 DEF LedgerBalanced
<1>6. ASSUME NEW p \in Orgs
      PROVE  /\ wallet'[p].exists = wallet[p].exists
             /\ wallet'[p].balance = wallet[p].balance - (IF p = o THEN 1 ELSE 0)
             /\ wallet'[p].usedCredits = wallet[p].usedCredits + (IF p = o THEN 1 ELSE 0)
             /\ journal'[p].sent = journal[p].sent
             /\ journal'[p].received = journal[p].received
             /\ journal'[p].credit = journal[p].credit
  <2>1. CASE p = o
    BY <1>2, <1>3, <2>1
  <2>2. CASE p # o
    <3>1. wallet[p].balance \in Int /\ wallet[p].usedCredits \in Nat
      BY DEF AccountsTypeOK, Wallets
    <3>2. QED BY <1>2, <1>3, <2>2, <3>1
  <2>3. QED BY <2>1, <2>2
<1>7. QED BY <1>2, <1>3, <1>5, <1>6

-----------------------------------------------------------------------------
\* Cuts.

\* A call that passed its balance check has found a wallet.
ChargesKnownWallet == \A c \in CutCalls : cutCall[c].running => wallet[cutCall[c].org].exists

\* What cuts keep also among recharges and transfers.
CutsCore ==
    /\ CutsSystemTypeOK
    /\ LedgerBalanced
    /\ CutsChargedExactly
    /\ ChargesKnownWallet

CutsInv == CutsCore /\ OverdraftBounded

\* The calls that are charging an organization are finitely many, and no more
\* than there are calls.
LEMMA ChargingFinite ==
    ASSUME NEW o \in Orgs
    PROVE  /\ IsFiniteSet(Charging(o))
           /\ Cardinality(Charging(o)) \in Nat
           /\ Cardinality(Charging(o)) <= Cardinality(CutCalls)
           /\ Cardinality(CutCalls) \in Nat
<1>1. Charging(o) \subseteq CutCalls /\ IsFiniteSet(CutCalls)
  BY MachineCutsAssumption DEF Charging
<1>2. QED BY <1>1, FS_Subset, FS_CardinalityType

\* What another service writes, as long as it charges nothing and removes no
\* wallet, does not concern cuts.
LEMMA CutsKept ==
    ASSUME CutsCore, AccountsTypeOK', LedgerBalanced', UNCHANGED cutVars,
           \A p \in Orgs : /\ wallet'[p].usedCredits = wallet[p].usedCredits
                           /\ wallet[p].exists => wallet'[p].exists
    PROVE  CutsCore'
<1>1. CutsSystemTypeOK'
  BY DEF CutsCore, CutsSystemTypeOK, CutsTypeOK, cutVars
<1>2. CutsChargedExactly'
  BY DEF CutsCore, CutsChargedExactly, cutVars
<1>3. ChargesKnownWallet'
  BY DEF CutsCore, ChargesKnownWallet, CutsSystemTypeOK, CutsTypeOK, CutCallStates, cutVars
<1>4. QED BY <1>1, <1>2, <1>3 DEF CutsCore

\* A step that touches neither wallets, journals, logs nor running calls keeps
\* everything but the types of what it does touch.
LEMMA QuietCutStep ==
    ASSUME CutsCore, CutsSystemTypeOK', UNCHANGED <<wallet, journal, logs, cutCall>>
    PROVE  CutsCore'
BY UnchangedBalanced DEF CutsCore, CutsChargedExactly, ChargesKnownWallet

-----------------------------------------------------------------------------
\* Nothing is running and nothing is owed at the start.
LEMMA CutsInitInv == CutsSystemInit => CutsInv
<1> SUFFICES ASSUME CutsSystemInit PROVE CutsInv
  OBVIOUS
<1> USE DEF CutsSystemInit
<1>1. AccountsTypeOK /\ LedgerBalanced
  BY AccountsInitBalanced
<1>2. AnyOrg \in Orgs
  BY OrgAccountsAssumption DEF AnyOrg
<1>3. CutsTypeOK
  BY <1>2 DEF CutsInit, CutsTypeOK, TokenStates, CutCallStates, NoToken, NoCut
<1>4. CutsChargedExactly
  BY DEF AccountsInit, CutsInit, CutsChargedExactly, NoWallet
<1>5. OverdraftBounded
  <2>1. SUFFICES ASSUME NEW o \in Orgs
                 PROVE  wallet[o].balance - Cardinality(Charging(o)) >= 1 - Cardinality(CutCalls)
    BY DEF OverdraftBounded
  <2>2. wallet[o].balance = 0
    BY DEF AccountsInit, NoWallet
  <2>3. Charging(o) = {} /\ Cardinality({}) = 0
    BY FS_EmptySet DEF Charging, CutsInit, NoCut
  <2>4. Cardinality(CutCalls) \in Nat /\ Cardinality(CutCalls) # 0
    BY MachineCutsAssumption, FS_CardinalityType, FS_EmptySet
  <2>5. QED BY <2>2, <2>3, <2>4
<1>6. QED BY <1>1, <1>3, <1>4, <1>5 DEF CutsInv, CutsCore, CutsSystemTypeOK, ChargesKnownWallet, CutsInit, NoCut

\* validateCut and the passing of time only touch tokens; LogFree only the
\* count of uncharged logs.
LEMMA TokenStep ==
    ASSUME CutsCore, NEW t \in Tokens,
           \/ \E o \in Orgs, n, b \in BOOLEAN : CheckLicenseAndWallet(t, o, n, b)
           \/ IssueToken(t)
           \/ ExpireToken(t)
           \/ \E p \in BOOLEAN : LogFree(t, p)
    PROVE  CutsCore'
<1>0. /\ AnyOrg \in Orgs /\ token[t] \in TokenStates
      /\ token \in [Tokens -> TokenStates] /\ logs \in [Orgs -> [due: Nat, free: Nat]]
      /\ plan \in [Orgs -> BOOLEAN]
  BY OrgAccountsAssumption DEF AnyOrg, CutsCore, CutsSystemTypeOK, CutsTypeOK, AccountsTypeOK
<1>1. ASSUME UNCHANGED <<accountVars, cutCall, logs>>, token' \in [Tokens -> TokenStates]
      PROVE  CutsCore'
  <2>1. CutsSystemTypeOK'
    BY <1>1 DEF CutsCore, CutsSystemTypeOK, CutsTypeOK, AccountsTypeOK, accountVars
  <2>2. QED BY <1>1, <2>1, QuietCutStep DEF accountVars
<1>2. ASSUME NEW o \in Orgs, NEW n \in BOOLEAN, NEW b \in BOOLEAN, CheckLicenseAndWallet(t, o, n, b)
      PROVE  CutsCore'
  <2>1. token' \in [Tokens -> TokenStates]
    BY <1>0, <1>2 DEF CheckLicenseAndWallet, TokenStates
  <2>2. QED BY <1>1, <1>2, <2>1 DEF CheckLicenseAndWallet
<1>3. CASE IssueToken(t)
  <2>1. token' \in [Tokens -> TokenStates]
    <3>1. CASE token[t].calibration \/ plan[token[t].org] \/ token[t].funded
      <4>1. token' = [token EXCEPT ![t].state = "valid", ![t].unlimited = plan[token[t].org]]
        BY <1>3, <3>1 DEF IssueToken
      <4>2. plan[token[t].org] \in BOOLEAN
        BY <1>0 DEF TokenStates
      <4>3. QED BY <1>0, <4>1, <4>2 DEF TokenStates
    <3>2. CASE ~(token[t].calibration \/ plan[token[t].org] \/ token[t].funded)
      BY <1>0, <1>3, <3>2 DEF IssueToken, NoToken, TokenStates
    <3>3. QED BY <3>1, <3>2
  <2>2. QED BY <1>1, <1>3, <2>1 DEF IssueToken
<1>4. CASE ExpireToken(t)
  <2>1. [NoToken EXCEPT !.state = "expired"] \in TokenStates
    BY <1>0 DEF NoToken, TokenStates
  <2>2. token' \in [Tokens -> TokenStates]
    BY <1>0, <1>4, <2>1 DEF ExpireToken
  <2>3. QED BY <1>1, <1>4, <2>2 DEF ExpireToken
<1>5. ASSUME NEW p \in BOOLEAN, LogFree(t, p)
      PROVE  CutsCore'
  <2> DEFINE o == token[t].org
  <2>1. o \in Orgs /\ logs' = [logs EXCEPT ![o].free = @ + 1] /\ UNCHANGED <<accountVars, token, cutCall>>
    BY <1>0, <1>5 DEF LogFree, TokenStates
  <2>2. /\ logs' \in [Orgs -> [due: Nat, free: Nat]]
        /\ \A q \in Orgs : logs'[q].due = logs[q].due
    BY <1>0, <2>1
  <2>3. CutsSystemTypeOK'
    BY <2>1, <2>2 DEF CutsCore, CutsSystemTypeOK, CutsTypeOK, AccountsTypeOK, accountVars
  <2>4. LedgerBalanced' /\ CutsChargedExactly' /\ ChargesKnownWallet'
    BY <2>1, <2>2, UnchangedBalanced DEF CutsCore, CutsChargedExactly, ChargesKnownWallet, accountVars
  <2>5. QED BY <2>1, <2>3, <2>4 DEF CutsCore
<1>6. QED BY <1>2, <1>3, <1>4, <1>5

\* The balance check: the call joins those that charge; a wallet with a balance
\* exists.
LEMMA ReadBalanceStep ==
    ASSUME CutsCore, NEW c \in CutCalls, NEW t \in Tokens, ReadBalance(c, t)
    PROVE  CutsCore'
<1> DEFINE o == token[t].org
<1>1. /\ o \in Orgs /\ wallet[o].balance > 0 /\ UNCHANGED <<accountVars, token, logs>>
      /\ cutCall \in [CutCalls -> CutCallStates]
      /\ cutCall' = [cutCall EXCEPT ![c] = [running |-> TRUE, org |-> o]]
  BY DEF ReadBalance, CutsCore, CutsSystemTypeOK, CutsTypeOK, TokenStates
<1>2. CutsSystemTypeOK'
  BY <1>1 DEF CutsCore, CutsSystemTypeOK, CutsTypeOK, CutCallStates, AccountsTypeOK, accountVars
<1>3. LedgerBalanced' /\ CutsChargedExactly'
  BY <1>1, UnchangedBalanced DEF CutsCore, CutsChargedExactly, accountVars
<1>4. ChargesKnownWallet'
  <2>1. wallet[o].exists
    BY <1>1 DEF CutsCore, LedgerBalanced, Balanced, NoWallet
  <2>2. QED BY <1>1, <2>1 DEF CutsCore, CutsSystemTypeOK, CutsTypeOK, CutCallStates, ChargesKnownWallet, accountVars
<1>5. QED BY <1>2, <1>3, <1>4 DEF CutsCore

\* What a call that ends leaves behind: one call less for its organization.
LEMMA CutCallEnds ==
    ASSUME CutsSystemTypeOK, NEW c \in CutCalls, cutCall[c].running,
           cutCall' = [cutCall EXCEPT ![c] = NoCut], NEW p \in Orgs
    PROVE  Cardinality(Charging(p)')
               = IF p = cutCall[c].org THEN Cardinality(Charging(p)) - 1
                                       ELSE Cardinality(Charging(p))
<1>1. Charging(p)' = Charging(p) \ {c}
  BY DEF Charging, NoCut, CutsSystemTypeOK, CutsTypeOK
<1>2. c \in Charging(p) <=> p = cutCall[c].org
  BY DEF Charging
<1>3. Cardinality(Charging(p) \ {c}) = IF c \in Charging(p) THEN Cardinality(Charging(p)) - 1
                                                           ELSE Cardinality(Charging(p))
  BY ChargingFinite, FS_RemoveElement
<1>4. QED BY <1>1, <1>2, <1>3

\* The commit moves one credit from what is still to be charged to the balance
\* and from nowhere else, in wallet, journal and logs alike.
LEMMA ChargeCutStep ==
    ASSUME CutsCore, NEW c \in CutCalls, ChargeCut(c)
    PROVE  CutsCore'
<1> DEFINE o == cutCall[c].org
<1>1. /\ o \in Orgs /\ AnyOrg \in Orgs /\ AccountsTypeOK /\ LedgerBalanced /\ wallet[o].exists
      /\ wallet' = [wallet EXCEPT ![o] = Charged(@)]
      /\ journal' = [journal EXCEPT ![o].cut = @ + 1]
      /\ logs' = [logs EXCEPT ![o].due = @ + 1]
      /\ cutCall' = [cutCall EXCEPT ![c] = NoCut]
      /\ UNCHANGED <<lots, license, plan, locked, token>>
  BY OrgAccountsAssumption DEF AnyOrg, ChargeCut, CutsCore, CutsSystemTypeOK, CutsTypeOK,
     CutCallStates, ChargesKnownWallet
<1>2. /\ wallet' \in [Orgs -> Wallets] /\ journal' \in [Orgs -> Journals] /\ LedgerBalanced'
      /\ \A p \in Orgs :
            /\ wallet'[p].exists = wallet[p].exists
            /\ wallet'[p].usedCredits = wallet[p].usedCredits + (IF p = o THEN 1 ELSE 0)
  BY <1>1, ChargedBalanced
<1>3. /\ logs' \in [Orgs -> [due: Nat, free: Nat]]
      /\ \A p \in Orgs : logs'[p].due = logs[p].due + (IF p = o THEN 1 ELSE 0)
  BY <1>1 DEF CutsCore, CutsSystemTypeOK, CutsTypeOK
<1>4. CutsSystemTypeOK'
  BY <1>1, <1>2, <1>3 DEF CutsCore, CutsSystemTypeOK, CutsTypeOK, CutCallStates, NoCut, AccountsTypeOK
<1>5. CutsChargedExactly'
  BY <1>2, <1>3 DEF CutsCore, CutsChargedExactly
<1>6. ChargesKnownWallet'
  BY <1>1, <1>2 DEF CutsCore, CutsSystemTypeOK, CutsTypeOK, CutCallStates, NoCut, ChargesKnownWallet
<1>7. QED BY <1>2, <1>4, <1>5, <1>6 DEF CutsCore

\* A rollback leaves every row as it was.
LEMMA LoseCutStep ==
    ASSUME CutsCore, NEW c \in CutCalls, LoseCut(c)
    PROVE  CutsCore'
<1>1. /\ CutsSystemTypeOK /\ AnyOrg \in Orgs /\ cutCall' = [cutCall EXCEPT ![c] = NoCut]
      /\ UNCHANGED <<accountVars, token, logs>>
  BY OrgAccountsAssumption DEF AnyOrg, LoseCut, CutsCore
<1>2. CutsSystemTypeOK'
  BY <1>1 DEF CutsSystemTypeOK, CutsTypeOK, CutCallStates, NoCut, AccountsTypeOK, accountVars
<1>3. LedgerBalanced' /\ CutsChargedExactly'
  BY <1>1, UnchangedBalanced DEF CutsCore, CutsChargedExactly, accountVars
<1>4. ChargesKnownWallet'
  BY <1>1 DEF CutsCore, ChargesKnownWallet, CutsSystemTypeOK, CutsTypeOK, NoCut, accountVars
<1>5. QED BY <1>2, <1>3, <1>4 DEF CutsCore

\* Every step of a cut keeps what cuts keep.
LEMMA CutsCoreStep ==
    ASSUME CutsCore, CutsStep
    PROVE  CutsCore'
BY TokenStep, ReadBalanceStep, ChargeCutStep, LoseCutStep DEF CutsStep

\* A step of a cut takes nothing from what a wallet has left once all running
\* calls are charged, unless it finds the balance positive and leaves it alone.
LEMMA CutRoom ==
    ASSUME CutsCore, CutsStep, NEW p \in Orgs
    PROVE  /\ Cardinality(Charging(p)') \in Nat
           /\ Cardinality(Charging(p)') <= Cardinality(CutCalls)
           /\ wallet'[p].balance \in Int
           /\ \/ wallet[p].balance >= 1 /\ wallet'[p].balance = wallet[p].balance
              \/ wallet'[p].balance - Cardinality(Charging(p)')
                    >= wallet[p].balance - Cardinality(Charging(p))
<1>1. /\ CutsSystemTypeOK /\ AccountsTypeOK /\ LedgerBalanced
      /\ wallet[p].balance \in Int /\ Cardinality(Charging(p)) \in Nat
      /\ cutCall \in [CutCalls -> CutCallStates]
  BY ChargingFinite DEF CutsCore, CutsSystemTypeOK, CutsTypeOK, AccountsTypeOK, Wallets
<1>2. Cardinality(Charging(p)') \in Nat /\ Cardinality(Charging(p)') <= Cardinality(CutCalls)
  <2>1. Charging(p)' \subseteq CutCalls /\ IsFiniteSet(CutCalls)
    BY MachineCutsAssumption DEF Charging
  <2>2. QED BY <2>1, FS_Subset, FS_CardinalityType
<1>3. wallet'[p].balance \in Int
  BY CutsCoreStep DEF CutsCore, CutsSystemTypeOK, AccountsTypeOK, Wallets
<1>4. CASE UNCHANGED <<wallet, cutCall>>
  <2>1. Charging(p)' = Charging(p)
    BY <1>4 DEF Charging
  <2>2. QED BY <1>1, <1>2, <1>3, <1>4, <2>1
<1>5. CASE \E c \in CutCalls, t \in Tokens : ReadBalance(c, t)
  <2>1. PICK c \in CutCalls, t \in Tokens : ReadBalance(c, t)
    BY <1>5
  <2>2. /\ wallet' = wallet /\ wallet[token[t].org].balance > 0
        /\ cutCall' = [cutCall EXCEPT ![c] = [running |-> TRUE, org |-> token[t].org]]
        /\ ~cutCall[c].running
    BY <2>1 DEF ReadBalance, accountVars
  <2>3. CASE p = token[t].org
    BY <1>1, <1>2, <1>3, <2>2, <2>3
  <2>4. CASE p # token[t].org
    <3>1. Charging(p)' = Charging(p)
      BY <1>1, <2>2, <2>4 DEF Charging, CutCallStates
    <3>2. QED BY <1>1, <1>2, <1>3, <2>2, <3>1
  <2>5. QED BY <2>3, <2>4
<1>6. CASE \E c \in CutCalls : ChargeCut(c) \/ LoseCut(c)
  <2>1. PICK c \in CutCalls : ChargeCut(c) \/ LoseCut(c)
    BY <1>6
  <2>2. cutCall[c].running /\ cutCall' = [cutCall EXCEPT ![c] = NoCut]
    BY <2>1 DEF ChargeCut, LoseCut
  <2>3. Cardinality(Charging(p)') = Cardinality(Charging(p))
                                       - (IF p = cutCall[c].org THEN 1 ELSE 0)
    <3>1. Cardinality(Charging(p)')
             = IF p = cutCall[c].org THEN Cardinality(Charging(p)) - 1
                                     ELSE Cardinality(Charging(p))
      BY <1>1, <2>2, CutCallEnds
    <3>2. QED BY <1>1, <3>1
  <2>4. wallet'[p].balance >= wallet[p].balance - (IF p = cutCall[c].org THEN 1 ELSE 0)
    <3>1. CASE ChargeCut(c)
      <4>1. /\ cutCall[c].org \in Orgs /\ wallet[cutCall[c].org].exists
            /\ wallet' = [wallet EXCEPT ![cutCall[c].org] = Charged(@)]
            /\ journal' = [journal EXCEPT ![cutCall[c].org].cut = @ + 1]
        BY <1>1, <3>1 DEF ChargeCut, CutsCore, ChargesKnownWallet, CutCallStates
      <4>2. wallet'[p].balance = wallet[p].balance - (IF p = cutCall[c].org THEN 1 ELSE 0)
        BY <1>1, <4>1, ChargedBalanced
      <4>3. QED BY <1>1, <4>2
    <3>2. CASE LoseCut(c)
      BY <1>1, <3>2 DEF LoseCut, accountVars
    <3>3. QED BY <2>1, <3>1, <3>2
  <2>5. QED BY <1>1, <1>2, <1>3, <2>3, <2>4
<1>7. QED BY <1>4, <1>5, <1>6 DEF CutsStep, CheckLicenseAndWallet, IssueToken, ExpireToken,
                               LogFree, accountVars

\* On their own, cuts keep the overdraft below the number of simultaneous calls.
LEMMA CutsRoomStep ==
    ASSUME CutsInv, CutsStep
    PROVE  OverdraftBounded'
<1> SUFFICES ASSUME NEW p \in Orgs
             PROVE  wallet'[p].balance - Cardinality(Charging(p)') >= 1 - Cardinality(CutCalls)
  BY DEF OverdraftBounded
<1>1. /\ wallet[p].balance - Cardinality(Charging(p)) >= 1 - Cardinality(CutCalls)
      /\ wallet[p].balance \in Int /\ Cardinality(Charging(p)) \in Nat /\ Cardinality(CutCalls) \in Nat
  BY ChargingFinite DEF CutsInv, CutsCore, OverdraftBounded, CutsSystemTypeOK, AccountsTypeOK, Wallets
<1>2. /\ Cardinality(Charging(p)') \in Nat /\ wallet'[p].balance \in Int
      /\ Cardinality(Charging(p)') <= Cardinality(CutCalls)
      /\ \/ wallet[p].balance >= 1 /\ wallet'[p].balance = wallet[p].balance
         \/ wallet'[p].balance - Cardinality(Charging(p)')
               >= wallet[p].balance - Cardinality(Charging(p))
  BY CutRoom DEF CutsInv
<1>3. QED BY <1>1, <1>2

\* What the rest of the backend and the grants do raises balances at most.
LEMMA CutsOutsideStep ==
    ASSUME CutsInv, UNCHANGED cutVars, AccountsNext \/ \E o \in Orgs : GrantArrives(o)
    PROVE  CutsInv'
<1>1. AccountsTypeOK /\ LedgerBalanced
  BY DEF CutsInv, CutsCore, CutsSystemTypeOK
<1>2. ASSUME NEW o \in Orgs, GrantArrives(o)
      PROVE  /\ AccountsTypeOK'
             /\ LedgerBalanced'
             /\ \A p \in Orgs : /\ wallet'[p].balance >= wallet[p].balance
                                /\ wallet'[p].usedCredits = wallet[p].usedCredits
                                /\ wallet[p].exists => wallet'[p].exists
  <2>1. UNCHANGED <<lots, license, locked>>
    BY <1>2 DEF GrantArrives
  <2>2. CASE CreditWallet(o, 1) /\ UNCHANGED plan
    BY <1>1, <2>1, <2>2, CreditWalletBalanced DEF AccountsTypeOK
  <2>3. CASE plan' = [plan EXCEPT ![o] = TRUE] /\ UNCHANGED <<wallet, journal>>
    BY <1>1, <2>1, <2>3, UnchangedBalanced DEF AccountsTypeOK, Wallets
  <2>4. QED BY <1>2, <2>2, <2>3 DEF GrantArrives
<1>3. /\ AccountsTypeOK'
      /\ LedgerBalanced'
      /\ \A p \in Orgs : /\ wallet'[p].balance >= wallet[p].balance
                         /\ wallet'[p].usedCredits = wallet[p].usedCredits
                         /\ wallet[p].exists => wallet'[p].exists
  BY <1>1, <1>2, AccountsStepBalanced
<1>4. CutsCore'
  BY <1>3, CutsKept DEF CutsInv
<1>5. ASSUME NEW p \in Orgs
      PROVE  wallet'[p].balance - Cardinality(Charging(p)') >= 1 - Cardinality(CutCalls)
  <2>1. Charging(p)' = Charging(p)
    BY DEF Charging, cutVars
  <2>2. wallet[p].balance \in Int /\ wallet'[p].balance \in Int
    BY <1>1, <1>3 DEF AccountsTypeOK, Wallets
  <2>3. wallet[p].balance - Cardinality(Charging(p)) >= 1 - Cardinality(CutCalls)
    BY DEF CutsInv, OverdraftBounded
  <2>4. QED BY <1>3, <2>1, <2>2, <2>3, ChargingFinite
<1>6. QED BY <1>4, <1>5 DEF CutsInv, OverdraftBounded

\* Every step keeps the invariant.
LEMMA CutsStepInv == CutsInv /\ [CutsNext]_cutsSystemVars => CutsInv'
<1> SUFFICES ASSUME CutsInv, [CutsNext]_cutsSystemVars
             PROVE  CutsInv'
  OBVIOUS
<1>1. CASE CutsStep
  BY <1>1, CutsCoreStep, CutsRoomStep DEF CutsInv
<1>2. CASE (AccountsNext \/ \E o \in Orgs : GrantArrives(o)) /\ UNCHANGED cutVars
  BY <1>2, CutsOutsideStep
<1>3. CASE UNCHANGED cutsSystemVars
  <2>1. CutsSystemTypeOK'
    BY <1>3 DEF CutsInv, CutsCore, CutsSystemTypeOK, AccountsTypeOK, CutsTypeOK, cutsSystemVars,
       accountVars, cutVars
  <2>2. OverdraftBounded'
    BY <1>3 DEF CutsInv, OverdraftBounded, Charging, cutsSystemVars, accountVars, cutVars
  <2>3. QED BY <1>3, <2>1, <2>2, QuietCutStep DEF CutsInv, cutsSystemVars, accountVars, cutVars
<1>4. QED BY <1>1, <1>2, <1>3 DEF CutsNext

-----------------------------------------------------------------------------
\* The invariant holds in every reachable state.
THEOREM CutsInvariance == CutsSpec => []CutsInv
BY CutsInitInv, CutsStepInv, PTL DEF CutsSpec

\* Wallets, license states, tokens and running calls keep their types.
THEOREM CutsTypesHold == CutsSpec => []CutsSystemTypeOK
<1>1. CutsInv => CutsSystemTypeOK
  BY DEF CutsInv, CutsCore
<1>2. QED BY <1>1, CutsInvariance, PTL

\* logCut never breaks the agreement of wallet counters and CreditTransaction
\* rows, however many calls run at once and wherever they die.
THEOREM CutsLedgerHolds == CutsSpec => []LedgerBalanced
<1>1. CutsInv => LedgerBalanced
  BY DEF CutsInv, CutsCore
<1>2. QED BY <1>1, CutsInvariance, PTL

\* Every cut that is due a credit is logged and charged together or not at all.
THEOREM ChargedExactly == CutsSpec => []CutsChargedExactly
<1>1. CutsInv => CutsChargedExactly
  BY DEF CutsInv, CutsCore
<1>2. QED BY <1>1, CutsInvariance, PTL

\* The overdraft logCut's check-then-decrement allows is less than the number
\* of simultaneous calls: one call on its own never overdraws.
THEOREM OverdraftHolds == CutsSpec => []OverdraftBounded
<1>1. CutsInv => OverdraftBounded
  BY DEF CutsInv, CutsCore
<1>2. QED BY <1>1, CutsInvariance, PTL

-----------------------------------------------------------------------------
\* Grants and transfers.

\* A dispatch that passed its balance check has found the sender's wallet.
SenderHasWallet ==
    \A c \in CreditCalls : creditCall[c].pc # "idle" => wallet[creditCall[c].from].exists

\* A dispatch takes no more from the sender's rows than it transfers.
DeductsAtMost ==
    \A c \in CreditCalls : creditCall[c].pc = "moving" => creditCall[c].deduct <= creditCall[c].amount

CreditsInv ==
    /\ CreditsSystemTypeOK
    /\ LedgerBalanced
    /\ RowsCovered
    /\ SenderHasWallet
    /\ DeductsAtMost
    /\ TransfersConserved

\* Where nothing is sent or received, transfers stay conserved.
LEMMA TransfersKept ==
    ASSUME TransfersConserved,
           \A p \in Orgs : /\ journal'[p].sent = journal[p].sent
                           /\ journal'[p].received = journal[p].received
    PROVE  TransfersConserved'
<1>1. /\ [p \in Orgs |-> journal'[p].sent] = [p \in Orgs |-> journal[p].sent]
      /\ [p \in Orgs |-> journal'[p].received] = [p \in Orgs |-> journal[p].received]
  OBVIOUS
<1>2. QED BY <1>1 DEF TransfersConserved

\* An idle call is a record of the right type.
LEMMA NoCreditTyped == NoCredit \in CreditCallStates /\ NoCredit.pc = "idle"
BY OrgAccountsAssumption DEF NoCredit, AnOrg, CreditCallStates

\* No rows, no locks and no calls at the start.
LEMMA CreditsInitInv == CreditsSystemInit => CreditsInv
<1> SUFFICES ASSUME CreditsSystemInit PROVE CreditsInv
  OBVIOUS
<1> USE DEF CreditsSystemInit
<1>1. AccountsTypeOK /\ LedgerBalanced
  BY AccountsInitBalanced
<1>2. CreditsTypeOK
  BY NoCreditTyped DEF CreditsInit, CreditsTypeOK
<1>3. \A c \in CreditCalls : creditCall[c].pc = "idle"
  BY NoCreditTyped DEF CreditsInit
<1>4. RowsNonNegative
  <2>1. \A o \in Orgs : lots[o].unassigned \in Nat
    BY DEF AccountsInit
  <2>2. \A n \in Nat : n >= 0
    OBVIOUS
  <2>3. QED BY <2>1, <2>2 DEF RowsNonNegative
<1>5. LockHeldByMover
  BY <1>3 DEF AccountsInit, LockHeldByMover
<1>6. DeductionCovered /\ SenderHasWallet
  BY <1>3 DEF DeductionCovered, SenderHasWallet
<1>7. DeductsAtMost
  BY <1>3 DEF DeductsAtMost
<1>8. TransfersConserved
  <2> DEFINE f == [o \in Orgs |-> journal[o].sent]
             g == [o \in Orgs |-> journal[o].received]
  <2>1. \A o \in Orgs : f[o] = 0 /\ g[o] = 0
    BY DEF AccountsInit
  <2>2. SumFunctionOnSet(f, Orgs) = 0 /\ SumFunctionOnSet(g, Orgs) = 0
    <3> HIDE DEF f, g
    <3>1. QED BY <2>1, SumZero, OrgAccountsAssumption
  <2>3. QED BY <2>2 DEF TransfersConserved
<1>9. QED BY <1>1, <1>2, <1>4, <1>5, <1>6, <1>7, <1>8 DEF CreditsInv, CreditsSystemTypeOK, RowsCovered

\* Rows that only grow leave every deduction covered.
LEMMA RowsGrow ==
    ASSUME CreditsSystemTypeOK, RowsCovered, UNCHANGED <<creditCall, locked>>, lots' \in [Orgs -> Lots],
           \A p \in Orgs : lots'[p].unassigned >= lots[p].unassigned
    PROVE  RowsCovered'
<1>1. \A p \in Orgs : lots[p].unassigned \in Int /\ lots'[p].unassigned \in Int
  BY DEF CreditsSystemTypeOK, AccountsTypeOK, Lots
<1>2. RowsNonNegative'
  BY <1>1 DEF RowsCovered, RowsNonNegative
<1>3. LockHeldByMover'
  BY DEF RowsCovered, LockHeldByMover
<1>4. DeductionCovered'
  BY <1>1 DEF RowsCovered, DeductionCovered, CreditsSystemTypeOK, CreditsTypeOK, CreditCallStates
<1>5. QED BY <1>2, <1>3, <1>4 DEF RowsCovered

\* What another service writes, as long as it adds rows at most, removes no
\* wallet and sends nothing, does not concern transfers.
LEMMA CreditsKept ==
    ASSUME CreditsInv, AccountsTypeOK', LedgerBalanced', UNCHANGED <<creditCall, locked>>,
           \A p \in Orgs : /\ lots'[p].unassigned >= lots[p].unassigned
                           /\ wallet[p].exists => wallet'[p].exists
                           /\ journal'[p].sent = journal[p].sent
                           /\ journal'[p].received = journal[p].received
    PROVE  CreditsInv'
<1>1. CreditsSystemTypeOK'
  BY DEF CreditsInv, CreditsSystemTypeOK, CreditsTypeOK
<1>2. RowsCovered'
  BY RowsGrow DEF CreditsInv, AccountsTypeOK
<1>3. SenderHasWallet' /\ DeductsAtMost'
  BY DEF CreditsInv, SenderHasWallet, DeductsAtMost, CreditsSystemTypeOK, CreditsTypeOK, CreditCallStates
<1>4. TransfersConserved'
  BY TransfersKept DEF CreditsInv
<1>5. QED BY <1>1, <1>2, <1>3, <1>4 DEF CreditsInv

-----------------------------------------------------------------------------
\* A new CutCredit row lowers no count of rows and adds its credits to one owner.
LEMMA LotAdded ==
    ASSUME AccountsTypeOK, NEW o \in Orgs, NEW n \in Nat, NEW b \in BOOLEAN, AddLot(o, n, b)
    PROVE  /\ lots' \in [Orgs -> Lots]
           /\ \A p \in Orgs :
                 /\ lots'[p].unassigned >= lots[p].unassigned
                 /\ lots'[p].unassigned + lots'[p].assigned
                       = lots[p].unassigned + lots[p].assigned + (IF p = o THEN n ELSE 0)
<1>1. \A p \in Orgs : lots[p] \in Lots /\ lots[p].unassigned \in Int /\ lots[p].assigned \in Nat
  BY DEF AccountsTypeOK, Lots
<1>2. CASE b
  BY <1>1, <1>2 DEF AddLot, AccountsTypeOK, Lots
<1>3. CASE ~b
  BY <1>1, <1>3 DEF AddLot, AccountsTypeOK, Lots
<1>4. QED BY <1>2, <1>3

\* A grant adds credits and rows and touches no call.
LEMMA IssueStep ==
    ASSUME CreditsInv, NEW o \in Orgs, NEW n \in Nat, NEW u \in BOOLEAN, NEW f \in BOOLEAN,
           NEW b \in BOOLEAN, IssueCutCredits(o, n, u, f, b)
    PROVE  CreditsInv'
<1>1. /\ AccountsTypeOK /\ LedgerBalanced /\ CreditWallet(o, n) /\ AddLot(o, n, b)
      /\ plan' = [plan EXCEPT ![o] = @ \/ ~u] /\ UNCHANGED <<license, locked, creditCall>>
  BY DEF IssueCutCredits, CreditsInv, CreditsSystemTypeOK
<1>2. /\ wallet' \in [Orgs -> Wallets] /\ journal' \in [Orgs -> Journals] /\ LedgerBalanced'
      /\ \A p \in Orgs : /\ wallet[p].exists => wallet'[p].exists
                         /\ journal'[p].sent = journal[p].sent
                         /\ journal'[p].received = journal[p].received
  BY <1>1, CreditWalletBalanced
<1>3. /\ lots' \in [Orgs -> Lots]
      /\ \A p \in Orgs : lots'[p].unassigned >= lots[p].unassigned
  BY <1>1, LotAdded
<1>4. plan' \in [Orgs -> BOOLEAN]
  BY <1>1 DEF AccountsTypeOK
<1>5. AccountsTypeOK'
  BY <1>1, <1>2, <1>3, <1>4 DEF AccountsTypeOK
<1>6. QED BY <1>1, <1>2, <1>3, <1>5, CreditsKept

\* The checks of a dispatch write nothing.
LEMMA CheckStep ==
    ASSUME CreditsInv, NEW c \in CreditCalls,
           \/ \E from, to \in Orgs, n \in Amounts : CheckBalance(c, from, to, n)
           \/ CheckUnassigned(c)
    PROVE  CreditsInv'
<1> DEFINE QuietCheck ==
      /\ UNCHANGED accountVars /\ creditCall[c].pc # "moving" /\ creditCall'[c].pc # "moving"
      /\ creditCall' \in [CreditCalls -> CreditCallStates]
      /\ creditCall'[c].pc # "idle" => wallet[creditCall'[c].from].exists
      /\ \A d \in CreditCalls \ {c} : creditCall'[d] = creditCall[d]
<1>1. ASSUME NEW from \in Orgs, NEW to \in Orgs, NEW n \in Amounts, CheckBalance(c, from, to, n)
      PROVE  QuietCheck
  <2> DEFINE r == [NoCredit EXCEPT !.pc = "funded", !.from = from, !.to = to, !.amount = n]
  <2>1. r \in CreditCallStates /\ r.pc = "funded" /\ r.from = from
    BY CutCreditsAssumption, OrgAccountsAssumption DEF NoCredit, AnOrg, CreditCallStates
  <2>2. /\ UNCHANGED accountVars /\ creditCall[c].pc = "idle" /\ wallet[from].exists
        /\ creditCall' = [creditCall EXCEPT ![c] = r]
    BY <1>1 DEF CheckBalance
  <2>3. QED BY <2>1, <2>2 DEF CreditsInv, CreditsSystemTypeOK, CreditsTypeOK
<1>2. ASSUME CheckUnassigned(c)
      PROVE  QuietCheck
  <2> DEFINE r == creditCall[c]
  <2>1. r \in CreditCallStates /\ wallet[r.from].exists /\ r.pc = "funded"
    BY <1>2 DEF CheckUnassigned, CreditsInv, CreditsSystemTypeOK, CreditsTypeOK, SenderHasWallet
  <2>2. /\ [r EXCEPT !.pc = "covered"] \in CreditCallStates
        /\ [r EXCEPT !.pc = "covered"].from = r.from
        /\ [r EXCEPT !.pc = "covered"].pc = "covered"
    BY <2>1 DEF CreditCallStates
  <2>3. \/ creditCall' = [creditCall EXCEPT ![c] = [r EXCEPT !.pc = "covered"]]
        \/ creditCall' = [creditCall EXCEPT ![c] = NoCredit]
    BY <1>2 DEF CheckUnassigned
  <2>4. UNCHANGED accountVars
    BY <1>2 DEF CheckUnassigned
  <2>5. creditCall \in [CreditCalls -> CreditCallStates]
    BY DEF CreditsInv, CreditsSystemTypeOK, CreditsTypeOK
  <2>6. CASE creditCall' = [creditCall EXCEPT ![c] = [r EXCEPT !.pc = "covered"]]
    BY <2>1, <2>2, <2>4, <2>5, <2>6
  <2>7. CASE creditCall' = [creditCall EXCEPT ![c] = NoCredit]
    BY <2>1, <2>4, <2>5, <2>7, NoCreditTyped
  <2>8. QED BY <2>3, <2>6, <2>7
<1>3. QuietCheck
  <2> HIDE DEF QuietCheck
  <2>1. QED BY <1>1, <1>2
<1>4. CreditsSystemTypeOK'
  BY <1>3 DEF CreditsInv, CreditsSystemTypeOK, AccountsTypeOK, CreditsTypeOK, accountVars
<1>5. LedgerBalanced'
  BY <1>3, UnchangedBalanced DEF CreditsInv, accountVars
<1>6. \A d \in CreditCalls : \/ creditCall'[d].pc # "moving" /\ creditCall[d].pc # "moving"
                             \/ creditCall'[d] = creditCall[d]
  BY <1>3
<1>7. RowsCovered'
  <2>1. LockHeldByMover'
    BY <1>3, <1>6 DEF CreditsInv, RowsCovered, LockHeldByMover, accountVars
  <2>2. RowsNonNegative' /\ DeductionCovered'
    BY <1>3, <1>6 DEF CreditsInv, RowsCovered, RowsNonNegative, DeductionCovered, accountVars
  <2>3. QED BY <2>1, <2>2 DEF RowsCovered
<1>8. SenderHasWallet'
  BY <1>3 DEF CreditsInv, SenderHasWallet, accountVars
<1>9. DeductsAtMost' /\ TransfersConserved'
  BY <1>3, <1>6, TransfersKept DEF CreditsInv, DeductsAtMost, accountVars
<1>10. QED BY <1>4, <1>5, <1>7, <1>8, <1>9 DEF CreditsInv

\* Taking the wallet: nobody else holds this sender's lock, so the deduction,
\* cut to what the rows have, stays covered until this call ends.
LEMMA TakeWalletStep ==
    ASSUME CreditsInv, NEW c \in CreditCalls, TakeWallet(c)
    PROVE  CreditsInv'
<1> DEFINE r == creditCall[c]
           d == Lower(lots[r.from].unassigned, r.amount)
           q == [r EXCEPT !.pc = "moving", !.deduct = d]
<1>1. /\ r \in CreditCallStates /\ wallet[r.from].exists /\ r.pc = "covered"
      /\ r.from \in Orgs /\ r.amount \in Nat
      /\ r.from \notin locked /\ locked' = locked \cup {r.from}
      /\ creditCall' = [creditCall EXCEPT ![c] = q]
      /\ UNCHANGED <<wallet, journal, lots, license, plan>>
  BY DEF TakeWallet, CreditsInv, CreditsSystemTypeOK, CreditsTypeOK, SenderHasWallet, CreditCallStates
<1>2. lots[r.from].unassigned \in Nat
  BY <1>1 DEF CreditsInv, CreditsSystemTypeOK, AccountsTypeOK, Lots, RowsCovered, RowsNonNegative
<1>3. d \in Nat /\ d <= lots[r.from].unassigned /\ d <= r.amount
  BY <1>1, <1>2 DEF Lower
<1>4. /\ q \in CreditCallStates /\ q.pc = "moving" /\ q.from = r.from /\ q.deduct = d
      /\ q.amount = r.amount
  BY <1>1, <1>3 DEF CreditCallStates
<1>5. /\ creditCall'[c] = q /\ creditCall' \in [CreditCalls -> CreditCallStates]
      /\ \A e \in CreditCalls \ {c} : creditCall'[e] = creditCall[e]
  BY <1>1, <1>4 DEF CreditsInv, CreditsSystemTypeOK, CreditsTypeOK
<1>6. CreditsSystemTypeOK'
  BY <1>1, <1>5 DEF CreditsInv, CreditsSystemTypeOK, AccountsTypeOK, CreditsTypeOK
<1>7. LedgerBalanced'
  BY <1>1, UnchangedBalanced DEF CreditsInv
<1>8. LockHeldByMover'
  <2>1. \A e \in CreditCalls : creditCall[e].pc = "moving" => creditCall[e].from # r.from
    BY <1>1 DEF CreditsInv, RowsCovered, LockHeldByMover
  <2>2. \A e, g \in CreditCalls :
            creditCall'[e].pc = "moving" /\ creditCall'[g].pc = "moving"
            /\ creditCall'[e].from = creditCall'[g].from => e = g
    <3>1. \A e, g \in CreditCalls :
              creditCall[e].pc = "moving" /\ creditCall[g].pc = "moving"
              /\ creditCall[e].from = creditCall[g].from => e = g
      BY DEF CreditsInv, RowsCovered, LockHeldByMover
    <3>2. creditCall'[c].from = r.from
      BY <1>4, <1>5
    <3>3. QED BY <1>5, <2>1, <3>1, <3>2
  <2>3. locked = {creditCall[e].from : e \in {g \in CreditCalls : creditCall[g].pc = "moving"}}
    BY DEF CreditsInv, RowsCovered, LockHeldByMover
  <2>4. locked' = {creditCall'[e].from : e \in {g \in CreditCalls : creditCall'[g].pc = "moving"}}
    BY <1>1, <1>4, <1>5, <2>3
  <2>5. QED BY <2>2, <2>4 DEF LockHeldByMover
<1>9. RowsNonNegative' /\ DeductionCovered'
  BY <1>1, <1>3, <1>4, <1>5 DEF CreditsInv, RowsCovered, RowsNonNegative, DeductionCovered
<1>10. SenderHasWallet'
  BY <1>1, <1>4, <1>5 DEF CreditsInv, SenderHasWallet
<1>11. DeductsAtMost' /\ TransfersConserved'
  BY <1>1, <1>3, <1>4, <1>5, TransfersKept DEF CreditsInv, DeductsAtMost
<1>12. QED BY <1>6, <1>7, <1>8, <1>9, <1>10, <1>11 DEF CreditsInv, RowsCovered

\* A moving call that ends releases its lock, and only its own.
LEMMA MoverEnds ==
    ASSUME CreditsSystemTypeOK, LockHeldByMover, NEW c \in CreditCalls,
           creditCall' = [creditCall EXCEPT ![c] = NoCredit],
           locked' = IF creditCall[c].pc = "moving" THEN locked \ {creditCall[c].from} ELSE locked
    PROVE  LockHeldByMover'
<1>1. /\ creditCall'[c].pc = "idle"
      /\ \A e \in CreditCalls \ {c} : creditCall'[e] = creditCall[e]
  BY NoCreditTyped DEF CreditsSystemTypeOK, CreditsTypeOK
<1>2. \A e, g \in CreditCalls :
          creditCall'[e].pc = "moving" /\ creditCall'[g].pc = "moving"
          /\ creditCall'[e].from = creditCall'[g].from => e = g
  BY <1>1 DEF LockHeldByMover
<1>3. \A o : o \in locked <=> \E e \in CreditCalls : creditCall[e].pc = "moving" /\ creditCall[e].from = o
  BY DEF LockHeldByMover
<1>4. \A e \in CreditCalls \ {c} :
          creditCall[e].pc = "moving" /\ creditCall[c].pc = "moving"
          => creditCall[e].from # creditCall[c].from
  BY DEF LockHeldByMover
<1>5. \A o : o \in locked' <=> \E e \in CreditCalls \ {c} : creditCall[e].pc = "moving" /\ creditCall[e].from = o
  <2>1. CASE creditCall[c].pc = "moving"
    BY <1>3, <1>4, <2>1
  <2>2. CASE creditCall[c].pc # "moving"
    BY <1>3, <2>2
  <2>3. QED BY <2>1, <2>2
<1>6. locked' = {creditCall'[e].from : e \in {g \in CreditCalls : creditCall'[g].pc = "moving"}}
  BY <1>1, <1>5
<1>7. QED BY <1>2, <1>6 DEF LockHeldByMover

\* What the commit of a dispatch does to the journal of each organization.
LEMMA CommitJournal ==
    ASSUME AccountsTypeOK, NEW c \in CreditCalls, creditCall[c] \in CreditCallStates,
           CommitDispatch(c), NEW p \in Orgs
    PROVE  /\ journal'[p].sent = journal[p].sent
                 + (IF p = creditCall[c].from THEN creditCall[c].amount ELSE 0)
           /\ journal'[p].received = journal[p].received
                 + (IF p = creditCall[c].to THEN creditCall[c].amount ELSE 0)
           /\ journal'[p].credit = journal[p].credit
<1> DEFINE from == creditCall[c].from
           to == creditCall[c].to
           n == creditCall[c].amount
           j == [journal EXCEPT ![from].sent = @ + n]
<1>1. /\ from \in Orgs /\ to \in Orgs /\ n \in Nat /\ journal \in [Orgs -> Journals]
      /\ journal[p].sent \in Nat /\ journal[p].received \in Nat
  BY DEF CreditCallStates, AccountsTypeOK, Journals
<1>2. /\ j[p].sent = journal[p].sent + (IF p = from THEN n ELSE 0)
      /\ j[p].received = journal[p].received /\ j[p].credit = journal[p].credit
      /\ j \in [Orgs -> Journals]
  BY <1>1 DEF Journals
<1> HIDE DEF j
<1>3. journal' = [j EXCEPT ![to].received = @ + n]
  BY DEF CommitDispatch, j
<1>4. /\ journal'[p].sent = j[p].sent /\ journal'[p].credit = j[p].credit
      /\ journal'[p].received = j[p].received + (IF p = to THEN n ELSE 0)
  BY <1>1, <1>2, <1>3 DEF Journals
<1>5. QED BY <1>2, <1>4

\* The commit debits the sender what it credits the receiver.
LEMMA CommitConserves ==
    ASSUME CreditsInv, NEW c \in CreditCalls, CommitDispatch(c)
    PROVE  TransfersConserved'
<1> DEFINE from == creditCall[c].from
           to == creditCall[c].to
           n == creditCall[c].amount
           s == [p \in Orgs |-> journal[p].sent]
           t == [p \in Orgs |-> journal'[p].sent]
           f == [p \in Orgs |-> journal[p].received]
           g == [p \in Orgs |-> journal'[p].received]
<1>1. /\ AccountsTypeOK /\ creditCall[c] \in CreditCallStates
      /\ from \in Orgs /\ to \in Orgs /\ n \in Nat
      /\ \A p \in Orgs : journal[p].sent \in Nat /\ journal[p].received \in Nat
  BY DEF CreditsInv, CreditsSystemTypeOK, CreditsTypeOK, CreditCallStates, AccountsTypeOK, Journals
<1>2. \A p \in Orgs : /\ journal'[p].sent = journal[p].sent + (IF p = from THEN n ELSE 0)
                      /\ journal'[p].received = journal[p].received + (IF p = to THEN n ELSE 0)
  BY <1>1, CommitJournal
<1> HIDE DEF from, to, n
<1>3. /\ \A p \in Orgs : s[p] \in Int /\ t[p] \in Int
      /\ \A p \in Orgs \ {from} : t[p] = s[p]
  BY <1>1, <1>2
<1>4. /\ \A p \in Orgs : f[p] \in Int /\ g[p] \in Int
      /\ \A p \in Orgs \ {to} : g[p] = f[p]
  BY <1>1, <1>2
<1>5. t[from] - s[from] = n /\ g[to] - f[to] = n
  BY <1>1, <1>2
<1>6. SumFunctionOnSet(s, Orgs) = SumFunctionOnSet(f, Orgs)
  BY DEF CreditsInv, TransfersConserved
<1> HIDE DEF s, t, f, g
<1>7. SumFunctionOnSet(t, Orgs) = SumFunctionOnSet(s, Orgs) + (t[from] - s[from])
  BY <1>1, <1>3, SumChange, OrgAccountsAssumption
<1>8. SumFunctionOnSet(g, Orgs) = SumFunctionOnSet(f, Orgs) + (g[to] - f[to])
  <2>1. to \in Orgs /\ IsFiniteSet(Orgs)
    BY <1>1, OrgAccountsAssumption
  <2>2. QED BY <1>4, <2>1, SumChange
<1>9. SumFunctionOnSet(t, Orgs) = SumFunctionOnSet(g, Orgs)
  BY <1>5, <1>6, <1>7, <1>8
<1>10. QED BY <1>9 DEF TransfersConserved, t, g

\* The commit takes the deduction from the sender's rows, which no other
\* moving call deducts from, and moves the amount between the two wallets.
LEMMA CommitDispatchStep ==
    ASSUME CreditsInv, NEW c \in CreditCalls, CommitDispatch(c)
    PROVE  CreditsInv'
<1> DEFINE r == creditCall[c]
           w == Debit(r.from, r.amount)
           x == Deduct(r.from, r.deduct)
           j == [journal EXCEPT ![r.from].sent = @ + r.amount]
<1>1. /\ r \in CreditCallStates /\ r.pc = "moving" /\ wallet[r.from].exists
      /\ r.from \in Orgs /\ r.to \in Orgs /\ r.amount \in Nat /\ r.deduct \in Nat
      /\ r.deduct <= lots[r.from].unassigned
      /\ creditCall' = [creditCall EXCEPT ![c] = NoCredit]
      /\ locked' = locked \ {r.from}
      /\ UNCHANGED <<license, plan>>
  BY DEF CommitDispatch, CreditsInv, CreditsSystemTypeOK, CreditsTypeOK, SenderHasWallet, CreditCallStates,
         RowsCovered, DeductionCovered
<1>2. /\ creditCall' \in [CreditCalls -> CreditCallStates] /\ creditCall'[c].pc = "idle"
      /\ \A e \in CreditCalls \ {c} : creditCall'[e] = creditCall[e]
  BY <1>1, NoCreditTyped DEF CreditsInv, CreditsSystemTypeOK, CreditsTypeOK
\* The rows: first the deduction, then the receiver's new row.
<1>3. /\ x \in [Orgs -> Lots] /\ x[r.from].unassigned = lots[r.from].unassigned - r.deduct
      /\ \A p \in Orgs \ {r.from} : x[p] = lots[p]
      /\ \A p \in Orgs : x[p].unassigned >= 0
  <2>1. lots \in [Orgs -> Lots] /\ \A p \in Orgs : lots[p].unassigned \in Nat
    BY DEF CreditsInv, CreditsSystemTypeOK, AccountsTypeOK, RowsCovered, RowsNonNegative, Lots
  <2>2. QED BY <1>1, <2>1 DEF Lots, Deduct
<1> HIDE DEF x
<1>4. /\ lots' \in [Orgs -> Lots]
      /\ \A p \in Orgs : lots'[p].unassigned >= x[p].unassigned
  <2>1. lots' = [x EXCEPT ![r.to].unassigned = @ + r.amount]
    BY DEF CommitDispatch, x
  <2>2. QED BY <1>1, <1>3, <2>1 DEF Lots
<1>5. LockHeldByMover'
  BY <1>1, MoverEnds DEF CreditsInv, RowsCovered
<1>6. DeductionCovered'
  <2>1. SUFFICES ASSUME NEW e \in CreditCalls, creditCall'[e].pc = "moving"
                 PROVE  creditCall'[e].deduct <= lots'[creditCall'[e].from].unassigned
    BY DEF DeductionCovered
  <2>2. e # c /\ creditCall'[e] = creditCall[e] /\ creditCall[e] \in CreditCallStates
    BY <1>2, <2>1 DEF CreditsInv, CreditsSystemTypeOK, CreditsTypeOK
  <2>3. creditCall[e].from # r.from
    BY <1>1, <2>1, <2>2 DEF CreditsInv, RowsCovered, LockHeldByMover
  <2>4. creditCall[e].deduct <= lots[creditCall[e].from].unassigned
    BY <2>1, <2>2 DEF CreditsInv, RowsCovered, DeductionCovered
  <2>5. /\ creditCall[e].from \in Orgs /\ creditCall[e].deduct \in Nat
        /\ x[creditCall[e].from] = lots[creditCall[e].from]
    BY <1>3, <2>2, <2>3 DEF CreditCallStates
  <2>6. lots[creditCall[e].from].unassigned \in Int /\ lots'[creditCall[e].from].unassigned \in Int
    BY <1>4, <2>5 DEF CreditsInv, CreditsSystemTypeOK, AccountsTypeOK, Lots
  <2>7. lots'[creditCall[e].from].unassigned >= lots[creditCall[e].from].unassigned
    BY <1>4, <2>5
  <2>8. QED BY <2>2, <2>4, <2>5, <2>6, <2>7
<1>7. RowsNonNegative'
  <2>1. \A p \in Orgs : x[p].unassigned \in Int /\ lots'[p].unassigned \in Int
    BY <1>3, <1>4 DEF Lots
  <2>2. QED BY <1>3, <1>4, <2>1 DEF RowsNonNegative
\* The wallets: the debit, then the credit, each leaving its wallet balanced.
<1>8. /\ w \in [Orgs -> Wallets] /\ w[r.from].balance = wallet[r.from].balance - r.amount
      /\ w[r.from].exists = wallet[r.from].exists
      /\ w[r.from].totalCredits = wallet[r.from].totalCredits
      /\ w[r.from].usedCredits = wallet[r.from].usedCredits
      /\ \A p \in Orgs \ {r.from} : w[p] = wallet[p]
  <2>1. wallet \in [Orgs -> Wallets]
    BY DEF CreditsInv, CreditsSystemTypeOK, AccountsTypeOK
  <2> DEFINE v == Debited(wallet[r.from], r.amount)
  <2>2. /\ v \in Wallets /\ v.balance = wallet[r.from].balance - r.amount
        /\ v.exists = wallet[r.from].exists /\ v.totalCredits = wallet[r.from].totalCredits
        /\ v.usedCredits = wallet[r.from].usedCredits
    BY <1>1, <2>1 DEF Wallets, Debited
  <2>3. w = [wallet EXCEPT ![r.from] = v]
    BY DEF Debit
  <2>4. w[r.from] = v /\ w \in [Orgs -> Wallets] /\ \A p \in Orgs \ {r.from} : w[p] = wallet[p]
    BY <1>1, <2>1, <2>2, <2>3
  <2>5. QED BY <2>2, <2>4
<1>9. /\ j \in [Orgs -> Journals] /\ j[r.from].sent = journal[r.from].sent + r.amount
      /\ j[r.from].opening = journal[r.from].opening /\ j[r.from].credit = journal[r.from].credit
      /\ j[r.from].cut = journal[r.from].cut /\ j[r.from].received = journal[r.from].received
      /\ \A p \in Orgs \ {r.from} : j[p] = journal[p]
  <2>1. journal \in [Orgs -> Journals]
    BY DEF CreditsInv, CreditsSystemTypeOK, AccountsTypeOK
  <2>2. QED BY <1>1, <2>1 DEF Journals
<1>10. \A p \in Orgs : Balanced(w[p], j[p])
  <2>1. \A p \in Orgs : Balanced(wallet[p], journal[p])
    BY DEF CreditsInv, LedgerBalanced
  <2>2. Balanced(w[r.from], j[r.from])
    <3>1. wallet[r.from].balance \in Int /\ wallet[r.from].totalCredits \in Nat
          /\ wallet[r.from].usedCredits \in Nat /\ journal[r.from].sent \in Nat
      BY <1>1 DEF CreditsInv, CreditsSystemTypeOK, AccountsTypeOK, Wallets, Journals
    <3>2. \A b, t, u, s, n \in Int : b = t - u - s => b - n = t - u - (s + n)
      OBVIOUS
    <3>3. wallet[r.from].balance = wallet[r.from].totalCredits - wallet[r.from].usedCredits - journal[r.from].sent
      BY <1>1, <2>1 DEF Balanced
    <3>4. wallet[r.from].balance - r.amount = wallet[r.from].totalCredits
              - wallet[r.from].usedCredits - (journal[r.from].sent + r.amount)
      BY <1>1, <3>1, <3>2, <3>3
    <3>5. w[r.from].balance = w[r.from].totalCredits - w[r.from].usedCredits - j[r.from].sent
      BY <1>8, <1>9, <3>4
    <3>6. w[r.from].exists
      BY <1>1, <1>8
    <3>7. /\ w[r.from].totalCredits = j[r.from].opening + j[r.from].credit + j[r.from].received
          /\ w[r.from].usedCredits = j[r.from].cut
      BY <1>1, <1>8, <1>9, <2>1 DEF Balanced
    <3>8. QED BY <3>5, <3>6, <3>7 DEF Balanced
  <2>3. QED BY <1>8, <1>9, <2>1, <2>2
<1> HIDE DEF w, j
<1>11. /\ wallet' = [w EXCEPT ![r.to] = Credited(@, r.amount)]
       /\ journal' = [j EXCEPT ![r.to].received = @ + r.amount]
  BY DEF CommitDispatch, w, j
<1>12. /\ wallet' \in [Orgs -> Wallets] /\ wallet'[r.to].exists = TRUE
       /\ wallet'[r.to].balance = w[r.to].balance + r.amount
       /\ wallet'[r.to].totalCredits = w[r.to].totalCredits + r.amount
       /\ wallet'[r.to].usedCredits = w[r.to].usedCredits
       /\ \A p \in Orgs \ {r.to} : wallet'[p] = w[p]
  BY <1>1, <1>8, <1>11 DEF Credited, Wallets
<1>13. /\ journal' \in [Orgs -> Journals] /\ journal'[r.to].received = j[r.to].received + r.amount
       /\ journal'[r.to].opening = j[r.to].opening /\ journal'[r.to].credit = j[r.to].credit
       /\ journal'[r.to].cut = j[r.to].cut /\ journal'[r.to].sent = j[r.to].sent
       /\ \A p \in Orgs \ {r.to} : journal'[p] = j[p]
  BY <1>1, <1>9, <1>11 DEF Journals
<1>14. Balanced(wallet'[r.to], journal'[r.to])
  <2>1. /\ w[r.to].balance \in Int /\ w[r.to].totalCredits \in Nat /\ w[r.to].usedCredits \in Nat
        /\ j[r.to].sent \in Nat /\ j[r.to].opening \in Nat /\ j[r.to].credit \in Nat
        /\ j[r.to].received \in Nat
    BY <1>1, <1>8, <1>9 DEF Wallets, Journals
  <2>2. /\ \A b, t, u, s, n \in Int : b = t - u - s => b + n = (t + n) - u - s
        /\ \A t, a, k, v, n \in Int : t = a + k + v => t + n = a + k + (v + n)
    OBVIOUS
  <2>3. /\ w[r.to].balance = w[r.to].totalCredits - w[r.to].usedCredits - j[r.to].sent
        /\ w[r.to].totalCredits = j[r.to].opening + j[r.to].credit + j[r.to].received
        /\ w[r.to].usedCredits = j[r.to].cut
    BY <1>1, <1>10 DEF Balanced
  <2>4. wallet'[r.to].balance = wallet'[r.to].totalCredits - wallet'[r.to].usedCredits - journal'[r.to].sent
    BY <1>1, <1>12, <1>13, <2>1, <2>2, <2>3
  <2>5. wallet'[r.to].totalCredits = journal'[r.to].opening + journal'[r.to].credit + journal'[r.to].received
    BY <1>1, <1>12, <1>13, <2>1, <2>2, <2>3
  <2>6. QED BY <1>12, <1>13, <2>3, <2>4, <2>5 DEF Balanced
<1>15. LedgerBalanced'
  BY <1>10, <1>12, <1>13, <1>14 DEF LedgerBalanced
<1>16. CreditsSystemTypeOK'
  BY <1>1, <1>2, <1>4, <1>12, <1>13 DEF CreditsInv, CreditsSystemTypeOK, AccountsTypeOK, CreditsTypeOK
<1>17. SenderHasWallet'
  <2>1. \A p \in Orgs : wallet[p].exists => wallet'[p].exists
    BY <1>1, <1>8, <1>12
  <2>2. QED BY <1>2, <2>1 DEF CreditsInv, SenderHasWallet, CreditsSystemTypeOK, CreditsTypeOK, CreditCallStates
<1>18. DeductsAtMost'
  BY <1>2 DEF CreditsInv, DeductsAtMost
<1>19. QED BY <1>5, <1>6, <1>7, <1>15, <1>16, <1>17, <1>18, CommitConserves DEF CreditsInv, RowsCovered

\* A rollback writes nothing and releases what the call had locked.
LEMMA LoseCreditStep ==
    ASSUME CreditsInv, NEW c \in CreditCalls, LoseCredit(c)
    PROVE  CreditsInv'
<1>1. /\ creditCall' = [creditCall EXCEPT ![c] = NoCredit]
      /\ locked' = IF creditCall[c].pc = "moving" THEN locked \ {creditCall[c].from} ELSE locked
      /\ UNCHANGED <<wallet, journal, lots, license, plan>>
  BY DEF LoseCredit
<1>2. /\ creditCall' \in [CreditCalls -> CreditCallStates] /\ creditCall'[c].pc = "idle"
      /\ \A e \in CreditCalls \ {c} : creditCall'[e] = creditCall[e]
  BY <1>1, NoCreditTyped DEF CreditsInv, CreditsSystemTypeOK, CreditsTypeOK
<1>3. locked' \subseteq Orgs
  BY <1>1 DEF CreditsInv, CreditsSystemTypeOK, AccountsTypeOK
<1>4. CreditsSystemTypeOK'
  BY <1>1, <1>2, <1>3 DEF CreditsInv, CreditsSystemTypeOK, AccountsTypeOK, CreditsTypeOK
<1>5. LockHeldByMover'
  BY <1>1, MoverEnds DEF CreditsInv, RowsCovered
<1>6. RowsNonNegative' /\ DeductionCovered'
  BY <1>1, <1>2 DEF CreditsInv, RowsCovered, RowsNonNegative, DeductionCovered
<1>7. LedgerBalanced' /\ SenderHasWallet'
  BY <1>1, <1>2, UnchangedBalanced DEF CreditsInv, SenderHasWallet
<1>8. DeductsAtMost' /\ TransfersConserved'
  BY <1>1, <1>2, TransfersKept DEF CreditsInv, DeductsAtMost
<1>9. QED BY <1>4, <1>5, <1>6, <1>7, <1>8 DEF CreditsInv, RowsCovered

\* The rest of the backend and the cuts leave rows, locks and calls alone.
LEMMA CreditsOutsideStep ==
    ASSUME CreditsInv, UNCHANGED creditVars, AccountsNext \/ \E o \in Orgs : CutArrives(o)
    PROVE  CreditsInv'
<1>1. AccountsTypeOK /\ LedgerBalanced /\ \A p \in Orgs : lots[p].unassigned \in Int
  BY DEF CreditsInv, CreditsSystemTypeOK, AccountsTypeOK, Lots
<1>2. CASE AccountsNext
  BY <1>1, <1>2, AccountsStepBalanced, AccountsStepQuiet, CreditsKept DEF creditVars
<1>3. CASE \E o \in Orgs : CutArrives(o)
  <2>1. PICK o \in Orgs : CutArrives(o)
    BY <1>3
  <2>2. /\ wallet[o].balance > 0
        /\ wallet' = [wallet EXCEPT ![o] = Charged(@)]
        /\ journal' = [journal EXCEPT ![o].cut = @ + 1]
        /\ UNCHANGED <<lots, license, plan, locked>>
    BY <2>1 DEF CutArrives
  <2>3. wallet[o].exists
    BY <1>1, <2>2 DEF LedgerBalanced, Balanced, NoWallet
  <2>4. /\ wallet' \in [Orgs -> Wallets] /\ journal' \in [Orgs -> Journals] /\ LedgerBalanced'
        /\ \A p \in Orgs : /\ wallet'[p].exists = wallet[p].exists
                           /\ journal'[p].sent = journal[p].sent
                           /\ journal'[p].received = journal[p].received
    BY <1>1, <2>2, <2>3, ChargedBalanced
  <2>5. AccountsTypeOK'
    BY <1>1, <2>2, <2>4 DEF AccountsTypeOK
  <2>6. QED BY <1>1, <2>2, <2>4, <2>5, CreditsKept DEF creditVars
<1>4. QED BY <1>2, <1>3

\* Every step keeps the invariant.
LEMMA CreditsStepInv == CreditsInv /\ [CreditsNext]_creditsSystemVars => CreditsInv'
<1> SUFFICES ASSUME CreditsInv, [CreditsNext]_creditsSystemVars
             PROVE  CreditsInv'
  OBVIOUS
<1>1. CASE CreditsStep
  <2>1. \A n \in Amounts \cup {0} : n \in Nat
    BY CutCreditsAssumption
  <2>2. QED BY <1>1, <2>1, IssueStep, CheckStep, TakeWalletStep, CommitDispatchStep, LoseCreditStep
            DEF CreditsStep
<1>2. CASE (AccountsNext \/ \E o \in Orgs : CutArrives(o)) /\ UNCHANGED creditVars
  BY <1>2, CreditsOutsideStep
<1>3. CASE UNCHANGED creditsSystemVars
  <2>1. /\ UNCHANGED <<wallet, journal, lots, license, plan, locked, creditCall>>
        /\ \A p \in Orgs : lots[p].unassigned \in Int
    BY <1>3 DEF creditsSystemVars, accountVars, creditVars, CreditsInv, CreditsSystemTypeOK,
       AccountsTypeOK, Lots
  <2>2. AccountsTypeOK' /\ LedgerBalanced'
    BY <2>1, UnchangedBalanced DEF CreditsInv, CreditsSystemTypeOK, AccountsTypeOK
  <2>3. QED BY <2>1, <2>2, CreditsKept
<1>4. QED BY <1>1, <1>2, <1>3 DEF CreditsNext

-----------------------------------------------------------------------------
\* The invariant holds in every reachable state.
THEOREM CreditsInvariance == CreditsSpec => []CreditsInv
BY CreditsInitInv, CreditsStepInv, PTL DEF CreditsSpec

\* Overlapping dispatches never take more from a sender's CutCredit rows than
\* the rows have, because each reads them under the lock on the wallet.
THEOREM RowsHold == CreditsSpec => []RowsCovered
<1>1. CreditsInv => RowsCovered
  BY DEF CreditsInv
<1>2. QED BY <1>1, CreditsInvariance, PTL

\* Grants and transfers keep wallet counters and CreditTransaction rows in
\* agreement, also when an organization transfers to itself.
THEOREM CreditsLedgerHolds == CreditsSpec => []LedgerBalanced
<1>1. CreditsInv => LedgerBalanced
  BY DEF CreditsInv
<1>2. QED BY <1>1, CreditsInvariance, PTL

\* Wallets, rows, locks and dispatches keep their types.
THEOREM CreditsTypesHold == CreditsSpec => []CreditsSystemTypeOK
<1>1. CreditsInv => CreditsSystemTypeOK
  BY DEF CreditsInv
<1>2. QED BY <1>1, CreditsInvariance, PTL

\* Transfers conserve credits, whatever overlaps and whatever dies half-way.
THEOREM TransfersHold == CreditsSpec => []TransfersConserved
<1>1. CreditsInv => TransfersConserved
  BY DEF CreditsInv
<1>2. QED BY <1>1, CreditsInvariance, PTL

-----------------------------------------------------------------------------
\* While a dispatch holds the sender's wallet nothing touches the sender's rows:
\* what it will deduct is still the amount, or all there is.
DeductsAllThereIs ==
    \A c \in CreditCalls : creditCall[c].pc = "moving" =>
        creditCall[c].deduct = Lower(lots[creditCall[c].from].unassigned, creditCall[c].amount)

\* Calls that move as before, with rows that stay where wallets are locked.
LEMMA DeductsKept ==
    ASSUME CreditsInv, DeductsAllThereIs,
           \A c \in CreditCalls : creditCall'[c].pc = "moving" =>
               /\ creditCall[c].pc = "moving" /\ creditCall'[c] = creditCall[c]
               /\ lots'[creditCall[c].from] = lots[creditCall[c].from]
    PROVE  DeductsAllThereIs'
BY DEF DeductsAllThereIs, Lower

LEMMA DeductsStep ==
    ASSUME CreditsInv, DeductsAllThereIs, [CreditsNext]_creditsSystemVars
    PROVE  DeductsAllThereIs'
<1>1. /\ creditCall \in [CreditCalls -> CreditCallStates] /\ lots \in [Orgs -> Lots]
      /\ \A c \in CreditCalls : creditCall[c].pc = "moving" => creditCall[c].from \in locked
      /\ \A c, d \in CreditCalls :
            creditCall[c].pc = "moving" /\ creditCall[d].pc = "moving"
            /\ creditCall[c].from = creditCall[d].from => c = d
  BY DEF CreditsInv, CreditsSystemTypeOK, CreditsTypeOK, AccountsTypeOK, RowsCovered, LockHeldByMover
<1>2. ASSUME NEW o \in Orgs, NEW n \in Amounts \cup {0}, NEW u \in BOOLEAN, NEW f \in BOOLEAN,
             NEW b \in BOOLEAN, IssueCutCredits(o, n, u, f, b)
      PROVE  DeductsAllThereIs'
  <2>1. o \notin locked /\ UNCHANGED creditCall /\ AddLot(o, n, b)
    BY <1>2 DEF IssueCutCredits
  <2>2. \A p \in Orgs \ {o} : lots'[p] = lots[p]
    BY <1>1, <2>1 DEF AddLot
  <2>3. QED BY <1>1, <2>1, <2>2, DeductsKept DEF CreditCallStates
<1>3. ASSUME NEW c \in CreditCalls, NEW from \in Orgs, NEW to \in Orgs, NEW n \in Amounts,
             CheckBalance(c, from, to, n)
      PROVE  DeductsAllThereIs'
  <2> DEFINE q == [NoCredit EXCEPT !.pc = "funded", !.from = from, !.to = to, !.amount = n]
  <2>1. q.pc = "funded"
    BY DEF NoCredit
  <2>2. creditCall' = [creditCall EXCEPT ![c] = q] /\ UNCHANGED lots
    BY <1>3 DEF CheckBalance, accountVars
  <2> HIDE DEF q
  <2>3. creditCall'[c].pc # "moving" /\ \A d \in CreditCalls \ {c} : creditCall'[d] = creditCall[d]
    BY <1>1, <2>1, <2>2
  <2>4. QED BY <2>2, <2>3, DeductsKept
<1>4. ASSUME NEW c \in CreditCalls, CheckUnassigned(c)
      PROVE  DeductsAllThereIs'
  <2> DEFINE q == [creditCall[c] EXCEPT !.pc = "covered"]
  <2>1. q.pc = "covered"
    BY <1>1 DEF CreditCallStates
  <2>2. /\ creditCall' = [creditCall EXCEPT ![c] = q] \/ creditCall' = [creditCall EXCEPT ![c] = NoCredit]
        /\ UNCHANGED lots
    BY <1>4 DEF CheckUnassigned, accountVars
  <2> HIDE DEF q
  <2>3. creditCall'[c].pc # "moving" /\ \A d \in CreditCalls \ {c} : creditCall'[d] = creditCall[d]
    BY <1>1, <2>1, <2>2, NoCreditTyped
  <2>4. QED BY <2>2, <2>3, DeductsKept
<1>5. ASSUME NEW c \in CreditCalls, TakeWallet(c)
      PROVE  DeductsAllThereIs'
  <2> DEFINE d == Lower(lots[creditCall[c].from].unassigned, creditCall[c].amount)
             q == [creditCall[c] EXCEPT !.pc = "moving", !.deduct = d]
  <2>1. q.deduct = d /\ q.from = creditCall[c].from /\ q.amount = creditCall[c].amount
    BY <1>1 DEF CreditCallStates
  <2>2. creditCall' = [creditCall EXCEPT ![c] = q] /\ UNCHANGED lots
    BY <1>5 DEF TakeWallet
  <2>3. creditCall'[c] = q /\ \A e \in CreditCalls \ {c} : creditCall'[e] = creditCall[e]
    BY <1>1, <2>2
  <2>4. QED BY <2>1, <2>2, <2>3 DEF DeductsAllThereIs
<1>6. ASSUME NEW c \in CreditCalls, CommitDispatch(c)
      PROVE  DeductsAllThereIs'
  <2> DEFINE from == creditCall[c].from
             to == creditCall[c].to
             x == Deduct(from, creditCall[c].deduct)
  <2>1. /\ creditCall[c].pc = "moving" /\ to \notin locked \ {from}
        /\ lots' = [x EXCEPT ![to].unassigned = @ + creditCall[c].amount]
        /\ creditCall' = [creditCall EXCEPT ![c] = NoCredit]
    BY <1>6 DEF CommitDispatch
  <2>2. creditCall'[c].pc = "idle" /\ \A d \in CreditCalls \ {c} : creditCall'[d] = creditCall[d]
    BY <1>1, <2>1, NoCreditTyped
  <2>3. \A p \in Orgs \ {from, to} : lots'[p] = lots[p]
    BY <1>1, <2>1 DEF Deduct
  <2>4. ASSUME NEW d \in CreditCalls \ {c}, creditCall[d].pc = "moving"
        PROVE  creditCall[d].from \in Orgs \ {from, to}
    BY <1>1, <2>1, <2>4 DEF CreditCallStates
  <2>5. QED BY <2>2, <2>3, <2>4, DeductsKept
<1>7. ASSUME NEW c \in CreditCalls, LoseCredit(c)
      PROVE  DeductsAllThereIs'
  <2>1. creditCall' = [creditCall EXCEPT ![c] = NoCredit] /\ UNCHANGED lots
    BY <1>7 DEF LoseCredit
  <2>2. creditCall'[c].pc = "idle" /\ \A d \in CreditCalls \ {c} : creditCall'[d] = creditCall[d]
    BY <1>1, <2>1, NoCreditTyped
  <2>3. QED BY <2>1, <2>2, DeductsKept
<1>8. CASE UNCHANGED <<lots, creditCall>>
  BY <1>8, DeductsKept
<1>9. QED BY <1>2, <1>3, <1>4, <1>5, <1>6, <1>7, <1>8
          DEF CreditsNext, CreditsStep, creditsSystemVars, creditVars, accountVars,
              AccountsNext, ActivateLicense, BindDevice, SetLicenseStatus, PlanEnds, CutArrives

\* What the commit of a dispatch does to the rows of each organization.
LEMMA CommitLots ==
    ASSUME CreditsInv, NEW c \in CreditCalls, CommitDispatch(c), NEW p \in Orgs
    PROVE  /\ lots'[p].unassigned = lots[p].unassigned
                 - (IF p = creditCall[c].from THEN creditCall[c].deduct ELSE 0)
                 + (IF p = creditCall[c].to THEN creditCall[c].amount ELSE 0)
           /\ lots'[p].assigned = lots[p].assigned
<1> DEFINE from == creditCall[c].from
           to == creditCall[c].to
           n == creditCall[c].amount
           d == creditCall[c].deduct
           x == Deduct(from, d)
<1>1. /\ from \in Orgs /\ to \in Orgs /\ n \in Nat /\ d \in Nat
      /\ lots \in [Orgs -> Lots] /\ lots[p].unassigned \in Int
  BY DEF CreditsInv, CreditsSystemTypeOK, CreditsTypeOK, CreditCallStates, AccountsTypeOK, Lots
<1>2. /\ x \in [Orgs -> Lots] /\ x[p].assigned = lots[p].assigned
      /\ x[p].unassigned = lots[p].unassigned - (IF p = from THEN d ELSE 0)
  BY <1>1 DEF Deduct, Lots
<1>3. lots' = [x EXCEPT ![to].unassigned = @ + n]
  BY DEF CommitDispatch
<1> HIDE DEF x, n, d, from, to
<1>4. /\ lots'[p].assigned = x[p].assigned
      /\ lots'[p].unassigned = x[p].unassigned + (IF p = to THEN n ELSE 0)
  BY <1>1, <1>2, <1>3 DEF Lots
<1>5. QED BY <1>2, <1>4 DEF from, to, n, d

\* A commit takes the amount or everything from the sender's rows.
LEMMA CommitTakesAll ==
    ASSUME CreditsInv, DeductsAllThereIs, NEW c \in CreditCalls, CommitDispatch(c), NEW p \in Orgs
    PROVE  /\ Excess(p)' >= Excess(p)
           /\ Excess(p)' > Excess(p) =>
                lots'[p].unassigned = journal'[p].received - journal[p].received
<1> DEFINE from == creditCall[c].from
           n == creditCall[c].amount
           d == creditCall[c].deduct
           g == IF p = creditCall[c].to THEN n ELSE 0
<1>1. /\ AccountsTypeOK /\ creditCall[c] \in CreditCallStates /\ creditCall[c].pc = "moving"
      /\ from \in Orgs /\ n \in Nat /\ d \in Nat /\ g \in Nat
      /\ lots[p].unassigned \in Int /\ lots[p].assigned \in Nat
      /\ journal[p].sent \in Nat /\ journal[p].received \in Nat /\ journal[p].credit \in Nat
  BY DEF CommitDispatch, CreditsInv, CreditsSystemTypeOK, CreditsTypeOK, CreditCallStates, AccountsTypeOK, Lots, Journals
<1>2. d = Lower(lots[from].unassigned, n)
  BY <1>1 DEF DeductsAllThereIs
<1>3. /\ lots'[p].unassigned = lots[p].unassigned - (IF p = from THEN d ELSE 0) + g
      /\ lots'[p].assigned = lots[p].assigned
  BY CommitLots
<1>4. /\ journal'[p].sent = journal[p].sent + (IF p = from THEN n ELSE 0)
      /\ journal'[p].received = journal[p].received + g
      /\ journal'[p].credit = journal[p].credit
  BY <1>1, CommitJournal
<1> HIDE DEF from, n, d, g
<1>5. CASE p = from
  <2>1. Excess(p)' = Excess(p) + (n - d)
    BY <1>1, <1>3, <1>4, <1>5 DEF Excess
  <2>2. d <= n /\ (d < n => d = lots[p].unassigned)
    BY <1>1, <1>2, <1>5 DEF Lower
  <2>3. Excess(p) \in Int
    BY <1>1 DEF Excess
  <2>4. QED BY <1>1, <1>3, <1>4, <1>5, <2>1, <2>2, <2>3
<1>6. CASE p # from
  <2>1. Excess(p)' = Excess(p)
    BY <1>1, <1>3, <1>4, <1>6 DEF Excess
  <2>2. Excess(p) \in Int
    BY <1>1 DEF Excess
  <2>3. QED BY <2>1, <2>2
<1>7. QED BY <1>5, <1>6

\* Dispatches take what they send from the sender's rows, or all that overlapping
\* ones have left there: rows never back less than wallets were given.
THEOREM RowsTakenHolds == CreditsSpec => RowsTakenInFull
<1> DEFINE Taken == \A o \in Orgs :
              /\ Excess(o)' >= Excess(o)
              /\ Excess(o)' > Excess(o) =>
                    lots'[o].unassigned = journal'[o].received - journal[o].received
<1> HIDE DEF Taken
<1>1. CreditsSystemInit => DeductsAllThereIs
  <2> SUFFICES ASSUME CreditsSystemInit PROVE DeductsAllThereIs
    OBVIOUS
  <2>1. \A c \in CreditCalls : creditCall[c].pc = "idle"
    BY NoCreditTyped DEF CreditsSystemInit, CreditsInit
  <2>2. QED BY <2>1 DEF DeductsAllThereIs
<1>2. CreditsInv /\ DeductsAllThereIs /\ [CreditsNext]_creditsSystemVars => DeductsAllThereIs' /\ [Taken]_creditsSystemVars
  <2> SUFFICES ASSUME CreditsInv, DeductsAllThereIs, [CreditsNext]_creditsSystemVars
               PROVE  DeductsAllThereIs' /\ [Taken]_creditsSystemVars
    OBVIOUS
  <2>1. /\ AccountsTypeOK
        /\ \A p \in Orgs : /\ lots[p].unassigned \in Int /\ lots[p].assigned \in Nat
                           /\ journal[p].sent \in Nat /\ journal[p].received \in Nat
                           /\ journal[p].credit \in Nat /\ Excess(p) \in Int
    BY DEF CreditsInv, CreditsSystemTypeOK, AccountsTypeOK, Lots, Journals, Excess
  <2>2. (\A p \in Orgs : Excess(p)' = Excess(p)) => Taken
    BY <2>1 DEF Taken
  <2>3. ASSUME NEW o \in Orgs, NEW n \in Amounts \cup {0}, NEW u \in BOOLEAN, NEW f \in BOOLEAN,
               NEW b \in BOOLEAN, IssueCutCredits(o, n, u, f, b)
        PROVE  Taken
    <3>1. n \in Nat /\ CreditWallet(o, n) /\ AddLot(o, n, b)
      BY <2>3, CutCreditsAssumption DEF IssueCutCredits
    <3>2. \A p \in Orgs : /\ journal'[p].sent = journal[p].sent
                          /\ journal'[p].received = journal[p].received
                          /\ journal'[p].credit = journal[p].credit + (IF p = o THEN n ELSE 0)
      BY <3>1, CreditWalletBalanced DEF CreditsInv, CreditsSystemTypeOK
    <3>3. \A p \in Orgs : lots'[p].unassigned + lots'[p].assigned
              = lots[p].unassigned + lots[p].assigned + (IF p = o THEN n ELSE 0)
      BY <2>1, <3>1, LotAdded
    <3>4. \A p \in Orgs : Excess(p)' = Excess(p)
      <4> SUFFICES ASSUME NEW p \in Orgs PROVE Excess(p)' = Excess(p)
        OBVIOUS
      <4>1. \A a, z, s, v, k, m \in Int : (a + m) + s - (k + m) - v = a + s - k - v
        OBVIOUS
      <4>2. lots[p].unassigned + lots[p].assigned \in Int /\ (IF p = o THEN n ELSE 0) \in Int
        BY <2>1, <3>1
      <4>3. QED BY <2>1, <3>2, <3>3, <4>1, <4>2 DEF Excess
    <3>5. QED BY <2>2, <3>4
  <2>4. ASSUME NEW c \in CreditCalls, CommitDispatch(c)
        PROVE  Taken
    BY <2>4, CommitTakesAll DEF Taken
  <2>5. ASSUME UNCHANGED <<lots, journal>>
        PROVE  Taken
    <3>1. \A p \in Orgs : Excess(p)' = Excess(p)
      BY <2>5 DEF Excess
    <3>2. QED BY <2>2, <3>1
  <2>6. ASSUME (AccountsNext \/ \E o \in Orgs : CutArrives(o)) /\ UNCHANGED creditVars
        PROVE  Taken
    <3>1. UNCHANGED lots
      BY <2>6 DEF AccountsNext, ActivateLicense, BindDevice, SetLicenseStatus, PlanEnds, CutArrives
    <3>2. PICK o \in Orgs : \/ UNCHANGED journal
                            \/ journal' = [journal EXCEPT ![o].opening = BindCredits]
                            \/ journal' = [journal EXCEPT ![o].cut = @ + 1]
      BY <2>6 DEF AccountsNext, ActivateLicense, BindDevice, SetLicenseStatus, PlanEnds, CutArrives
    <3>3. \A p \in Orgs : /\ journal'[p].sent = journal[p].sent
                          /\ journal'[p].received = journal[p].received
                          /\ journal'[p].credit = journal[p].credit
      BY <2>1, <3>2 DEF AccountsTypeOK, Journals
    <3>4. \A p \in Orgs : Excess(p)' = Excess(p)
      BY <3>1, <3>3 DEF Excess
    <3>5. QED BY <2>2, <3>4
  <2>7. ASSUME CreditsStep
        PROVE  Taken
    BY <2>3, <2>4, <2>5, <2>7
       DEF CreditsStep, CheckBalance, CheckUnassigned, TakeWallet, LoseCredit, accountVars
  <2>8. [Taken]_creditsSystemVars
    BY <2>6, <2>7 DEF CreditsNext
  <2>9. QED BY <2>8, DeductsStep
<1>3. QED BY <1>1, <1>2, CreditsInvariance, PTL DEF CreditsSpec, RowsTakenInFull, Taken

-----------------------------------------------------------------------------
\* All services together.

\* A dispatch that is running asks for an amount it may ask for.
AskedAllowed == \A c \in CreditCalls : creditCall[c].pc # "idle" => creditCall[c].amount \in Amounts

OwedBy(o) == [c \in CreditCalls |-> Owed(c, o)]
AllOwed(o) == SumFunctionOnSet(OwedBy(o), CreditCalls)
MostOwed == Cardinality(CreditCalls) * Max(Amounts)

JointInv ==
    /\ RechargeInv
    /\ CutsCore
    /\ CreditsInv
    /\ AskedAllowed
    /\ JointOverdraftBounded

-----------------------------------------------------------------------------
\* What a recharge writes that the other services see: credits, rows to match
\* them, and no lock.
LEMMA RechargeEffect ==
    ASSUME RechargeInv, RechargeStep
    PROVE  /\ UNCHANGED locked
           /\ \A p \in Orgs : /\ lots'[p].unassigned >= lots[p].unassigned
                              /\ wallet'[p].balance >= wallet[p].balance
                              /\ wallet'[p].usedCredits = wallet[p].usedCredits
                              /\ wallet[p].exists => wallet'[p].exists
                              /\ journal'[p].sent = journal[p].sent
                              /\ journal'[p].received = journal[p].received
<1>1. AccountsTypeOK /\ LedgerBalanced
  BY DEF RechargeInv, RechargeSystemTypeOK
<1>2. AccountsTypeOK'
  BY RechargeStepInv DEF RechargeNext, RechargeInv, RechargeSystemTypeOK
<1>3. \A p \in Orgs : wallet[p].balance \in Int /\ lots[p].unassigned \in Int
  BY <1>1 DEF AccountsTypeOK, Wallets, Lots
<1>4. CASE \E c \in Calls : CreditOrder(c)
  <2>1. PICK c \in Calls : CreditOrder(c)
    BY <1>4
  <2> DEFINE o == order[call[c].order].org
             n == call[c].credits
             b == call[c].licensed
  <2>2. /\ o \in Orgs /\ n \in Nat /\ b \in BOOLEAN /\ Distributor \in Orgs
        /\ CreditWallet(o, n) /\ AddLot(Distributor, n, b) /\ UNCHANGED locked
    BY <2>1, RechargeAssumption DEF CreditOrder, RechargeInv, RechargeSystemTypeOK,
       RechargeTypeOK, CallStates, OrderRows
  <2> HIDE DEF o, n, b
  <2>3. \A p \in Orgs : /\ wallet'[p].balance >= wallet[p].balance
                        /\ wallet'[p].usedCredits = wallet[p].usedCredits
                        /\ wallet[p].exists => wallet'[p].exists
                        /\ journal'[p].sent = journal[p].sent
                        /\ journal'[p].received = journal[p].received
                        /\ journal'[p].credit = journal[p].credit + (IF p = o THEN n ELSE 0)
    BY <1>1, <2>2, CreditWalletBalanced
  <2>4. \A p \in Orgs : /\ lots'[p].unassigned >= lots[p].unassigned
                        /\ lots'[p].unassigned + lots'[p].assigned
                              = lots[p].unassigned + lots[p].assigned
                                  + (IF p = Distributor THEN n ELSE 0)
    BY <1>1, <2>2, LotAdded
  <2>5. QED BY <2>2, <2>3, <2>4
<1>5. CASE UNCHANGED <<wallet, journal, lots, locked>>
  BY <1>1, <1>3, <1>5
<1>6. QED BY <1>4, <1>5 DEF RechargeStep, CallStep, CreateOrder, UpdatePackage, Pay, ReadOrder,
                            UpdateStatus, LoseCall, accountVars

\* What a cut writes that the other services see: nothing but one charge.
LEMMA CutsEffect ==
    ASSUME CutsCore, CutsStep
    PROVE  /\ UNCHANGED <<lots, locked>>
           /\ \A p \in Orgs : /\ wallet'[p].exists = wallet[p].exists
                              /\ journal'[p].credit = journal[p].credit
                              /\ journal'[p].sent = journal[p].sent
                              /\ journal'[p].received = journal[p].received
<1>1. CASE \E c \in CutCalls : ChargeCut(c)
  <2>1. PICK c \in CutCalls : ChargeCut(c)
    BY <1>1
  <2>2. /\ AccountsTypeOK /\ LedgerBalanced /\ cutCall[c].org \in Orgs /\ wallet[cutCall[c].org].exists
        /\ wallet' = [wallet EXCEPT ![cutCall[c].org] = Charged(@)]
        /\ journal' = [journal EXCEPT ![cutCall[c].org].cut = @ + 1]
        /\ UNCHANGED <<lots, locked>>
    BY <2>1 DEF ChargeCut, CutsCore, ChargesKnownWallet, CutsSystemTypeOK, CutsTypeOK, CutCallStates
  <2>3. QED BY <2>2, ChargedBalanced
<1>2. CASE UNCHANGED accountVars
  BY <1>2 DEF accountVars
<1>3. QED BY <1>1, <1>2 DEF CutsStep, CheckLicenseAndWallet, IssueToken, ExpireToken, LogFree,
                            ReadBalance, LoseCut

-----------------------------------------------------------------------------
\* When one dispatch changes, what is owed changes by what that dispatch owes.
LEMMA OwedChanges ==
    ASSUME CreditsTypeOK, CreditsTypeOK', NEW c \in CreditCalls, NEW p \in Orgs,
           \A e \in CreditCalls \ {c} : creditCall'[e] = creditCall[e]
    PROVE  /\ AllOwed(p) \in Int /\ Owed(c, p) \in Nat /\ Owed(c, p)' \in Nat
           /\ AllOwed(p)' = AllOwed(p) + (Owed(c, p)' - Owed(c, p))
<1> DEFINE f == OwedBy(p)
           g == [e \in CreditCalls |-> Owed(e, p)']
<1>1. \A e \in CreditCalls : Owed(e, p) \in Nat /\ Owed(e, p)' \in Nat
  BY DEF CreditsTypeOK, CreditCallStates, Owed
<1>2. \A e \in CreditCalls : f[e] \in Int /\ g[e] \in Int
  BY <1>1 DEF OwedBy
<1>3. \A e \in CreditCalls \ {c} : g[e] = f[e]
  BY DEF OwedBy, Owed
<1>4. g[c] - f[c] = Owed(c, p)' - Owed(c, p)
  BY DEF OwedBy
<1>5. AllOwed(p) = SumFunctionOnSet(f, CreditCalls) /\ AllOwed(p)' = SumFunctionOnSet(g, CreditCalls)
  BY DEF AllOwed, OwedBy
<1> HIDE DEF f, g
<1>6. IsFiniteSet(CreditCalls)
  BY CutCreditsAssumption
<1>7. /\ SumFunctionOnSet(f, CreditCalls) \in Int
      /\ SumFunctionOnSet(g, CreditCalls) = SumFunctionOnSet(f, CreditCalls) + (g[c] - f[c])
  BY <1>2, <1>3, <1>6, SumChange, Z3
<1>8. QED BY <1>1, <1>4, <1>5, <1>7

\* The largest amount is one, and there are finitely many dispatches to ask it.
LEMMA LargestAmount ==
    /\ Max(Amounts) \in Nat /\ \A n \in Amounts : n \in Nat /\ n <= Max(Amounts)
    /\ IsFiniteSet(CreditCalls) /\ Cardinality(CreditCalls) \in Nat
<1>1. \A n \in Amounts : n \in Nat
  BY CutCreditsAssumption
<1>2. \E m \in Amounts : \A n \in Amounts : m >= n
  BY <1>1, LargestExists, CreditLedgerAssumption
<1>3. Max(Amounts) \in Amounts /\ \A n \in Amounts : Max(Amounts) >= n
  BY <1>2 DEF Max
<1>4. QED BY <1>1, <1>3, CutCreditsAssumption, FS_CardinalityType

\* No more can be owed than all dispatches asking for the most.
LEMMA OwedBounded ==
    ASSUME CreditsTypeOK, AskedAllowed, NEW p \in Orgs
    PROVE  /\ AllOwed(p) \in Int /\ MostOwed \in Nat /\ AllOwed(p) <= MostOwed
<1> DEFINE f == OwedBy(p)
<1>1. \A c \in CreditCalls : f[c] \in Int /\ f[c] <= Max(Amounts)
  BY LargestAmount DEF OwedBy, Owed, AskedAllowed, CreditsTypeOK, CreditCallStates
<1>2. AllOwed(p) = SumFunctionOnSet(f, CreditCalls)
  BY DEF AllOwed
<1> HIDE DEF f
<1>3. SumFunctionOnSet(f, CreditCalls) <= Cardinality(CreditCalls) * Max(Amounts)
  BY <1>1, LargestAmount, SumBounded
<1>4. SumFunctionOnSet(f, CreditCalls) \in Int
  BY <1>1, LargestAmount, SumInt
<1>5. Cardinality(CreditCalls) * Max(Amounts) \in Nat
  BY LargestAmount
<1>6. QED BY <1>2, <1>3, <1>4, <1>5 DEF MostOwed

\* What the commit of a dispatch does to the wallet of each organization.
LEMMA CommitWallet ==
    ASSUME AccountsTypeOK, NEW c \in CreditCalls, creditCall[c] \in CreditCallStates,
           CommitDispatch(c), NEW p \in Orgs
    PROVE  /\ wallet'[p].balance = wallet[p].balance
                 - (IF p = creditCall[c].from THEN creditCall[c].amount ELSE 0)
                 + (IF p = creditCall[c].to THEN creditCall[c].amount ELSE 0)
           /\ wallet'[p].usedCredits = wallet[p].usedCredits
           /\ wallet[p].exists => wallet'[p].exists
<1> DEFINE from == creditCall[c].from
           to == creditCall[c].to
           n == creditCall[c].amount
           w == Debit(from, n)
<1>1. /\ from \in Orgs /\ to \in Orgs /\ n \in Nat
      /\ wallet \in [Orgs -> Wallets] /\ wallet[p].balance \in Int
  BY DEF CreditCallStates, AccountsTypeOK, Wallets
<1>2. /\ w \in [Orgs -> Wallets]
      /\ w[p].balance = wallet[p].balance - (IF p = from THEN n ELSE 0)
      /\ w[p].usedCredits = wallet[p].usedCredits
      /\ wallet[p].exists => w[p].exists
  BY <1>1 DEF Debit, Debited, Wallets
<1>3. wallet' = [w EXCEPT ![to] = Credited(@, n)]
  BY DEF CommitDispatch
<1> HIDE DEF w, from, to, n
<1>4. CASE p = to
  <2>1. wallet'[p] = Credited(w[p], n)
    BY <1>1, <1>2, <1>3, <1>4
  <2>2. w[p].balance \in Int
    BY <1>2 DEF Wallets
  <2>3. /\ wallet'[p].balance = w[p].balance + n /\ wallet'[p].usedCredits = w[p].usedCredits
        /\ wallet'[p].exists
    BY <2>1 DEF Credited
  <2>4. wallet'[p].balance = wallet[p].balance - (IF p = from THEN n ELSE 0) + n
    BY <1>2, <2>3
  <2>5. QED BY <1>2, <1>4, <2>3, <2>4 DEF from, to, n
<1>5. CASE p # to
  <2>1. wallet'[p] = w[p]
    BY <1>2, <1>3, <1>5
  <2>2. (wallet[p].balance - (IF p = from THEN n ELSE 0)) + 0
            = wallet[p].balance - (IF p = from THEN n ELSE 0)
    BY <1>1
  <2>3. QED BY <1>2, <1>5, <2>1, <2>2 DEF from, to, n
<1>6. QED BY <1>4, <1>5

\* A grant or a step of a dispatch charges no cut and removes no wallet.
LEMMA CreditsEffect ==
    ASSUME CreditsInv, CreditsStep
    PROVE  \A p \in Orgs : /\ wallet'[p].usedCredits = wallet[p].usedCredits
                           /\ wallet[p].exists => wallet'[p].exists
<1>1. AccountsTypeOK /\ LedgerBalanced /\ creditCall \in [CreditCalls -> CreditCallStates]
  BY DEF CreditsInv, CreditsSystemTypeOK, CreditsTypeOK
<1>2. CASE \E o \in Orgs, n \in Amounts \cup {0}, u, f, b \in BOOLEAN : IssueCutCredits(o, n, u, f, b)
  <2>1. PICK o \in Orgs, n \in Amounts \cup {0}, u \in BOOLEAN, f \in BOOLEAN, b \in BOOLEAN :
            IssueCutCredits(o, n, u, f, b)
    BY <1>2
  <2>2. n \in Nat /\ CreditWallet(o, n)
    BY <2>1, CutCreditsAssumption DEF IssueCutCredits
  <2>3. QED BY <1>1, <2>2, CreditWalletBalanced
<1>3. CASE \E c \in CreditCalls : CommitDispatch(c)
  BY <1>1, <1>3, CommitWallet
<1>4. CASE UNCHANGED wallet
  BY <1>4
<1>5. QED BY <1>2, <1>3, <1>4 DEF CreditsStep, CheckBalance, CheckUnassigned, TakeWallet, LoseCredit,
                                  accountVars

\* What a dispatch that reads, stops or commits leaves owed: it asks only for
\* allowed amounts, and takes nothing from what a wallet has left once all it
\* owes is debited, unless it finds the balance positive and leaves it alone.
LEMMA CreditsRoom ==
    ASSUME CreditsInv, AskedAllowed, CreditsStep
    PROVE  /\ AskedAllowed'
           /\ \A p \in Orgs :
                 \/ wallet[p].balance >= 1 /\ wallet'[p].balance = wallet[p].balance
                 \/ wallet'[p].balance - AllOwed(p)' >= wallet[p].balance - AllOwed(p)
<1>1. /\ AccountsTypeOK /\ LedgerBalanced /\ CreditsTypeOK
      /\ \A p \in Orgs : wallet[p].balance \in Int
  BY DEF CreditsInv, CreditsSystemTypeOK, AccountsTypeOK, Wallets
<1>2. CreditsTypeOK' /\ \A p \in Orgs : wallet'[p].balance \in Int
  BY CreditsStepInv DEF CreditsNext, CreditsInv, CreditsSystemTypeOK, AccountsTypeOK, Wallets
<1>3. CASE \E o \in Orgs, n \in Amounts \cup {0}, u, f, b \in BOOLEAN : IssueCutCredits(o, n, u, f, b)
  <2>1. PICK o \in Orgs, n \in Amounts \cup {0}, u \in BOOLEAN, f \in BOOLEAN, b \in BOOLEAN :
            IssueCutCredits(o, n, u, f, b)
    BY <1>3
  <2>2. n \in Nat /\ CreditWallet(o, n) /\ creditCall' = creditCall
    BY <2>1, CutCreditsAssumption DEF IssueCutCredits
  <2>3. \A p \in Orgs : wallet'[p].balance >= wallet[p].balance
    BY <1>1, <2>2, CreditWalletBalanced
  <2>4. AskedAllowed'
    BY <2>2 DEF AskedAllowed
  <2>5. \A p \in Orgs : AllOwed(p)' = AllOwed(p) /\ AllOwed(p) \in Int
    BY <1>1, <2>2, OwedBounded DEF AllOwed, OwedBy, Owed
  <2>6. QED BY <1>1, <1>2, <2>3, <2>4, <2>5
\* A dispatch c changes, and no other.
<1>4. ASSUME NEW c \in CreditCalls,
             \A e \in CreditCalls \ {c} : creditCall'[e] = creditCall[e],
             creditCall'[c].pc # "idle" => creditCall'[c].amount \in Amounts,
             \A p \in Orgs :
                \/ wallet[p].balance >= 1 /\ wallet'[p].balance = wallet[p].balance
                \/ wallet'[p].balance - Owed(c, p)' >= wallet[p].balance - Owed(c, p)
      PROVE  /\ AskedAllowed'
             /\ \A p \in Orgs :
                   \/ wallet[p].balance >= 1 /\ wallet'[p].balance = wallet[p].balance
                   \/ wallet'[p].balance - AllOwed(p)' >= wallet[p].balance - AllOwed(p)
  <2>1. AskedAllowed'
    BY <1>4 DEF AskedAllowed
  <2>2. ASSUME NEW p \in Orgs
        PROVE  \/ wallet[p].balance >= 1 /\ wallet'[p].balance = wallet[p].balance
               \/ wallet'[p].balance - AllOwed(p)' >= wallet[p].balance - AllOwed(p)
    <3>1. /\ AllOwed(p) \in Int /\ Owed(c, p) \in Nat /\ Owed(c, p)' \in Nat
          /\ AllOwed(p)' = AllOwed(p) + (Owed(c, p)' - Owed(c, p))
      BY <1>1, <1>2, <1>4, OwedChanges
    <3>2. QED BY <1>1, <1>2, <1>4, <3>1
  <2>3. QED BY <2>1, <2>2
<1>5. ASSUME NEW c \in CreditCalls, NEW from \in Orgs, NEW to \in Orgs, NEW n \in Amounts,
             CheckBalance(c, from, to, n)
      PROVE  /\ AskedAllowed'
             /\ \A p \in Orgs :
                   \/ wallet[p].balance >= 1 /\ wallet'[p].balance = wallet[p].balance
                   \/ wallet'[p].balance - AllOwed(p)' >= wallet[p].balance - AllOwed(p)
  <2> DEFINE r == [NoCredit EXCEPT !.pc = "funded", !.from = from, !.to = to, !.amount = n]
  <2>1. r.pc = "funded" /\ r.from = from /\ r.amount = n
    BY DEF NoCredit
  <2>2. /\ wallet' = wallet /\ wallet[from].balance >= n /\ creditCall[c].pc = "idle"
        /\ creditCall' = [creditCall EXCEPT ![c] = r]
    BY <1>5 DEF CheckBalance, accountVars
  <2> HIDE DEF r
  <2>3. creditCall'[c] = r /\ \A e \in CreditCalls \ {c} : creditCall'[e] = creditCall[e]
    BY <1>1, <2>2 DEF CreditsTypeOK
  <2>4. n \in Nat /\ n >= 1
    BY CutCreditsAssumption
  <2>5. ASSUME NEW p \in Orgs
        PROVE  \/ wallet[p].balance >= 1 /\ wallet'[p].balance = wallet[p].balance
               \/ wallet'[p].balance - Owed(c, p)' >= wallet[p].balance - Owed(c, p)
    <3>1. CASE p = from
      BY <1>1, <2>2, <2>4, <3>1
    <3>2. CASE p # from
      BY <1>1, <2>1, <2>2, <2>3, <3>2 DEF Owed
    <3>3. QED BY <3>1, <3>2
  <2>6. QED BY <1>4, <2>1, <2>3, <2>5
<1>6. ASSUME NEW c \in CreditCalls, CheckUnassigned(c) \/ TakeWallet(c) \/ LoseCredit(c)
      PROVE  /\ AskedAllowed'
             /\ \A p \in Orgs :
                   \/ wallet[p].balance >= 1 /\ wallet'[p].balance = wallet[p].balance
                   \/ wallet'[p].balance - AllOwed(p)' >= wallet[p].balance - AllOwed(p)
  <2>1. /\ wallet' = wallet /\ creditCall[c].pc # "idle" /\ creditCall[c] \in CreditCallStates
    BY <1>1, <1>6 DEF CheckUnassigned, TakeWallet, LoseCredit, accountVars, CreditsTypeOK
  <2>2. \E r : creditCall' = [creditCall EXCEPT ![c] = r]
    BY <1>6 DEF CheckUnassigned, TakeWallet, LoseCredit
  <2>3. \A e \in CreditCalls \ {c} : creditCall'[e] = creditCall[e]
    BY <1>1, <2>2 DEF CreditsTypeOK
  <2>4. \/ creditCall'[c].pc = "idle"
        \/ /\ creditCall'[c].from = creditCall[c].from
           /\ creditCall'[c].amount = creditCall[c].amount
    BY <1>1, <1>6, NoCreditTyped DEF CheckUnassigned, TakeWallet, LoseCredit, CreditsTypeOK, CreditCallStates
  <2>5. creditCall'[c].pc # "idle" => creditCall'[c].amount \in Amounts
    BY <2>1, <2>4 DEF AskedAllowed
  <2>6. ASSUME NEW p \in Orgs
        PROVE  wallet'[p].balance - Owed(c, p)' >= wallet[p].balance - Owed(c, p)
    <3>1. Owed(c, p) \in Nat
      BY <2>1 DEF Owed, CreditCallStates
    <3>2. Owed(c, p)' = 0 \/ Owed(c, p)' = Owed(c, p)
      BY <2>1, <2>4 DEF Owed
    <3>3. QED BY <1>1, <2>1, <3>1, <3>2
  <2>7. QED BY <1>4, <2>3, <2>5, <2>6
<1>7. ASSUME NEW c \in CreditCalls, CommitDispatch(c)
      PROVE  /\ AskedAllowed'
             /\ \A p \in Orgs :
                   \/ wallet[p].balance >= 1 /\ wallet'[p].balance = wallet[p].balance
                   \/ wallet'[p].balance - AllOwed(p)' >= wallet[p].balance - AllOwed(p)
  <2>1. /\ creditCall[c].pc # "idle" /\ creditCall[c] \in CreditCallStates
        /\ creditCall' = [creditCall EXCEPT ![c] = NoCredit]
        /\ creditCall[c].amount \in Nat
    BY <1>1, <1>7 DEF CommitDispatch, CreditsTypeOK, CreditCallStates
  <2>2. creditCall'[c].pc = "idle" /\ \A e \in CreditCalls \ {c} : creditCall'[e] = creditCall[e]
    BY <1>1, <2>1, NoCreditTyped DEF CreditsTypeOK
  <2>3. ASSUME NEW p \in Orgs
        PROVE  wallet'[p].balance - Owed(c, p)' >= wallet[p].balance - Owed(c, p)
    <3>1. Owed(c, p)' = 0 /\ Owed(c, p) = IF p = creditCall[c].from THEN creditCall[c].amount ELSE 0
      BY <2>1, <2>2 DEF Owed
    <3>2. wallet'[p].balance = wallet[p].balance
                 - (IF p = creditCall[c].from THEN creditCall[c].amount ELSE 0)
                 + (IF p = creditCall[c].to THEN creditCall[c].amount ELSE 0)
      BY <1>1, <1>7, <2>1, CommitWallet
    <3>3. QED BY <1>1, <2>1, <3>1, <3>2
  <2>4. QED BY <1>4, <2>2, <2>3
<1>8. QED BY <1>3, <1>5, <1>6, <1>7 DEF CreditsStep

-----------------------------------------------------------------------------
\* With everything owed counted, a step of any service keeps the bound.
LEMMA JointRoom ==
    ASSUME JointInv, Next, CreditsTypeOK', AskedAllowed',
           AccountsTypeOK', NEW p \in Orgs
    PROVE  wallet'[p].balance - Pending(p)'
               >= 1 - (Cardinality(CutCalls) + Cardinality(CreditCalls) * Max(Amounts))
<1> DEFINE k == Cardinality(Charging(p))
           s == AllOwed(p)
<1>1. /\ AccountsTypeOK /\ LedgerBalanced /\ CreditsTypeOK /\ AskedAllowed
      /\ wallet[p].balance \in Int /\ wallet'[p].balance \in Int
  BY DEF JointInv, CreditsInv, CreditsSystemTypeOK, AccountsTypeOK, Wallets
<1>2. /\ k \in Nat /\ k' \in Nat /\ k' <= Cardinality(CutCalls) /\ Cardinality(CutCalls) \in Nat
  <2>1. Charging(p)' \subseteq CutCalls /\ IsFiniteSet(CutCalls)
    BY MachineCutsAssumption DEF Charging
  <2>2. QED BY <2>1, ChargingFinite, FS_Subset, FS_CardinalityType
<1>3. s \in Int /\ s' \in Int /\ s' <= MostOwed /\ MostOwed \in Nat
  <2>1. s \in Int /\ MostOwed \in Nat
    BY <1>1, OwedBounded
  <2>2. s' \in Int /\ s' <= MostOwed
    <3> DEFINE g == [c \in CreditCalls |-> Owed(c, p)']
    <3>1. \A c \in CreditCalls : g[c] \in Int /\ g[c] <= Max(Amounts)
      BY LargestAmount DEF Owed, AskedAllowed, CreditsTypeOK, CreditCallStates
    <3>2. s' = SumFunctionOnSet(g, CreditCalls)
      BY DEF AllOwed, OwedBy
    <3> HIDE DEF g, s
    <3>3. /\ SumFunctionOnSet(g, CreditCalls) <= Cardinality(CreditCalls) * Max(Amounts)
          /\ SumFunctionOnSet(g, CreditCalls) \in Int
      BY <3>1, LargestAmount, CutCreditsAssumption, SumBounded, SumInt
    <3>4. QED BY <3>2, <3>3 DEF MostOwed
  <2>3. QED BY <2>1, <2>2
<1>4. Pending(p) = k + s /\ Pending(p)' = k' + s'
  BY DEF Pending, AllOwed, OwedBy
<1>5. wallet[p].balance - (k + s) >= 1 - (Cardinality(CutCalls) + MostOwed)
  BY <1>4 DEF JointInv, JointOverdraftBounded, MostOwed
<1>6. UNCHANGED cutVars => k' = k
  BY DEF cutVars, Charging
<1>7. UNCHANGED creditVars => s' = s
  BY DEF creditVars, AllOwed, OwedBy, Owed
<1> HIDE DEF k, s
<1>8. wallet'[p].balance - (k' + s') >= 1 - (Cardinality(CutCalls) + MostOwed)
  <2>1. CASE RechargeStep /\ UNCHANGED <<cutVars, creditVars>>
    <3>1. wallet'[p].balance >= wallet[p].balance
      BY <2>1, RechargeEffect DEF JointInv
    <3>2. QED BY <1>1, <1>2, <1>3, <1>5, <1>6, <1>7, <2>1, <3>1
  <2>2. CASE CutsStep /\ UNCHANGED <<rechargeVars, creditVars>>
    <3>1. \/ wallet[p].balance >= 1 /\ wallet'[p].balance = wallet[p].balance
          \/ wallet'[p].balance - k' >= wallet[p].balance - k
      BY <2>2, CutRoom DEF JointInv, k
    <3>2. QED BY <1>1, <1>2, <1>3, <1>5, <1>7, <2>2, <3>1
  <2>3. CASE CreditsStep /\ UNCHANGED <<rechargeVars, cutVars>>
    <3>1. \/ wallet[p].balance >= 1 /\ wallet'[p].balance = wallet[p].balance
          \/ wallet'[p].balance - s' >= wallet[p].balance - s
      BY <1>1, <2>3, CreditsRoom DEF JointInv, s
    <3>2. QED BY <1>1, <1>2, <1>3, <1>5, <1>6, <2>3, <3>1
  <2>4. CASE AccountsNext /\ UNCHANGED <<rechargeVars, cutVars, creditVars>>
    <3>1. wallet'[p].balance >= wallet[p].balance
      BY <1>1, <2>4, AccountsStepBalanced
    <3>2. QED BY <1>1, <1>2, <1>3, <1>5, <1>6, <1>7, <2>4, <3>1
  <2>5. QED BY <2>1, <2>2, <2>3, <2>4 DEF Next
<1>9. QED BY <1>4, <1>8 DEF MostOwed

\* Each service keeps what the others rely on.
LEMMA JointStep == JointInv /\ Next => JointInv'
<1> SUFFICES ASSUME JointInv, Next PROVE JointInv'
  OBVIOUS
<1>1. /\ RechargeInv /\ CutsCore /\ CreditsInv /\ AskedAllowed
      /\ AccountsTypeOK /\ LedgerBalanced
      /\ \A p \in Orgs : lots[p].unassigned \in Int
  BY DEF JointInv, CreditsInv, CreditsSystemTypeOK, AccountsTypeOK, Lots
<1>2. RechargeInv' /\ CutsCore' /\ CreditsInv' /\ AskedAllowed'
  <2>1. CASE RechargeStep /\ UNCHANGED <<cutVars, creditVars>>
    <3>1. RechargeInv'
      BY <1>1, <2>1, RechargeStepInv DEF RechargeNext
    <3>2. AccountsTypeOK' /\ LedgerBalanced'
      BY <3>1 DEF RechargeInv, RechargeSystemTypeOK
    <3>3. CutsCore'
      BY <1>1, <2>1, <3>2, RechargeEffect, CutsKept
    <3>4. CreditsInv'
      BY <1>1, <2>1, <3>2, RechargeEffect, CreditsKept DEF creditVars
    <3>5. AskedAllowed'
      BY <1>1, <2>1 DEF AskedAllowed, creditVars
    <3>6. QED BY <3>1, <3>3, <3>4, <3>5
  <2>2. CASE CutsStep /\ UNCHANGED <<rechargeVars, creditVars>>
    <3>1. CutsCore'
      BY <1>1, <2>2, CutsCoreStep
    <3>2. AccountsTypeOK' /\ LedgerBalanced'
      BY <3>1 DEF CutsCore, CutsSystemTypeOK
    <3>3. RechargeInv'
      BY <1>1, <2>2, <3>2, RechargeKept
    <3>4. CreditsInv'
      BY <1>1, <2>2, <3>2, CutsEffect, CreditsKept DEF creditVars
    <3>5. AskedAllowed'
      BY <1>1, <2>2 DEF AskedAllowed, creditVars
    <3>6. QED BY <3>1, <3>3, <3>4, <3>5
  <2>3. CASE CreditsStep /\ UNCHANGED <<rechargeVars, cutVars>>
    <3>1. CreditsInv'
      BY <1>1, <2>3, CreditsStepInv DEF CreditsNext
    <3>2. AccountsTypeOK' /\ LedgerBalanced'
      BY <3>1 DEF CreditsInv, CreditsSystemTypeOK
    <3>3. RechargeInv'
      BY <1>1, <2>3, <3>2, RechargeKept
    <3>4. CutsCore'
      BY <1>1, <2>3, <3>2, CreditsEffect, CutsKept
    <3>5. AskedAllowed'
      BY <1>1, <2>3, CreditsRoom
    <3>6. QED BY <3>1, <3>3, <3>4, <3>5
  <2>4. CASE AccountsNext /\ UNCHANGED <<rechargeVars, cutVars, creditVars>>
    <3>1. RechargeInv'
      BY <1>1, <2>4, RechargeOutsideStep
    <3>2. CreditsInv'
      BY <1>1, <2>4, CreditsOutsideStep
    <3>3. CutsCore'
      BY <1>1, <2>4, AccountsStepBalanced, CutsKept
    <3>4. AskedAllowed'
      BY <1>1, <2>4 DEF AskedAllowed, creditVars
    <3>5. QED BY <3>1, <3>2, <3>3, <3>4
  <2>5. QED BY <2>1, <2>2, <2>3, <2>4 DEF Next
<1>3. CreditsTypeOK' /\ AccountsTypeOK'
  BY <1>2 DEF CreditsInv, CreditsSystemTypeOK
<1>4. JointOverdraftBounded'
  BY <1>2, <1>3, JointRoom DEF JointOverdraftBounded
<1>5. QED BY <1>2, <1>4 DEF JointInv

LEMMA JointInit == Init => JointInv
<1> SUFFICES ASSUME Init PROVE JointInv
  OBVIOUS
<1>1. RechargeInv
  BY RechargeInitInv DEF Init, RechargeSystemInit
<1>2. CutsInv
  BY CutsInitInv DEF Init, CutsSystemInit
<1>3. CreditsInv
  BY CreditsInitInv DEF Init, CreditsSystemInit
<1>4. \A c \in CreditCalls : creditCall[c].pc = "idle"
  BY NoCreditTyped DEF Init, CreditsInit
<1>5. AskedAllowed
  BY <1>4 DEF AskedAllowed
<1>6. ASSUME NEW p \in Orgs
      PROVE  wallet[p].balance - Pending(p)
                 >= 1 - (Cardinality(CutCalls) + Cardinality(CreditCalls) * Max(Amounts))
  <2>1. AllOwed(p) = 0
    <3>1. \A c \in CreditCalls : OwedBy(p)[c] = 0
      BY <1>4 DEF OwedBy, Owed
    <3>2. QED BY <3>1, SumZero, CutCreditsAssumption DEF AllOwed
  <2>2. Pending(p) = Cardinality(Charging(p)) + AllOwed(p)
    BY DEF Pending, AllOwed, OwedBy
  <2>3. wallet[p].balance - Cardinality(Charging(p)) >= 1 - Cardinality(CutCalls)
    BY <1>2 DEF CutsInv, OverdraftBounded
  <2>4. /\ wallet[p].balance \in Int /\ Cardinality(Charging(p)) \in Nat
        /\ Cardinality(CutCalls) \in Nat /\ MostOwed \in Nat
    BY <1>3, <1>5, ChargingFinite, OwedBounded
       DEF CreditsInv, CreditsSystemTypeOK, AccountsTypeOK, Wallets
  <2>5. wallet[p].balance - Pending(p) >= 1 - (Cardinality(CutCalls) + MostOwed)
    BY <2>1, <2>2, <2>3, <2>4
  <2>6. QED BY <2>5 DEF MostOwed
<1>7. QED BY <1>1, <1>2, <1>3, <1>5, <1>6 DEF JointInv, CutsInv, JointOverdraftBounded

LEMMA JointInvariance == Spec => []JointInv
<1>1. JointInv /\ UNCHANGED vars => JointInv'
  <2> SUFFICES ASSUME JointInv, UNCHANGED vars PROVE JointInv'
    OBVIOUS
  <2>1. /\ UNCHANGED <<wallet, journal, lots, license, plan, locked>>
        /\ UNCHANGED <<package, order, call, lost, token, cutCall, logs, creditCall>>
    BY DEF vars, accountVars, rechargeVars, cutVars, creditVars
  <2>2. RechargeInv'
    BY <2>1, RechargeStepInv DEF JointInv, rechargeSystemVars, accountVars, rechargeVars
  <2>3. CreditsInv'
    BY <2>1, CreditsStepInv DEF JointInv, creditsSystemVars, accountVars, creditVars
  <2>4. CutsCore'
    BY <2>1, <2>3, CutsKept DEF JointInv, CreditsInv, CreditsSystemTypeOK, cutVars
  <2>5. AskedAllowed' /\ JointOverdraftBounded'
    BY <2>1 DEF JointInv, AskedAllowed, JointOverdraftBounded, Pending, Charging, Owed
  <2>6. QED BY <2>2, <2>3, <2>4, <2>5 DEF JointInv
<1>2. QED BY <1>1, JointInit, JointStep, PTL DEF Spec

-----------------------------------------------------------------------------
\* The counters of every wallet agree with its CreditTransaction rows while
\* recharges, cuts, grants and transfers interleave at every read and commit.
THEOREM JointLedgerHolds == Spec => []LedgerBalanced
<1>1. JointInv => LedgerBalanced
  BY DEF JointInv, CutsCore
<1>2. QED BY <1>1, JointInvariance, PTL

\* Cuts and transfers that overlap overdraw a wallet by less than all calls
\* together could charge, and no recharge or grant gets in the way.
THEOREM JointOverdraftHolds == Spec => []JointOverdraftBounded
<1>1. JointInv => JointOverdraftBounded
  BY DEF JointInv
<1>2. QED BY <1>1, JointInvariance, PTL

\* What each service keeps on its own it keeps among the others: an order is
\* not credited more often than calls for it overlap, cuts are logged and charged
\* together, rows are not driven below zero and transfers conserve credits.
THEOREM ServicesCompose ==
    Spec => [](OvercreditBounded /\ CutsChargedExactly /\ RowsCovered /\ TransfersConserved)
<1>1. JointInv => OvercreditBounded /\ CutsChargedExactly /\ RowsCovered /\ TransfersConserved
  BY DEF JointInv, RechargeInv, CutsCore, CreditsInv
<1>2. QED BY <1>1, JointInvariance, PTL

-----------------------------------------------------------------------------
\* The phone, where credits are spent: a cut is committed only if its drawing has
\* reached the plotter.

\* A thread starts with the first chunk; none that it has written is missing, but for
\* what it lost with a connection, and none is when the cut waits or is committed.
Accounted(c, n) == 1..n \subseteq received[c] \union doubt[c]

Written ==
    \A c \in Cuts :
       /\ pc[c] # "sending" => sent[c] = 0
       /\ Accounted(c, sent[c])
       /\ pc[c] \in {"countdown", "succeeded"} \/ Committed(c) => Accounted(c, Chunks)

\* A cut that waits for a timer that was cancelled has met a reset or another cut.
StrandedByOthers ==
    \A c \in Cuts : Stranded(c) => resets > 0 \/ \E d \in Cuts \ {c} : pc[d] # "idle"

\* A cut that a reset can still stop has not succeeded, and the flag is up for the
\* thread and the timer that have not looked at it.
Stops(c) ==
    /\ ~Committed(c) /\ pc[c] \in {"sending", "countdown", "failed", "done"}
    /\ pc[c] = "sending" \/ c \in timers => cancelled

StoppedStay ==
    /\ \A c \in Cuts : Committed(c) => pc[c] \in {"failed", "done"}
    /\ \A c \in stopped : Stops(c)

\* A cut that has been given a token.
HasToken(c) == pc[c] \notin {"idle", "validating", "done"}

PlotterInv == PlotterTypeOK /\ Written /\ StrandedByOthers /\ StoppedStay

LEMMA ChunksTyped ==
    /\ Chunks \in Nat /\ Chunks > 0 /\ MaxBreaks \in Nat /\ MaxResets \in Nat /\ MaxCuts \in Nat
    /\ Transports \subseteq {"classic", "usb", "sdk"}
BY PlotterCutAssumption

-----------------------------------------------------------------------------
\* Nothing written is forgotten: what it leaves on a connection passes into doubt.
NoneForgotten ==
    \A c \in Cuts : received[c] \union doubt[c] \subseteq received'[c] \union doubt'[c]

PaperTyped ==
    received \in [Cuts -> SUBSET (1..Chunks)] /\ doubt \in [Cuts -> SUBSET (1..Chunks)]

LEMMA GoneForgetsNone ==
    ASSUME PlotterTypeOK, NEW t, Gone(t)
    PROVE  NoneForgotten /\ PaperTyped'
<1>1. PaperTyped
  BY DEF PlotterTypeOK, PaperTyped
<1>2. QED BY <1>1 DEF Gone, NoneForgotten, PaperTyped

\* Where the threads, timers and tokens of the cuts are left as they are, or go on
\* as a cut does, what was written stays written.
LEMMA WrittenKept ==
    ASSUME Written, NoneForgotten,
           \A c \in Cuts :
              /\ (sent'[c] = sent[c] /\ (pc[c] = "sending" => pc'[c] = "sending")) \/ sent'[c] = 0
              /\ pc'[c] \in {"countdown", "succeeded"}
                 => pc[c] \in {"countdown", "succeeded"} \/ sent[c] = Chunks
              /\ Committed(c)' => Committed(c) \/ pc[c] = "succeeded"
    PROVE  Written'
<1> SUFFICES ASSUME NEW c \in Cuts
             PROVE  /\ pc'[c] # "sending" => sent'[c] = 0
                    /\ Accounted(c, sent[c])'
                    /\ pc'[c] \in {"countdown", "succeeded"} \/ Committed(c)'
                       => Accounted(c, Chunks)'
  BY DEF Written
<1>1. /\ pc[c] # "sending" => sent[c] = 0
      /\ Accounted(c, sent[c])
      /\ pc[c] \in {"countdown", "succeeded"} \/ Committed(c) => Accounted(c, Chunks)
  BY DEF Written
<1>2. \A n : Accounted(c, n) => 1..n \subseteq received'[c] \union doubt'[c]
  BY DEF Accounted, NoneForgotten
<1>3. pc'[c] # "sending" => sent'[c] = 0
  BY <1>1
<1>4. Accounted(c, sent[c])'
  <2>1. CASE sent'[c] = sent[c]
    BY <2>1, <1>1, <1>2 DEF Accounted
  <2>2. CASE sent'[c] = 0
    BY <2>2 DEF Accounted
  <2>3. QED BY <2>1, <2>2
<1>5. pc'[c] \in {"countdown", "succeeded"} \/ Committed(c)' => Accounted(c, Chunks)'
  <2>1. pc'[c] \in {"countdown", "succeeded"} \/ Committed(c)' => Accounted(c, Chunks)
    BY <1>1
  <2>2. QED BY <2>1, <1>2 DEF Accounted
<1>6. QED BY <1>3, <1>4, <1>5

\* A cut that was stopped only fails or ends, or has its flag still up.
LEMMA StoppedKept ==
    ASSUME StoppedStay, stopped \subseteq Cuts, stopped' \subseteq stopped,
           \A c \in Cuts : Committed(c)' =>
              \/ Committed(c) /\ pc'[c] = pc[c]
              \/ pc'[c] \in {"failed", "done"},
           \A c \in stopped' :
              /\ Committed(c)' => Committed(c) \/ pc[c] = "succeeded"
              /\ pc'[c] \in {pc[c], "countdown", "failed", "done"}
              /\ pc'[c] = "sending" \/ c \in timers'
                 => (pc[c] = "sending" \/ c \in timers) /\ cancelled' = cancelled
    PROVE  StoppedStay'
<1>1. \A c \in Cuts : Committed(c)' => pc'[c] \in {"failed", "done"}
  BY DEF StoppedStay
<1>2. ASSUME NEW c \in stopped'
      PROVE  Stops(c)'
  <2>1. Stops(c)
    BY <1>2 DEF StoppedStay
  <2>2. ~Committed(c)' /\ pc'[c] \in {"sending", "countdown", "failed", "done"}
    BY <1>2, <2>1 DEF Stops
  <2>3. pc'[c] = "sending" \/ c \in timers' => cancelled'
    BY <1>2, <2>1 DEF Stops
  <2>4. QED BY <2>2, <2>3 DEF Stops
<1>3. QED BY <1>1, <1>2 DEF StoppedStay

\* A cut is stranded only by a reset or by another cut.
LEMMA StrandedKept ==
    ASSUME PlotterTypeOK, StrandedByOthers, resets' \in Nat, resets' >= resets,
           \A c \in Cuts : pc[c] # "idle" => pc'[c] # "idle",
           \A c \in Cuts : pc'[c] = "countdown" /\ c \notin timers'
              => \/ pc[c] = "countdown" /\ c \notin timers
                 \/ resets' > 0
                 \/ \E d \in Cuts \ {c} : pc'[d] # "idle"
    PROVE  StrandedByOthers'
<1> SUFFICES ASSUME NEW c \in Cuts, pc'[c] = "countdown" /\ c \notin timers'
             PROVE  resets' > 0 \/ \E d \in Cuts \ {c} : pc'[d] # "idle"
  BY DEF StrandedByOthers, Stranded
<1>1. resets \in Nat
  BY DEF PlotterTypeOK
<1>2. CASE pc[c] = "countdown" /\ c \notin timers
  <2>1. resets > 0 \/ \E d \in Cuts \ {c} : pc[d] # "idle"
    BY <1>2 DEF StrandedByOthers, Stranded
  <2>2. QED BY <2>1, <1>1
<1>3. QED BY <1>2

\* A step of the app, the user or the link that touches no cut and no timer.
LEMMA PlotterQuiet ==
    ASSUME PlotterInv, PlotterTypeOK', NoneForgotten,
           UNCHANGED <<pc, sent, settled, resets, cancelled, timers, stopped>>
    PROVE  PlotterInv'
<1>1. Written'
  BY WrittenKept DEF PlotterInv, Committed
<1>2. StrandedByOthers'
  BY DEF PlotterInv, StrandedByOthers, Stranded
<1>3. StoppedStay'
  BY DEF PlotterInv, StoppedStay, Stops, Committed
<1>4. QED BY <1>1, <1>2, <1>3 DEF PlotterInv

\* What the user does to the connection and the screens, and what befalls the link.
LEMMA ConnectionStep ==
    ASSUME PlotterInv,
           \/ CheckConnection \/ FinishReset \/ LeaveScreen \/ ConnectUsb \/ Disconnect \/ PlugIn
           \/ \E t \in Transports \ {"usb"} : ConnectBluetooth(t)
           \/ \E t \in Transports : LinkBreaks(t)
    PROVE  PlotterInv'
<1> USE DEF nativeVars, dartVars, cancelVars, screenVars, counters
<1>1. PlotterTypeOK
  BY DEF PlotterInv
<1>2. UNCHANGED <<pc, sent, via, again, settled, resets, cancelled, timers, timerRef, stopped>>
  BY DEF CheckConnection, FinishReset, LeaveScreen, ConnectUsb, Disconnect, PlugIn,
     ConnectBluetooth, LinkBreaks
<1>3. UNCHANGED paperVars \/ (\E t \in {"classic", "usb", "sdk"} : Gone(t))
  <2>1. CASE \/ CheckConnection \/ FinishReset \/ LeaveScreen \/ ConnectUsb \/ PlugIn
             \/ \E t \in Transports \ {"usb"} : ConnectBluetooth(t)
    BY <2>1 DEF CheckConnection, FinishReset, LeaveScreen, ConnectUsb, PlugIn, ConnectBluetooth
  <2>2. CASE Disconnect
    BY <2>2 DEF Disconnect, Close
  <2>3. ASSUME NEW t \in Transports, LinkBreaks(t)
        PROVE  Gone(t)
    BY <2>3 DEF LinkBreaks, Close
  <2>4. QED BY <2>1, <2>2, <2>3, ChunksTyped
<1>4. NoneForgotten /\ PaperTyped'
  <2>1. CASE UNCHANGED paperVars
    BY <1>1, <2>1 DEF paperVars, NoneForgotten, PaperTyped, PlotterTypeOK
  <2>2. QED BY <1>1, <1>3, <2>1, GoneForgetsNone
<1> DEFINE Typed ==
       /\ stream' \subseteq Cuts /\ link' \in [Transports -> {"null", "up", "broken"}]
       /\ nativeType' \in Transports \union {"none"} /\ dartType' \in Transports \union {"none"}
       /\ breaks' \in 0..MaxBreaks /\ mounted' \subseteq Cuts
       /\ overlay' \in BOOLEAN /\ resetting' \in BOOLEAN
<1>5. Typed
  <2>1. CASE CheckConnection
    <3>1. Restored \in Transports \union {"none"}
      BY <1>1 DEF PlotterTypeOK, Restored
    <3>2. QED BY <1>1, <2>1, <3>1 DEF CheckConnection, PlotterTypeOK
  <2>2. CASE FinishReset
    BY <1>1, <2>2 DEF FinishReset, PlotterTypeOK
  <2>3. CASE LeaveScreen \/ PlugIn
    BY <1>1, <2>3 DEF LeaveScreen, PlugIn, PlotterTypeOK
  <2>4. CASE ConnectUsb
    BY <1>1, <2>4 DEF ConnectUsb, PlotterTypeOK
  <2>5. CASE Disconnect
    BY <1>1, <2>5 DEF Disconnect, Close, PlotterTypeOK
  <2>6. ASSUME NEW t \in Transports \ {"usb"}, ConnectBluetooth(t)
        PROVE  Typed
    BY <1>1, <2>6 DEF ConnectBluetooth, PlotterTypeOK
  <2>7. ASSUME NEW t \in Transports, LinkBreaks(t)
        PROVE  Typed
    BY <1>1, <2>7, ChunksTyped DEF LinkBreaks, Close, PlotterTypeOK
  <2>8. QED BY <2>1, <2>2, <2>3, <2>4, <2>5, <2>6, <2>7
<1>6. PlotterTypeOK'
  BY <1>1, <1>2, <1>4, <1>5 DEF PlotterTypeOK, PaperTyped
<1>7. QED BY <1>2, <1>4, <1>6, PlotterQuiet

LEMMA ResetStep ==
    ASSUME PlotterInv, Reset
    PROVE  PlotterInv'
<1> USE DEF PlotterInv, nativeVars, dartVars, cancelVars, screenVars, paperVars, counters
<1>1. resets \in Nat /\ resets' \in 0..MaxResets /\ resets' > 0
  BY ChunksTyped DEF Reset, PlotterTypeOK
<1>2. PlotterTypeOK'
  BY <1>1 DEF Reset, PlotterTypeOK
<1>3. Written'
  <2>1. NoneForgotten
    BY DEF Reset, NoneForgotten
  <2>2. QED BY <2>1, WrittenKept DEF Reset, Committed
<1>4. StrandedByOthers'
  BY <1>1 DEF StrandedByOthers
<1>5. StoppedStay'
  <2>1. cancelled' /\ UNCHANGED <<pc, settled>>
    BY DEF Reset
  <2>2. \A c \in Cuts : Committed(c)' = Committed(c)
    BY <2>1 DEF Committed
  <2>3. ASSUME NEW c \in stopped'
        PROVE  Stops(c)'
    <3>1. c \in Cuts /\ (c \in stopped \/ pc[c] \in {"sending", "countdown"})
      BY <2>3 DEF Reset, PlotterTypeOK
    <3>2. ~Committed(c) /\ pc[c] \in {"sending", "countdown", "failed", "done"}
      BY <3>1 DEF StoppedStay, Stops
    <3>3. QED BY <2>1, <2>2, <3>1, <3>2 DEF Stops
  <2>4. QED BY <2>1, <2>2, <2>3 DEF StoppedStay
<1>6. QED BY <1>2, <1>3, <1>4, <1>5

\* A step of one cut that starts no countdown and cancels no timer.
LEMMA CutMoves ==
    ASSUME PlotterInv, NEW c \in Cuts, NEW s \in Steps \ {"idle", "countdown"}, Go(c, s),
           UNCHANGED <<timers, resets>>
    PROVE  /\ pc' \in [Cuts -> Steps] /\ pc'[c] = s
           /\ \A d \in Cuts \ {c} : pc'[d] = pc[d]
           /\ StrandedByOthers'
<1>1. /\ pc' \in [Cuts -> Steps] /\ pc'[c] = s
      /\ \A d \in Cuts \ {c} : pc'[d] = pc[d]
  BY DEF PlotterInv, PlotterTypeOK, Go
<1>2. resets' \in Nat /\ resets' >= resets
  BY ChunksTyped DEF PlotterInv, PlotterTypeOK
<1>3. \A d \in Cuts : /\ pc[d] # "idle" => pc'[d] # "idle"
                      /\ pc'[d] = "countdown" => pc[d] = "countdown"
  BY <1>1
<1>4. StrandedByOthers'
  BY <1>2, <1>3, StrandedKept DEF PlotterInv
<1>5. QED BY <1>1, <1>4

\* A cut that can be stopped goes on only to fail or to end.
GoesOn(c) ==
    /\ \A d \in Cuts \ {c} : pc'[d] = pc[d]
    /\ timers' \subseteq timers /\ cancelled' = cancelled /\ stopped' = stopped
    /\ \A d \in Cuts : Committed(d)' =>
          Committed(d) \/ (pc[d] = "succeeded" /\ pc'[d] \in {"failed", "done"})
    /\ pc'[c] \in {"failed", "done"} \/ (c \notin stopped /\ ~Committed(c))

LEMMA StoppedGoesOn ==
    ASSUME PlotterInv, NEW c \in Cuts, GoesOn(c)
    PROVE  StoppedStay'
<1> USE DEF GoesOn
<1>1. stopped \subseteq Cuts /\ StoppedStay
  BY DEF PlotterInv, PlotterTypeOK
<1>2. ASSUME NEW d \in Cuts, Committed(d)'
      PROVE  (Committed(d) /\ pc'[d] = pc[d]) \/ pc'[d] \in {"failed", "done"}
  BY <1>2
<1>3. ASSUME NEW d \in stopped'
      PROVE  /\ Committed(d)' => Committed(d) \/ pc[d] = "succeeded"
             /\ pc'[d] \in {pc[d], "countdown", "failed", "done"}
             /\ pc'[d] = "sending" \/ d \in timers'
                => (pc[d] = "sending" \/ d \in timers) /\ cancelled' = cancelled
  <2>1. d \in Cuts /\ d \in stopped
    BY <1>1, <1>3
  <2>2. QED BY <2>1
<1>4. QED BY <1>1, <1>2, <1>3, StoppedKept

\* Before it writes and after it has succeeded, a cut is none that can be stopped.
LEMMA NotStopped ==
    ASSUME PlotterInv, NEW c \in Cuts, pc[c] \notin {"sending", "countdown", "failed", "done"}
    PROVE  c \notin stopped /\ ~Committed(c)
BY DEF PlotterInv, StoppedStay, Stops

LEMMA StartCutStep ==
    ASSUME PlotterInv, NEW c \in Cuts, StartCut(c)
    PROVE  PlotterInv'
<1> USE DEF nativeVars, dartVars, cancelVars, screenVars, paperVars, counters
<1>1. /\ pc' \in [Cuts -> Steps] /\ pc'[c] = "validating"
      /\ \A d \in Cuts \ {c} : pc'[d] = pc[d]
      /\ StrandedByOthers'
  <2>1. "validating" \in Steps \ {"idle", "countdown"}
    BY DEF Steps
  <2>2. QED BY <2>1, CutMoves DEF StartCut
<1>2. Restored \in Transports \union {"none"}
  BY DEF PlotterInv, PlotterTypeOK, Restored
<1>3. PlotterTypeOK'
  BY <1>1, <1>2 DEF PlotterInv, StartCut, PlotterTypeOK
<1>4. Written'
  BY <1>1, WrittenKept DEF PlotterInv, StartCut, Committed, NoneForgotten
<1>5. StoppedStay'
  <2>1. c \notin stopped /\ ~Committed(c)
    BY NotStopped DEF StartCut
  <2>2. UNCHANGED <<timers, cancelled, stopped, settled>>
    BY DEF StartCut
  <2>3. GoesOn(c)
    BY <1>1, <2>1, <2>2 DEF GoesOn, Committed
  <2>4. QED BY <2>3, StoppedGoesOn
<1>6. QED BY <1>1, <1>3, <1>4, <1>5 DEF PlotterInv

LEMMA ValidateStep ==
    ASSUME PlotterInv, NEW c \in Cuts, Validate(c) \/ Download(c)
    PROVE  PlotterInv'
<1> USE DEF nativeVars, dartVars, cancelVars, screenVars, paperVars, counters
<1>1. PICK s \in {"granted", "done", "ready", "failed"} : Go(c, s)
  BY DEF Validate, Download, Return
<1>2. /\ pc' \in [Cuts -> Steps] /\ pc'[c] = s
      /\ \A d \in Cuts \ {c} : pc'[d] = pc[d]
      /\ StrandedByOthers'
  <2>1. s \in Steps \ {"idle", "countdown"}
    BY DEF Steps
  <2>2. QED BY <1>1, <2>1, CutMoves DEF Validate, Download
<1>3. PlotterTypeOK'
  BY <1>2 DEF PlotterInv, Validate, Download, Return, PlotterTypeOK
<1>4. pc[c] \in {"validating", "granted"}
  BY DEF Validate, Download
<1>5. Written'
  <2>1. \A d \in Cuts : pc'[d] \in {"countdown", "succeeded"} => pc[d] \in {"countdown", "succeeded"}
    BY <1>2
  <2>2. \A d \in Cuts : pc[d] = "sending" => pc'[d] = "sending"
    BY <1>2, <1>4
  <2>3. QED BY <2>1, <2>2, WrittenKept DEF PlotterInv, Validate, Download, Committed, NoneForgotten
<1>6. StoppedStay'
  <2>1. c \notin stopped /\ ~Committed(c)
    BY <1>4, NotStopped
  <2>2. UNCHANGED <<timers, cancelled, stopped, settled>>
    BY DEF Validate, Download
  <2>3. GoesOn(c)
    BY <1>2, <2>1, <2>2 DEF GoesOn, Committed
  <2>4. QED BY <2>3, StoppedGoesOn
<1>7. QED BY <1>2, <1>3, <1>5, <1>6 DEF PlotterInv

LEMMA BeginCutStep ==
    ASSUME PlotterInv, NEW c \in Cuts, BeginCut(c)
    PROVE  PlotterInv'
<1> USE DEF nativeVars, dartVars, cancelVars, screenVars, paperVars, counters
<1>1. PICK t \in Transports \union {"none"}, there \in BOOLEAN :
         /\ Thread(c, t, there)
         /\ there => t \in Transports
  <2>1. CASE nativeType = "usb" /\ StartUsb(c)
    BY <2>1 DEF StartUsb, PlotterInv, PlotterTypeOK
  <2>2. CASE nativeType = "classic" /\ StartBluetooth(c)
    BY <2>2 DEF StartBluetooth, PlotterInv, PlotterTypeOK
  <2>3. CASE nativeType \notin {"usb", "classic"} /\ StartSdk(c)
    BY <2>3 DEF StartSdk, Thread
  <2>4. QED BY <2>1, <2>2, <2>3 DEF BeginCut
<1>2. PICK s \in {"sending", "failed"} :
         /\ Go(c, s)
         /\ via' \in {via, [via EXCEPT ![c] = t]} /\ (via' # via => t \in Transports)
         /\ stream' \in {stream, stream \union {c}}
  <2>1. CASE there
    <3>1. Go(c, "sending") /\ via' = [via EXCEPT ![c] = t]
          /\ stream' = stream \union {c}
      BY <1>1, <2>1 DEF Thread
    <3>2. t \in Transports
      BY <1>1, <2>1
    <3>3. QED BY <3>1, <3>2
  <2>2. CASE ~there
    <3>1. Go(c, "failed") /\ UNCHANGED <<via, stream>>
      BY <1>1, <2>2 DEF Thread
    <3>2. QED BY <3>1
  <2>3. QED BY <2>1, <2>2
<1>3. /\ pc' \in [Cuts -> Steps] /\ pc'[c] = s
      /\ \A d \in Cuts \ {c} : pc'[d] = pc[d]
  BY <1>2 DEF PlotterInv, PlotterTypeOK, Go, Steps
<1>4. PlotterTypeOK'
  <2>1. via' \in [Cuts -> Transports \union {"none"}] /\ stream' \subseteq Cuts
    BY <1>2 DEF PlotterInv, PlotterTypeOK
  <2>2. QED BY <1>3, <2>1 DEF PlotterInv, BeginCut, PlotterTypeOK
<1>5. pc[c] = "ready"
  BY DEF BeginCut
<1>6. Written'
  <2>1. \A d \in Cuts : /\ pc'[d] \in {"countdown", "succeeded"} => pc[d] \in {"countdown", "succeeded"}
                        /\ pc[d] = "sending" => pc'[d] = "sending"
    BY <1>3, <1>5
  <2>2. QED BY <2>1, WrittenKept DEF PlotterInv, BeginCut, Committed, NoneForgotten
<1>7. StrandedByOthers'
  <2>1. resets' \in Nat /\ resets' >= resets
    BY ChunksTyped DEF PlotterInv, PlotterTypeOK, BeginCut
  <2>2. \A d \in Cuts : /\ pc[d] # "idle" => pc'[d] # "idle"
                        /\ pc'[d] = "countdown" => pc[d] = "countdown" /\ c \in Cuts \ {d}
    BY <1>3, <1>5
  <2>3. pc'[c] # "idle"
    BY <1>3
  <2>4. QED BY <2>1, <2>2, <2>3, StrandedKept DEF PlotterInv
<1>8. StoppedStay'
  <2>1. c \notin stopped /\ ~Committed(c)
    BY <1>5, NotStopped
  <2>2. stopped' = {d \in stopped : pc[d] # "sending" /\ d \notin timers'} /\ UNCHANGED settled
    BY DEF BeginCut
  <2>3. \A d \in Cuts : Committed(d)' = Committed(d)
    BY <2>2 DEF Committed
  <2>4. stopped \subseteq Cuts /\ StoppedStay
    BY DEF PlotterInv, PlotterTypeOK
  <2>5. \A d \in Cuts : Committed(d)' => Committed(d) /\ pc'[d] = pc[d]
    BY <1>3, <2>1, <2>3
  <2>6. \A d \in stopped' : /\ d \in Cuts \ {c} /\ pc'[d] = pc[d]
                             /\ pc'[d] # "sending" /\ d \notin timers'
    BY <1>3, <2>1, <2>2, <2>4
  <2>7. QED BY <2>2, <2>3, <2>4, <2>5, <2>6, StoppedKept
<1>9. QED BY <1>4, <1>6, <1>7, <1>8 DEF PlotterInv

\* A thread that writes: the chunk after those it has written.
LEMMA SendChunkStep ==
    ASSUME PlotterInv, NEW c \in Cuts, SendChunk(c)
    PROVE  PlotterInv'
<1> USE DEF nativeVars, dartVars, cancelVars, screenVars, counters
<1>1. pc[c] = "sending" /\ sent[c] \in 0..Chunks - 1 /\ sent[c] + 1 \in 1..Chunks
  BY ChunksTyped DEF PlotterInv, PlotterTypeOK, SendChunk, Sending
<1>2. /\ NoneForgotten /\ PaperTyped'
      /\ sent[c] + 1 \in received'[c] \union doubt'[c]
  BY <1>1 DEF PlotterInv, PlotterTypeOK, SendChunk, NoneForgotten, PaperTyped
<1>3. /\ sent' \in [Cuts -> 0..Chunks] /\ sent'[c] = sent[c] + 1
      /\ \A d \in Cuts \ {c} : sent'[d] = sent[d]
  BY <1>1 DEF PlotterInv, PlotterTypeOK, SendChunk
<1>4. UNCHANGED <<pc, via, again, stream, link, nativeType, dartVars, screenVars, settled,
                  resetting, counters>>
  BY DEF SendChunk
<1>5. PlotterTypeOK'
  BY <1>2, <1>3, <1>4 DEF PlotterInv, PlotterTypeOK, PaperTyped
<1>6. StrandedByOthers' /\ StoppedStay'
  BY <1>4 DEF PlotterInv, StrandedByOthers, Stranded, StoppedStay, Stops, Committed
<1>7. ASSUME NEW d \in Cuts
      PROVE  /\ pc'[d] # "sending" => sent'[d] = 0
             /\ Accounted(d, sent[d])'
             /\ pc'[d] \in {"countdown", "succeeded"} \/ Committed(d)' => Accounted(d, Chunks)'
  <2>1. /\ pc[d] # "sending" => sent[d] = 0
        /\ Accounted(d, sent[d])
        /\ pc[d] \in {"countdown", "succeeded"} \/ Committed(d) => Accounted(d, Chunks)
    BY DEF PlotterInv, Written
  <2>2. \A n : Accounted(d, n) => Accounted(d, n)'
    BY <1>2 DEF Accounted, NoneForgotten
  <2>3. Committed(d)' = Committed(d) /\ pc'[d] = pc[d]
    BY <1>4 DEF Committed
  <2>4. pc'[d] \in {"countdown", "succeeded"} \/ Committed(d)' => Accounted(d, Chunks)'
    BY <2>1, <2>2, <2>3
  <2>5. pc'[d] # "sending" => sent'[d] = 0
    BY <1>1, <1>3, <2>1, <2>3
  <2>6. Accounted(d, sent[d])'
    <3>1. 1..sent[d] \subseteq received'[d] \union doubt'[d]
      BY <2>1, <1>2 DEF Accounted, NoneForgotten
    <3>2. CASE d # c
      BY <3>1, <3>2, <1>3 DEF Accounted
    <3>3. CASE d = c
      <4>1. \A k \in 1..sent'[c] : k \in 1..sent[c] \/ k = sent[c] + 1
        BY <1>1, <1>3
      <4>2. QED BY <3>1, <3>3, <4>1, <1>2 DEF Accounted
    <3>4. QED BY <3>2, <3>3
  <2>7. QED BY <2>4, <2>5, <2>6
<1>8. Written'
  BY <1>7 DEF Written
<1>9. QED BY <1>5, <1>6, <1>8 DEF PlotterInv

\* The end of a thread.
LEMMA ThreadEnds ==
    ASSUME PlotterInv, NEW c \in Cuts, EndThread(c)
    PROVE  /\ sent' \in [Cuts -> 0..Chunks] /\ sent'[c] = 0
           /\ \A d \in Cuts \ {c} : sent'[d] = sent[d]
           /\ again' \subseteq Cuts
BY ChunksTyped DEF PlotterInv, PlotterTypeOK, EndThread

LEMMA ReconnectStep ==
    ASSUME PlotterInv, NEW c \in Cuts, ReconnectClassic(c) \/ SendFails(c)
    PROVE  PlotterInv'
<1> USE DEF nativeVars, dartVars, cancelVars, screenVars, counters
<1>1. pc[c] = "sending" /\ (ReconnectClassic(c) => "classic" \in Transports)
  BY DEF ReconnectClassic, SendFails, WriteFails, Sending, PlotterInv, PlotterTypeOK
<1>2. NoneForgotten /\ PaperTyped'
  <2>1. CASE ReconnectClassic(c)
    BY <2>1, GoneForgetsNone DEF ReconnectClassic, PlotterInv
  <2>2. CASE SendFails(c)
    BY <2>2 DEF SendFails, PlotterInv, PlotterTypeOK, NoneForgotten, PaperTyped, paperVars
  <2>3. QED BY <2>1, <2>2
<1>3. UNCHANGED <<via, dartVars, screenVars, settled, resetting, counters>>
  BY DEF ReconnectClassic, SendFails
<1>4. /\ link' \in [Transports -> {"null", "up", "broken"}]
      /\ stream' \subseteq Cuts /\ nativeType' \in Transports \union {"none"}
  BY <1>1 DEF ReconnectClassic, SendFails, PlotterInv, PlotterTypeOK
<1>5. CASE UNCHANGED <<pc, sent>> /\ again' = again \union {c}
  <2>1. PlotterTypeOK'
    BY <1>2, <1>3, <1>4, <1>5 DEF PlotterInv, PlotterTypeOK, PaperTyped
  <2>2. QED BY <1>2, <1>3, <1>5, <2>1, PlotterQuiet
<1>6. CASE Go(c, "failed") /\ EndThread(c)
  <2>1. /\ pc' \in [Cuts -> Steps] /\ pc'[c] = "failed"
        /\ \A d \in Cuts \ {c} : pc'[d] = pc[d]
        /\ StrandedByOthers'
    <3>1. "failed" \in Steps \ {"idle", "countdown"}
      BY DEF Steps
    <3>2. QED BY <1>6, <1>3, <3>1, CutMoves
  <2>2. PlotterTypeOK'
    BY <1>2, <1>3, <1>4, <1>6, <2>1, ThreadEnds DEF PlotterInv, PlotterTypeOK, PaperTyped
  <2>3. Written'
    <3>1. \A d \in Cuts : (sent'[d] = sent[d] /\ (pc[d] = "sending" => pc'[d] = "sending")) \/ sent'[d] = 0
      BY <1>6, <2>1, ThreadEnds
    <3>2. \A d \in Cuts : pc'[d] \in {"countdown", "succeeded"} => pc[d] \in {"countdown", "succeeded"}
      BY <2>1
    <3>3. QED BY <1>2, <1>3, <3>1, <3>2, WrittenKept DEF PlotterInv, Committed
  <2>4. StoppedStay'
    <3>1. GoesOn(c)
      BY <1>3, <2>1 DEF GoesOn, Committed
    <3>2. QED BY <3>1, StoppedGoesOn
  <2>5. QED BY <2>1, <2>2, <2>3, <2>4 DEF PlotterInv
<1>7. QED BY <1>5, <1>6 DEF ReconnectClassic, SendFails

LEMMA SendDoneStep ==
    ASSUME PlotterInv, NEW c \in Cuts, SendDone(c)
    PROVE  PlotterInv'
<1> USE DEF nativeVars, dartVars, cancelVars, screenVars, paperVars, counters
<1>1. PICK s \in {"countdown", "succeeded"} :
         /\ Go(c, s)
         /\ s = "countdown" => timers' = timers \union {c} /\ timerRef' = c /\ stopped' = stopped
         /\ s = "succeeded" => UNCHANGED <<timers, timerRef>> /\ stopped' = stopped \ {c}
  BY DEF SendDone
<1>2. /\ pc' \in [Cuts -> Steps] /\ pc'[c] = s
      /\ \A d \in Cuts \ {c} : pc'[d] = pc[d]
  BY <1>1 DEF PlotterInv, PlotterTypeOK, Go, Steps
<1>3. pc[c] = "sending" /\ sent[c] = Chunks /\ EndThread(c)
  BY DEF SendDone
<1>4. PlotterTypeOK'
  <2>1. timers' \subseteq Cuts /\ timerRef' \in Cuts \union {NoTimer} /\ stopped' \subseteq Cuts
    BY <1>1 DEF PlotterInv, PlotterTypeOK
  <2>2. QED BY <1>2, <1>3, <2>1, ThreadEnds DEF PlotterInv, PlotterTypeOK, SendDone
<1>5. Written'
  <2>1. \A d \in Cuts : (sent'[d] = sent[d] /\ (pc[d] = "sending" => pc'[d] = "sending")) \/ sent'[d] = 0
    BY <1>2, <1>3, ThreadEnds
  <2>2. \A d \in Cuts : pc'[d] \in {"countdown", "succeeded"}
                        => pc[d] \in {"countdown", "succeeded"} \/ sent[d] = Chunks
    BY <1>2, <1>3
  <2>3. QED BY <2>1, <2>2, WrittenKept DEF PlotterInv, SendDone, Committed, NoneForgotten
<1>6. StrandedByOthers'
  <2>1. resets' \in Nat /\ resets' >= resets
    BY ChunksTyped DEF PlotterInv, PlotterTypeOK, SendDone
  <2>2. \A d \in Cuts : /\ pc[d] # "idle" => pc'[d] # "idle"
                        /\ pc'[d] = "countdown" /\ d \notin timers'
                           => pc[d] = "countdown" /\ d \notin timers
    BY <1>1, <1>2
  <2>3. QED BY <2>1, <2>2, StrandedKept DEF PlotterInv
<1>7. StoppedStay'
  <2>1. stopped \subseteq Cuts /\ StoppedStay /\ ~Committed(c)
    BY <1>3 DEF PlotterInv, PlotterTypeOK, StoppedStay
  <2>2. cancelled' = cancelled /\ settled' = settled
    BY DEF SendDone
  <2>3. \A d \in Cuts : Committed(d)' = Committed(d)
    BY <2>2 DEF Committed
  <2>4. \A d \in Cuts : Committed(d)' => Committed(d) /\ pc'[d] = pc[d]
    BY <1>2, <2>1, <2>3
  <2>5. stopped' \subseteq stopped
    BY <1>1
  <2>6. ASSUME NEW d \in stopped'
        PROVE  /\ pc'[d] \in {pc[d], "countdown", "failed", "done"}
               /\ pc'[d] = "sending" \/ d \in timers' => pc[d] = "sending" \/ d \in timers
    <3>1. d \in Cuts
      BY <2>1, <2>5, <2>6
    <3>2. CASE d # c
      BY <3>1, <3>2, <1>1, <1>2
    <3>3. CASE d = c
      BY <3>3, <2>6, <1>1, <1>2, <1>3
    <3>4. QED BY <3>2, <3>3
  <2>7. QED BY <2>1, <2>2, <2>3, <2>4, <2>5, <2>6, StoppedKept
<1>8. QED BY <1>4, <1>5, <1>6, <1>7 DEF PlotterInv

LEMMA TickStep ==
    ASSUME PlotterInv, NEW c \in Cuts, Tick(c)
    PROVE  PlotterInv'
<1> USE DEF nativeVars, dartVars, cancelVars, screenVars, paperVars, counters
<1>1. PICK s \in {"failed", "succeeded"} : Go(c, s)
  BY DEF Tick
<1>2. /\ pc' \in [Cuts -> Steps] /\ pc'[c] = s
      /\ \A d \in Cuts \ {c} : pc'[d] = pc[d]
  BY <1>1 DEF PlotterInv, PlotterTypeOK, Go, Steps
<1>3. pc[c] = "countdown"
  BY DEF Tick
<1>4. PlotterTypeOK'
  BY <1>2 DEF PlotterInv, PlotterTypeOK, Tick
<1>5. Written'
  <2>1. \A d \in Cuts : /\ pc'[d] \in {"countdown", "succeeded"} => pc[d] \in {"countdown", "succeeded"}
                        /\ pc[d] = "sending" => pc'[d] = "sending"
    BY <1>2, <1>3
  <2>2. QED BY <2>1, WrittenKept DEF PlotterInv, Tick, Committed, NoneForgotten
<1>6. StrandedByOthers'
  <2>1. resets' \in Nat /\ resets' >= resets
    BY ChunksTyped DEF PlotterInv, PlotterTypeOK, Tick
  <2>2. \A d \in Cuts : /\ pc[d] # "idle" => pc'[d] # "idle"
                        /\ pc'[d] = "countdown" /\ d \notin timers'
                           => pc[d] = "countdown" /\ d \notin timers
    BY <1>2 DEF Tick
  <2>3. QED BY <2>1, <2>2, StrandedKept DEF PlotterInv
<1>7. StoppedStay'
  <2>1. ~Committed(c) /\ (c \in stopped => cancelled)
    BY <1>3 DEF PlotterInv, StoppedStay, Stops, Tick
  <2>2. pc'[c] \in {"failed", "done"} \/ (c \notin stopped /\ ~Committed(c))
    BY <2>1, <1>3 DEF Tick, Go, PlotterInv, PlotterTypeOK
  <2>3. timers' \subseteq timers /\ UNCHANGED <<cancelled, stopped, settled>>
    BY DEF Tick
  <2>4. GoesOn(c)
    BY <1>2, <2>2, <2>3 DEF GoesOn, Committed
  <2>5. QED BY <2>4, StoppedGoesOn
<1>8. QED BY <1>4, <1>5, <1>6, <1>7 DEF PlotterInv

\* The token of a cut is settled, and only a cut that succeeded commits it.
LEMMA SettleCutStep ==
    ASSUME PlotterInv, NEW c \in Cuts, Commit(c) \/ Abort(c)
    PROVE  PlotterInv'
<1> USE DEF nativeVars, dartVars, cancelVars, screenVars, paperVars, counters
<1>1. PICK s \in {"done", "failed"} : Go(c, s)
  BY DEF Commit, Abort, Return
<1>2. /\ UNCHANGED <<sent, again, stream, link, nativeType, dartVars, resetting, paperVars, counters>>
      /\ via' \in [Cuts -> Transports \union {"none"}]
  BY DEF Commit, Abort, Return, PlotterInv, PlotterTypeOK
<1>3. /\ pc' \in [Cuts -> Steps] /\ pc'[c] = s
      /\ \A d \in Cuts \ {c} : pc'[d] = pc[d]
      /\ StrandedByOthers'
  <2>1. s \in Steps \ {"idle", "countdown"}
    BY DEF Steps
  <2>2. QED BY <1>1, <1>2, <2>1, CutMoves
<1>4. /\ settled' \in [Cuts -> SUBSET {"commit", "abort"}]
      /\ \A d \in Cuts : Committed(d)' => Committed(d) \/ pc[d] = "succeeded"
  BY DEF PlotterInv, PlotterTypeOK, Commit, Abort, Report, Committed
<1>5. overlay' \in BOOLEAN /\ mounted' = mounted
  BY DEF PlotterInv, PlotterTypeOK, Commit, Abort, Return
<1>6. PlotterTypeOK'
  BY <1>2, <1>3, <1>4, <1>5 DEF PlotterInv, PlotterTypeOK
<1>7. pc[c] \in {"succeeded", "failed"}
  BY DEF Commit, Abort
<1>8. Written'
  <2>1. \A d \in Cuts : /\ pc'[d] \in {"countdown", "succeeded"} => pc[d] \in {"countdown", "succeeded"}
                        /\ pc[d] = "sending" => pc'[d] = "sending"
    BY <1>3, <1>7
  <2>2. QED BY <1>2, <1>4, <2>1, WrittenKept DEF PlotterInv, NoneForgotten
<1>9. StoppedStay'
  <2>1. \A d \in Cuts :
           Committed(d)' =>
              Committed(d) \/ (pc[d] = "succeeded" /\ pc'[d] \in {"failed", "done"})
    BY <1>1, <1>3 DEF PlotterInv, PlotterTypeOK, Commit, Abort, Report, Committed
  <2>2. GoesOn(c)
    BY <1>1, <1>2, <1>3, <2>1 DEF GoesOn
  <2>3. QED BY <2>2, StoppedGoesOn
<1>10. QED BY <1>3, <1>6, <1>8, <1>9 DEF PlotterInv

LEMMA PlotterInitInv == PlotterInit => PlotterInv
<1> SUFFICES ASSUME PlotterInit
             PROVE  PlotterInv
  OBVIOUS
<1> USE DEF PlotterInit
<1>1. PlotterTypeOK
  <2>1. 0 \in 0..Chunks /\ 0 \in 0..MaxBreaks /\ 0 \in 0..MaxResets /\ "idle" \in Steps
    BY ChunksTyped DEF Steps
  <2>2. link \in [Transports -> {"null", "up", "broken"}]
    OBVIOUS
  <2>3. /\ sent \in [Cuts -> 0..Chunks] /\ pc \in [Cuts -> Steps]
        /\ breaks \in 0..MaxBreaks /\ resets \in 0..MaxResets
    BY <2>1
  <2>4. QED BY <2>2, <2>3 DEF PlotterTypeOK
<1>2. Written
  BY DEF Written, Accounted, Committed
<1>3. StrandedByOthers /\ StoppedStay
  BY DEF StrandedByOthers, Stranded, StoppedStay, Committed
<1>4. QED BY <1>1, <1>2, <1>3 DEF PlotterInv

LEMMA PlotterNextInv == PlotterInv /\ [PlotterNext]_plotterVars => PlotterInv'
<1> SUFFICES ASSUME PlotterInv, [PlotterNext]_plotterVars
             PROVE  PlotterInv'
  OBVIOUS
<1>1. CASE UNCHANGED plotterVars
  <2>1. PlotterTypeOK'
    BY <1>1 DEF PlotterInv, PlotterTypeOK, plotterVars, nativeVars, dartVars, cancelVars, screenVars,
       paperVars, counters
  <2>2. QED BY <1>1, <2>1, PlotterQuiet DEF plotterVars, nativeVars, dartVars, cancelVars, screenVars,
       paperVars, counters, NoneForgotten
<1>2. ASSUME NEW c \in Cuts, StartCut(c)
      PROVE  PlotterInv'
  BY <1>2, StartCutStep
<1>3. ASSUME NEW c \in Cuts, Progress(c)
      PROVE  PlotterInv'
  <2>1. CASE Validate(c) \/ Download(c)
    BY <2>1, ValidateStep
  <2>2. CASE BeginCut(c)
    BY <2>2, BeginCutStep
  <2>3. CASE SendChunk(c)
    BY <2>3, SendChunkStep
  <2>4. CASE ReconnectClassic(c) \/ SendFails(c)
    BY <2>4, ReconnectStep
  <2>5. CASE SendDone(c)
    BY <2>5, SendDoneStep
  <2>6. CASE Tick(c)
    BY <2>6, TickStep
  <2>7. CASE Commit(c) \/ Abort(c)
    BY <2>7, SettleCutStep
  <2>8. QED BY <1>3, <2>1, <2>2, <2>3, <2>4, <2>5, <2>6, <2>7 DEF Progress
<1>4. CASE Reset
  BY <1>4, ResetStep
<1>5. CASE \/ CheckConnection \/ FinishReset \/ LeaveScreen \/ ConnectUsb \/ Disconnect \/ PlugIn
           \/ \E t \in Transports \ {"usb"} : ConnectBluetooth(t)
           \/ \E t \in Transports : LinkBreaks(t)
  BY <1>5, ConnectionStep
<1>6. QED BY <1>1, <1>2, <1>3, <1>4, <1>5 DEF PlotterNext

LEMMA PlotterInvariance == PlotterSpec => []PlotterInv
BY PlotterInitInv, PlotterNextInv, PTL DEF PlotterSpec

\* Type correctness of the phone, PlotterService and MainActivity.
THEOREM PlotterTypesHold == PlotterSpec => []PlotterTypeOK
<1>1. PlotterInv => PlotterTypeOK
  BY DEF PlotterInv
<1>2. QED BY <1>1, PlotterInvariance, PTL

\* A token is committed only for a drawing of which every chunk was written, and went
\* to the plotter unless its connection broke, was closed or is USB: for any number of
\* cuts, chunks, breaks and resets.
THEOREM ChargedHolds == PlotterSpec => []ChargedIsCut
<1>1. PlotterInv => ChargedIsCut
  BY DEF PlotterInv, Written, ChargedIsCut, Accounted
<1>2. QED BY <1>1, PlotterInvariance, PTL

\* A cut waits for a timer that was cancelled only if there was a reset or another
\* cut: what is safety of CutsReported, with the next theorem.
THEOREM StrandedHolds == PlotterSpec => []StrandedByOthers
<1>1. PlotterInv => StrandedByOthers
  BY DEF PlotterInv
<1>2. QED BY <1>1, PlotterInvariance, PTL

\* A cut that has a token does not end (_handleCut returns) without settling it.
THEOREM NoTokenDropped ==
    PlotterSpec => [][\A c \in Cuts : HasToken(c) /\ ~HasToken(c)' => settled'[c] # {}]_plotterVars
<1> DEFINE Kept == \A c \in Cuts : HasToken(c) /\ ~HasToken(c)' => settled'[c] # {}
<1>1. ASSUME PlotterInv, [PlotterNext]_plotterVars, NEW c \in Cuts, HasToken(c), ~HasToken(c)'
      PROVE  settled'[c] # {}
  <2>1. pc'[c] # pc[c] /\ pc[c] \in Steps /\ pc'[c] \in {"idle", "validating", "done"}
    BY <1>1 DEF HasToken, PlotterInv, PlotterTypeOK
  <2>2. PICK d \in Cuts : StartCut(d) \/ Progress(d)
    BY <1>1, <2>1 DEF PlotterNext, plotterVars, CheckConnection, Reset, FinishReset, LeaveScreen,
       ConnectUsb, Disconnect, PlugIn, ConnectBluetooth, LinkBreaks
  <2>3. \A e \in Cuts \ {d} : pc'[e] = pc[e]
    BY <1>1, <2>2 DEF PlotterInv, PlotterTypeOK, Progress, StartCut, Validate, Download, BeginCut,
       StartUsb, StartBluetooth, StartSdk, Thread, SendChunk, ReconnectClassic, SendFails, SendDone,
       Tick, Commit, Abort, Return, Go
  <2>4. d = c
    BY <2>1, <2>3
  <2>5. Commit(c) \/ Abort(c)
    BY <1>1, <2>1, <2>2, <2>4 DEF PlotterInv, PlotterTypeOK, HasToken, Progress, StartCut, Validate,
       Download, BeginCut, StartUsb, StartBluetooth, StartSdk, Thread, SendChunk, ReconnectClassic,
       SendFails, SendDone, Tick, Return, Go
  <2>6. QED
    BY <1>1, <2>1, <2>5 DEF PlotterInv, PlotterTypeOK, HasToken, Commit, Abort, Report, Return, Go
<1>2. PlotterInv /\ [PlotterNext]_plotterVars => [Kept]_plotterVars
  BY <1>1
<1>3. QED BY <1>2, PlotterInvariance, PTL DEF PlotterSpec

\* A cut that a reset met while it was sent or counted down is not charged, unless
\* it has no countdown or a later cut has cleared the flag before it looked.
THEOREM CancelHolds == PlotterSpec => []StoppedNotCharged
<1>1. PlotterInv => StoppedNotCharged
  BY DEF PlotterInv, StoppedStay, Stops, StoppedNotCharged
<1>2. QED BY <1>1, PlotterInvariance, PTL
=============================================================================
