------------------------------ MODULE Recharge ------------------------------
(***************************************************************************)
(* Recharging a wallet through the payment gateway: createOrder, the       *)
(* client's verifyPayment, the gateway's webhook and the administration of *)
(* packages.  The gateway calls back as often as it likes, in parallel     *)
(* with the client, and a transaction may die before it commits.           *)
(***************************************************************************)
EXTENDS OrgAccounts, Functions

CONSTANTS
    Packages,       \* RechargePackage rows
    UsagePackages,  \* those with planType USAGE; the others are UNLIMITED
    Offers,         \* the credits an administrator may give a package
    Orders,         \* PaymentTransaction rows, by razorpayOrderId
    Calls,          \* verifyPayment and webhook requests in flight
    Distributor,    \* recharge_distributor_id: owner of the CutCredit rows
    MaxLost         \* bound: how many transactions may die uncommitted

ASSUME RechargeAssumption ==
    /\ Packages # {} /\ Orders # {} /\ IsFiniteSet(Orders) /\ IsFiniteSet(Calls)
    /\ UsagePackages \subseteq Packages
    /\ Offers \subseteq Nat
    /\ Distributor \in Orgs
    /\ MaxLost \in Nat

VARIABLES
    package,    \* RechargePackage: isActive and credits
    order,      \* PaymentTransaction rows, with what the gateway knows
    call,       \* what each running transaction has read
    lost        \* transactions that died so far

rechargeVars == <<package, order, call, lost>>

\* status "none": no row yet.  paid: the gateway captured the money.
\* rows, credited: the CutCredit rows that name this order, and their sum.
OrderRows == [status: {"none", "PENDING", "SUCCESS"}, org: Orgs, package: Packages,
              paid: BOOLEAN, rows: Nat, credited: Nat]

\* credits: transaction.package.credits as read with the order (0 unless USAGE).
CallStates == [pc: {"idle", "read", "crediting"}, order: Orders, credits: Nat,
               hasWallet: BOOLEAN, licensed: BOOLEAN]

RechargeTypeOK ==
    /\ package \in [Packages -> [active: BOOLEAN, credits: Nat]]
    /\ order \in [Orders -> OrderRows]
    /\ call \in [Calls -> CallStates]
    /\ lost \in 0..MaxLost

RechargeSystemTypeOK == AccountsTypeOK /\ RechargeTypeOK

\* A transaction that is not running holds nothing.
Idle == [pc |-> "idle", order |-> CHOOSE i \in Orders : TRUE, credits |-> 0,
         hasWallet |-> FALSE, licensed |-> FALSE]

RechargeInit ==
    /\ package \in [Packages -> [active: {TRUE}, credits: Offers]]
    /\ order = [i \in Orders |-> [status |-> "none", org |-> Distributor,
                                  package |-> CHOOSE p \in Packages : TRUE,
                                  paid |-> FALSE, rows |-> 0, credited |-> 0]]
    /\ call = [c \in Calls |-> Idle]
    /\ lost = 0

\* What a package is worth to the wallet.
Worth(p) == IF p \in UsagePackages THEN package[p].credits ELSE 0

-----------------------------------------------------------------------------
\* createOrder: an AVAILABLE license is activated first, and stays so when the
\* package is refused or the gateway fails and no order is recorded.
CreateOrder(i, o, p) ==
    /\ order[i].status = "none"
    /\ license[o] \in {"ACTIVE", "AVAILABLE"}
    /\ license' = [license EXCEPT ![o] = "ACTIVE"]
    /\ \/ /\ package[p].active
          /\ order' = [order EXCEPT ![i].status = "PENDING", ![i].org = o,
                                    ![i].package = p]
       \/ UNCHANGED order
    /\ UNCHANGED <<wallet, journal, lots, plan, locked, package, call, lost>>

\* updatePackage, also of a package that pending orders refer to.  (Only the
\* credits of a USAGE package are ever read.)
UpdatePackage(p, n, active) ==
    /\ package' = [package EXCEPT ![p] = [active |-> active, credits |-> n]]
    /\ UNCHANGED <<accountVars, order, call, lost>>

\* The customer pays at the gateway, which can now sign for the order.
Pay(i) ==
    /\ order[i].status = "PENDING"
    /\ order' = [order EXCEPT ![i].paid = TRUE]
    /\ UNCHANGED <<accountVars, package, call, lost>>

-----------------------------------------------------------------------------
\* Fault: the handler does not look at the order's status.
ReadAnyOrder(c, i) ==
    /\ call[c].pc = "idle"
    /\ order[i].paid
    /\ call' = [call EXCEPT ![c].pc = "read", ![c].order = i,
                            ![c].credits = Worth(order[i].package)]
    /\ UNCHANGED <<accountVars, package, order, lost>>

\* Fault: the package's credits are taken without a look at its planType.
ReadOrderAnyPlan(c, i) ==
    /\ call[c].pc = "idle"
    /\ order[i].paid
    /\ order[i].status # "SUCCESS"
    /\ call' = [call EXCEPT ![c].pc = "read", ![c].order = i,
                            ![c].credits = package[order[i].package].credits]
    /\ UNCHANGED <<accountVars, package, order, lost>>

\* verifyPayment and the webhook handler run the same transaction.  They begin
\* by reading the order; one that reads SUCCESS is done ('Already processed').
ReadOrder(c, i) ==
    /\ call[c].pc = "idle"
    /\ order[i].paid
    /\ order[i].status # "SUCCESS"
    /\ call' = [call EXCEPT ![c].pc = "read", ![c].order = i,
                            ![c].credits = Worth(order[i].package)]
    /\ UNCHANGED <<accountVars, package, order, lost>>

\* Fault: the status is committed ahead of the credits.
CommitStatus(c) ==
    LET i == call[c].order
        o == order[i].org
    IN
    /\ call[c].pc = "read"
    /\ \A d \in Calls : ~(call[d].pc = "crediting" /\ call[d].order = i)
    /\ call' = [call EXCEPT ![c].pc = "crediting", ![c].hasWallet = wallet[o].exists,
                            ![c].licensed = (license[o] = "ACTIVE")]
    /\ order' = [order EXCEPT ![i].status = "SUCCESS"]
    /\ UNCHANGED <<accountVars, package, lost>>

\* The status update locks the order's row until the transaction ends, so a
\* second call waits here; then the wallet and the active license are read.
UpdateStatus(c) ==
    LET o == order[call[c].order].org IN
    /\ call[c].pc = "read"
    /\ \A d \in Calls : ~(call[d].pc = "crediting" /\ call[d].order = call[c].order)
    /\ call' = [call EXCEPT ![c].pc = "crediting",
                            ![c].hasWallet = wallet[o].exists,
                            ![c].licensed = (license[o] = "ACTIVE")]
    /\ UNCHANGED <<accountVars, package, order, lost>>

\* Fault: a wallet that is missing is not created.
CreditKnownWallet(c) ==
    LET i == call[c].order
        o == order[i].org
        n == call[c].credits
    IN
    /\ call[c].pc = "crediting"
    /\ o \notin locked
    /\ Room(o, n)
    /\ order' = [order EXCEPT ![i].status = "SUCCESS", ![i].rows = @ + 1,
                              ![i].credited = @ + n]
    /\ IF call[c].hasWallet THEN CreditWallet(o, n) ELSE UNCHANGED <<wallet, journal>>
    /\ AddLot(Distributor, n, call[c].licensed)
    /\ plan' = [plan EXCEPT ![o] = @ \/ order[i].package \notin UsagePackages]
    /\ call' = [call EXCEPT ![c] = Idle]
    /\ UNCHANGED <<license, locked, package, lost>>

\* The writes of the transaction become visible.  Creating a wallet that has
\* appeared meanwhile violates the unique orgId, which CreditOrder excludes:
\* the transaction is then lost (LoseCall).
CreditOrder(c) ==
    LET i == call[c].order
        o == order[i].org
        n == call[c].credits
    IN
    /\ call[c].pc = "crediting"
    /\ call[c].hasWallet = wallet[o].exists
    /\ o \notin locked
    /\ Room(o, n)
    /\ order' = [order EXCEPT ![i].status = "SUCCESS", ![i].rows = @ + 1,
                              ![i].credited = @ + n]
    /\ CreditWallet(o, n)
    /\ AddLot(Distributor, n, call[c].licensed)
    /\ plan' = [plan EXCEPT ![o] = @ \/ order[i].package \notin UsagePackages]
    /\ call' = [call EXCEPT ![c] = Idle]
    /\ UNCHANGED <<license, locked, package, lost>>

\* A rollback: the connection drops, the server restarts, the transaction
\* times out, or it violates a constraint.  Nothing it wrote remains.
LoseCall(c) ==
    /\ call[c].pc # "idle"
    /\ \/ /\ lost < MaxLost
          /\ lost' = lost + 1
       \/ /\ call[c].pc = "crediting"
          /\ ~call[c].hasWallet /\ wallet[order[call[c].order].org].exists
          /\ UNCHANGED lost
    /\ call' = [call EXCEPT ![c] = Idle]
    /\ UNCHANGED <<accountVars, package, order>>

-----------------------------------------------------------------------------
CallStep(c) ==
    \/ \E i \in Orders : ReadOrder(c, i)
    \/ UpdateStatus(c)
    \/ CreditOrder(c)
    \/ LoseCall(c)

RechargeStep ==
    \/ \E i \in Orders, o \in Orgs, p \in Packages : CreateOrder(i, o, p)
    \/ \E p \in UsagePackages, n \in Offers, b \in BOOLEAN : UpdatePackage(p, n, b)
    \/ \E i \in Orders : Pay(i)
    \/ \E c \in Calls : CallStep(c)

RechargeNext ==
    \/ RechargeStep
    \/ AccountsNext /\ UNCHANGED rechargeVars

RechargeSystemInit == AccountsInit /\ RechargeInit
rechargeSystemVars == <<accountVars, rechargeVars>>
RechargeSpec == RechargeSystemInit /\ [][RechargeNext]_rechargeSystemVars

\* The server finishes what it started, and the gateway delivers its webhook
\* again until it is answered.  Nothing obliges users or administrators.
RechargeFairness ==
    /\ \A i \in Orders : WF_rechargeSystemVars(\E c \in Calls : ReadOrder(c, i))
    /\ \A c \in Calls : WF_rechargeSystemVars(UpdateStatus(c)) /\ WF_rechargeSystemVars(CreditOrder(c) \/ LoseCall(c))

FairRechargeSpec == RechargeSpec /\ RechargeFairness

-----------------------------------------------------------------------------
InFlight(i) == {c \in Calls : call[c].pc # "idle" /\ call[c].order = i}

\* What each order added to the rows, and to the wallet of organization o.
CreditedRows == [i \in Orders |-> order[i].credited]
CreditedTo(o) == [i \in Orders |-> IF order[i].org = o THEN order[i].credited ELSE 0]

\* Every recharge reaches three tables in step: what the wallet was credited
\* is what the history rows of the organization's orders add up to, and the
\* owner of those rows holds exactly the sum.  Packages may be edited while
\* transactions that already read them are running.
RechargesAccounted ==
    /\ \A o \in Orgs : journal[o].credit = SumFunctionOnSet(CreditedTo(o), Orders)
    /\ lots[Distributor].unassigned + lots[Distributor].assigned
          = SumFunctionOnSet(CreditedRows, Orders)

\* An order can be credited again only by calls that overlapped the first one:
\* the number of credits and the calls still running for it never exceed the
\* number of simultaneous calls.
OvercreditBounded ==
    \A i \in Orders : order[i].rows + Cardinality(InFlight(i)) <= Cardinality(Calls)

\* Once an order is SUCCESS no later call can credit it: the credits it has
\* and those still on their way only go down.
SuccessAdmitsNoNewCredit ==
    [][\A i \in Orders : order[i].status = "SUCCESS" =>
          /\ order'[i].status = "SUCCESS"
          /\ InFlight(i)' \subseteq InFlight(i)]_rechargeSystemVars

\* Money that was captured ends up in the wallet, although transactions may
\* die, two first recharges may collide on creating the wallet, and the client
\* may never call back.
PaidIsCredited ==
    \A i \in Orders : order[i].paid ~> (order[i].status = "SUCCESS" /\ order[i].rows > 0)
=============================================================================
