---------------------------- MODULE OrgAccounts ----------------------------
(***************************************************************************)
(* The rows about an organization that the credit services share: its      *)
(* EntityWallet, the CreditTransaction rows of that wallet, the CutCredit  *)
(* rows it owns, the license it works under and whether an unlimited plan  *)
(* is in force.  The services (Recharge, MachineCuts, CutCredits) are      *)
(* modules that extend this one and add their own tables and calls.        *)
(*                                                                         *)
(* The database runs READ COMMITTED: a statement sees what is committed    *)
(* when it runs, {increment: n} applies to the committed row and keeps the *)
(* row locked until the transaction ends.  A request is therefore a few    *)
(* reads, each an action that stores what it saw, and one commit action    *)
(* that applies every write.                                               *)
(***************************************************************************)
EXTENDS Integers, FiniteSets

CONSTANTS
    Orgs,       \* organizations
    Licensed,   \* organizations that hold a license, AVAILABLE at the start
    BindCredits,\* starting balance of a wallet created by bindDevice
    MaxTotal    \* bound: no wallet is credited beyond this many credits

ASSUME OrgAccountsAssumption ==
    /\ Orgs # {} /\ IsFiniteSet(Orgs)
    /\ Licensed \subseteq Orgs
    /\ BindCredits \in Nat
    /\ MaxTotal \in Nat

VARIABLES
    wallet,     \* EntityWallet, by orgId (orgId = tenantId in every wallet)
    journal,    \* the wallet's CreditTransaction rows, summed by kind
    lots,       \* CutCredit rows of an owner: USAGE credits, by license
    license,    \* status of the license the organization works under
    plan,       \* is an UNLIMITED or LIFETIME CutCredit of the tenant in force
    locked      \* wallets a running transaction has updated, not committed

accountVars == <<wallet, journal, lots, license, plan, locked>>

Wallets == [exists: BOOLEAN, balance: Int, totalCredits: Nat, usedCredits: Nat]

\* opening: what the wallet was created with, for which no row is written.
\* credit: CREDIT rows of recharges and grants.  cut: DEBIT rows of machine
\* cuts (positive amounts in the code).  sent: DEBIT rows of transfers
\* (negative amounts).  received: CREDIT rows of transfers.
Journals == [opening: Nat, credit: Nat, cut: Nat, sent: Nat, received: Nat]

\* unassigned: licenseId is null.  assigned: the row names a license.
Lots == [unassigned: Int, assigned: Nat]

\* The OrgLicenseStatus of an organization's license; "barred" stands for
\* SUSPENDED, EXPIRED, REVOKED and IN_TRANSIT, which the credit services treat alike.
LicenseStatus == {"none", "AVAILABLE", "ACTIVE", "barred"}

AccountsTypeOK ==
    /\ wallet \in [Orgs -> Wallets]
    /\ journal \in [Orgs -> Journals]
    /\ lots \in [Orgs -> Lots]
    /\ license \in [Orgs -> LicenseStatus]
    /\ plan \in [Orgs -> BOOLEAN]
    /\ locked \subseteq Orgs

NoWallet == [exists |-> FALSE, balance |-> 0, totalCredits |-> 0, usedCredits |-> 0]

AccountsInit ==
    /\ wallet = [o \in Orgs |-> NoWallet]
    /\ journal = [o \in Orgs |-> [opening |-> 0, credit |-> 0, cut |-> 0,
                            sent |-> 0, received |-> 0]]
    /\ lots = [o \in Orgs |-> [unassigned |-> 0, assigned |-> 0]]
    /\ license = [o \in Orgs |-> IF o \in Licensed THEN "AVAILABLE" ELSE "none"]
    /\ plan = [o \in Orgs |-> FALSE]
    /\ locked = {}

-----------------------------------------------------------------------------
\* What the services write.

\* A wallet, perhaps just created, with n credits more.
Credited(w, n) == [exists |-> TRUE, balance |-> w.balance + n,
                   totalCredits |-> w.totalCredits + n, usedCredits |-> w.usedCredits]

\* Fault: the update of an existing wallet forgets totalCredits.
CreditBalanceOnly(o, n) ==
    /\ wallet' = [wallet EXCEPT ![o].exists = TRUE, ![o].balance = @ + n,
                                ![o].totalCredits = @ + (IF wallet[o].exists THEN 0 ELSE n)]
    /\ journal' = [journal EXCEPT ![o].credit = @ + n]

\* A wallet that has paid for one cut.
Charged(w) == [exists |-> w.exists, balance |-> w.balance - 1,
               totalCredits |-> w.totalCredits, usedCredits |-> w.usedCredits + 1]

\* The wallet update of every recharge and grant, together with its CREDIT
\* row; a wallet that was missing is created by the same transaction.
CreditWallet(o, n) ==
    /\ wallet' = [wallet EXCEPT ![o] = Credited(@, n)]
    /\ journal' = [journal EXCEPT ![o].credit = @ + n]

\* A new CutCredit row of USAGE credits.
AddLot(o, n, named) ==
    lots' = IF named THEN [lots EXCEPT ![o].assigned = @ + n]
                     ELSE [lots EXCEPT ![o].unassigned = @ + n]

\* Room under the bound for n more credits in o's wallet.
Room(o, n) == wallet[o].totalCredits + n <= MaxTotal

-----------------------------------------------------------------------------
\* Steps of other parts of the backend that the credit services observe.

\* License activation or the first login: an AVAILABLE license becomes ACTIVE
\* and ensureEntityWallet creates a missing wallet, empty.
ActivateLicense(o) ==
    /\ license[o] = "AVAILABLE"
    /\ license' = [license EXCEPT ![o] = "ACTIVE"]
    /\ wallet' = [wallet EXCEPT ![o].exists = TRUE]
    /\ UNCHANGED <<journal, lots, plan, locked>>

\* bindDevice: the license becomes ACTIVE unless it is REVOKED, and a missing
\* wallet is created with a starting balance and no CreditTransaction row.
BindDevice(o) ==
    /\ license[o] # "none"
    /\ license' = [license EXCEPT ![o] = "ACTIVE"]
    /\ \/ /\ wallet[o].exists
          /\ UNCHANGED <<wallet, journal>>
       \/ /\ ~wallet[o].exists
          /\ Room(o, BindCredits)
          /\ wallet' = [wallet EXCEPT ![o] = [exists |-> TRUE, balance |-> BindCredits,
                                              totalCredits |-> BindCredits, usedCredits |-> 0]]
          /\ journal' = [journal EXCEPT ![o].opening = BindCredits]
    /\ UNCHANGED <<lots, plan, locked>>

\* updateStatus: an administrator sets any status at any time.
SetLicenseStatus(o, s) ==
    /\ license[o] # "none"
    /\ license' = [license EXCEPT ![o] = s]
    /\ UNCHANGED <<wallet, journal, lots, plan, locked>>

\* The endDate of the unlimited plan passes.
PlanEnds(o) ==
    /\ plan[o]
    /\ plan' = [plan EXCEPT ![o] = FALSE]
    /\ UNCHANGED <<wallet, journal, lots, license, locked>>

AccountsNext ==
    \E o \in Orgs :
        \/ ActivateLicense(o)
        \/ BindDevice(o)
        \/ \E s \in LicenseStatus \ {"none"} : SetLicenseStatus(o, s)
        \/ PlanEnds(o)

-----------------------------------------------------------------------------
Balanced(w, j) ==
    /\ w.balance = w.totalCredits - w.usedCredits - j.sent
    /\ w.totalCredits = j.opening + j.credit + j.received
    /\ w.usedCredits = j.cut
    /\ ~w.exists => w = NoWallet

\* The three counters of a wallet and its CreditTransaction rows agree in
\* every state, whatever the requests that ran side by side: no update is
\* lost and none is applied in part.  (wallet.totalCredits - usedCredits
\* alone is not the balance: a transfer out lowers the balance only.)
LedgerBalanced == \A o \in Orgs : Balanced(wallet[o], journal[o])
=============================================================================
