----------------------------- MODULE CutCredits -----------------------------
(***************************************************************************)
(* Granting credits and plans (issueCutCredits) and moving credits from    *)
(* one organization to another (dispatch).  A dispatch makes two checks,   *)
(* takes the wallet, and only then reads the rows it deducts from.         *)
(***************************************************************************)
EXTENDS OrgAccounts, Functions

CONSTANTS
    TopOrgs,        \* organizations without a parent
    CreditCalls,    \* dispatch transactions in flight
    Amounts         \* the credits a request may ask for

ASSUME CutCreditsAssumption ==
    /\ TopOrgs \subseteq Orgs
    /\ IsFiniteSet(CreditCalls)
    /\ Amounts \subseteq Nat \ {0}

VARIABLES creditCall    \* what each running transaction has read

creditVars == <<creditCall>>

\* "funded": the balance was checked.  "covered": so were the unassigned rows.
\* "moving": the sender's wallet is locked and its rows are read; deduct is
\* what they will give.
CreditCallStates ==
    [pc: {"idle", "funded", "covered", "moving"}, from: Orgs, to: Orgs,
     amount: Nat, deduct: Nat]

CreditsTypeOK == creditCall \in [CreditCalls -> CreditCallStates]

CreditsSystemTypeOK == AccountsTypeOK /\ CreditsTypeOK

AnOrg == CHOOSE o \in Orgs : TRUE
NoCredit == [pc |-> "idle", from |-> AnOrg, to |-> AnOrg, amount |-> 0, deduct |-> 0]

CreditsInit == creditCall = [c \in CreditCalls |-> NoCredit]

Lower(m, n) == IF m < n THEN m ELSE n

-----------------------------------------------------------------------------
\* issueCutCredits: USAGE credits are minted only for a top-level organization,
\* unless they are an offer; an UNLIMITED or LIFETIME plan carries no credits.
\* The organization is looked up before the transaction, but nothing it reads
\* changes here; every write is an insert or an increment, so the request acts
\* at its commit.  (One that loses the race to create the wallet does nothing.)
IssueCutCredits(o, n, usage, offer, named) ==
    /\ usage /\ ~offer => o \in TopOrgs
    /\ usage <=> n > 0
    /\ o \notin locked
    /\ Room(o, n)
    /\ CreditWallet(o, n)
    /\ AddLot(o, n, named)
    /\ plan' = [plan EXCEPT ![o] = @ \/ ~usage]
    /\ UNCHANGED <<license, locked, creditCall>>

-----------------------------------------------------------------------------
\* Fault: the balance is not compared with the amount.
CheckWallet(c, from, to, n) ==
    /\ creditCall[c].pc = "idle"
    /\ wallet[from].exists
    /\ creditCall' = [creditCall EXCEPT ![c] =
           [NoCredit EXCEPT !.pc = "funded", !.from = from, !.to = to, !.amount = n]]
    /\ UNCHANGED accountVars

\* dispatch, first check: the sender's balance.
CheckBalance(c, from, to, n) ==
    /\ creditCall[c].pc = "idle"
    /\ wallet[from].exists
    /\ wallet[from].balance >= n
    /\ creditCall' = [creditCall EXCEPT ![c] =
           [NoCredit EXCEPT !.pc = "funded", !.from = from, !.to = to, !.amount = n]]
    /\ UNCHANGED accountVars

\* Second check: credits assigned to a license cannot be transferred, so the
\* sender's unassigned rows must cover the amount.
CheckUnassigned(c) ==
    LET r == creditCall[c] IN
    /\ r.pc = "funded"
    /\ creditCall' = [creditCall EXCEPT ![c] =
           IF lots[r.from].unassigned >= r.amount THEN [r EXCEPT !.pc = "covered"]
                                                   ELSE NoCredit]
    /\ UNCHANGED accountVars

\* Fault: the rows are read by the second check, before the lock is held.
TakeWalletLate(c) ==
    LET r == creditCall[c] IN
    /\ r.pc = "covered"
    /\ r.from \notin locked
    /\ locked' = locked \cup {r.from}
    /\ creditCall' = [creditCall EXCEPT ![c] =
           [r EXCEPT !.pc = "moving", !.deduct = r.amount]]
    /\ UNCHANGED <<wallet, journal, lots, license, plan>>

\* Fault: the loop over the rows ends with the first one that gives a credit.
TakeWalletFirstRow(c) ==
    LET r == creditCall[c] IN
    /\ r.pc = "covered"
    /\ r.from \notin locked
    /\ locked' = locked \cup {r.from}
    /\ creditCall' = [creditCall EXCEPT ![c] =
           [r EXCEPT !.pc = "moving", !.deduct = Lower(lots[r.from].unassigned, 1)]]
    /\ UNCHANGED <<wallet, journal, lots, license, plan>>

\* The decrement takes the row lock on the sender's wallet; under it the rows
\* are read and the deduction is spread over them, as far as they go.
TakeWallet(c) ==
    LET r == creditCall[c] IN
    /\ r.pc = "covered"
    /\ r.from \notin locked
    /\ locked' = locked \cup {r.from}
    /\ creditCall' = [creditCall EXCEPT ![c] =
           [r EXCEPT !.pc = "moving",
                     !.deduct = Lower(lots[r.from].unassigned, r.amount)]]
    /\ UNCHANGED <<wallet, journal, lots, license, plan>>

\* A wallet that has sent n credits away, and the sender's side of a transfer.
Debited(w, n) == [exists |-> w.exists, balance |-> w.balance - n,
                  totalCredits |-> w.totalCredits, usedCredits |-> w.usedCredits]
Debit(from, n) == [wallet EXCEPT ![from] = Debited(@, n)]
Deduct(from, n) == [lots EXCEPT ![from].unassigned = @ - n]

\* Fault: the receiver gets what the rows gave, the sender loses the amount.
MoveDeducted(c) ==
    LET r == creditCall[c] IN
    /\ r.pc = "moving"
    /\ r.to \notin locked \ {r.from}
    /\ Room(r.to, r.amount)
    /\ wallet' = [wallet EXCEPT ![r.from].balance = @ - r.amount, ![r.to].exists = TRUE,
                                ![r.to].balance = @ + r.deduct, ![r.to].totalCredits = @ + r.deduct]
    /\ journal' = [journal EXCEPT ![r.from].sent = @ + r.amount, ![r.to].received = @ + r.deduct]
    /\ lots' = [lots EXCEPT ![r.from].unassigned = @ - r.deduct, ![r.to].unassigned = @ + r.deduct]
    /\ locked' = locked \ {r.from}
    /\ creditCall' = [creditCall EXCEPT ![c] = NoCredit]
    /\ UNCHANGED <<license, plan>>

\* The commit: both wallets, both CreditTransaction rows, the sender's rows and
\* a new unassigned row for the receiver.  A receiver without a wallet gets one.
CommitDispatch(c) ==
    LET r == creditCall[c] IN
    /\ r.pc = "moving"
    /\ r.to \notin locked \ {r.from}
    /\ Room(r.to, r.amount)
    /\ wallet' = [Debit(r.from, r.amount) EXCEPT ![r.to] = Credited(@, r.amount)]
    /\ journal' = [journal EXCEPT ![r.from].sent = @ + r.amount,
                                  ![r.to].received = @ + r.amount]
    /\ lots' = [Deduct(r.from, r.deduct) EXCEPT ![r.to].unassigned = @ + r.amount]
    /\ locked' = locked \ {r.from}
    /\ creditCall' = [creditCall EXCEPT ![c] = NoCredit]
    /\ UNCHANGED <<license, plan>>

\* A rollback at any point: a lost connection, a restart, a constraint, or the
\* database breaking a cycle of transactions that wait for each other.
LoseCredit(c) ==
    LET r == creditCall[c] IN
    /\ r.pc # "idle"
    /\ locked' = IF r.pc = "moving" THEN locked \ {r.from} ELSE locked
    /\ creditCall' = [creditCall EXCEPT ![c] = NoCredit]
    /\ UNCHANGED <<wallet, journal, lots, license, plan>>

-----------------------------------------------------------------------------
CreditsStep ==
    \/ \E o \in Orgs, n \in Amounts \cup {0}, u, f, b \in BOOLEAN :
          IssueCutCredits(o, n, u, f, b)
    \/ \E c \in CreditCalls :
        \/ \E from, to \in Orgs, n \in Amounts : CheckBalance(c, from, to, n)
        \/ CheckUnassigned(c)
        \/ TakeWallet(c)
        \/ CommitDispatch(c)
        \/ LoseCredit(c)

\* In this module on its own a cut lowers a balance from outside.
CutArrives(o) ==
    /\ wallet[o].balance > 0
    /\ o \notin locked
    /\ wallet' = [wallet EXCEPT ![o] = Charged(@)]
    /\ journal' = [journal EXCEPT ![o].cut = @ + 1]
    /\ UNCHANGED <<lots, license, plan, locked>>

CreditsNext ==
    \/ CreditsStep
    \/ (AccountsNext \/ \E o \in Orgs : CutArrives(o)) /\ UNCHANGED creditVars

CreditsSystemInit == AccountsInit /\ CreditsInit
creditsSystemVars == <<accountVars, creditVars>>
CreditsSpec == CreditsSystemInit /\ [][CreditsNext]_creditsSystemVars

-----------------------------------------------------------------------------
\* No CutCredit row is driven below zero, although dispatches of the same
\* sender overlap and each spreads its deduction over rows it read: the wallet
\* lock is taken before the rows are read.
RowsNonNegative == \A o \in Orgs : lots[o].unassigned >= 0

\* A wallet is locked exactly while one dispatch of that sender is moving.
LockHeldByMover ==
    /\ \A c, d \in CreditCalls :
          creditCall[c].pc = "moving" /\ creditCall[d].pc = "moving"
          /\ creditCall[c].from = creditCall[d].from => c = d
    /\ locked = {creditCall[c].from : c \in {d \in CreditCalls : creditCall[d].pc = "moving"}}

\* A transfer never deducts more from the sender's rows than is still there
\* when it commits, whatever was granted or moved since it read them.
DeductionCovered ==
    \A c \in CreditCalls :
        creditCall[c].pc = "moving" =>
            creditCall[c].deduct <= lots[creditCall[c].from].unassigned

\* The rows stay covered: what keeps them non-negative in every interleaving.
RowsCovered == RowsNonNegative /\ LockHeldByMover /\ DeductionCovered

\* Transfers neither make nor lose credits: what the senders' wallets were
\* debited is what the receivers' were credited, over all organizations.
TransfersConserved ==
    SumFunctionOnSet([o \in Orgs |-> journal[o].sent], Orgs)
        = SumFunctionOnSet([o \in Orgs |-> journal[o].received], Orgs)

\* The credits in an organization's rows beyond what it was granted and has
\* received and not sent: what dispatches did not find in the rows.
Excess(o) ==
    lots[o].unassigned + lots[o].assigned + journal[o].sent
        - journal[o].credit - journal[o].received

\* Every dispatch takes what it sends out of the sender's rows, or, when another
\* dispatch has been there since the check, everything that is left of them:
\* rows never back fewer credits than the wallet was given, and they come to
\* back more only where a sender's unassigned rows are all used up, except for
\* what the same step adds to them.  (That a short deduction still sends the
\* full amount is what the code does.)
RowsTakenInFull ==
    [][\A o \in Orgs :
          /\ Excess(o)' >= Excess(o)
          /\ Excess(o)' > Excess(o) =>
                lots'[o].unassigned = journal'[o].received - journal[o].received
      ]_creditsSystemVars
=============================================================================
