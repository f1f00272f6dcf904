---------------------------- MODULE MachineCuts ----------------------------
(***************************************************************************)
(* Cutting: validateCut checks license and funds and signs a cut token;    *)
(* logCut, up to 15 minutes later and as often as it is called, records    *)
(* the cut and charges one credit.  What the token says about the plan is  *)
(* not looked up again.                                                    *)
(***************************************************************************)
EXTENDS OrgAccounts

CONSTANTS
    Tokens,     \* cut tokens, one per validateCut request
    CutCalls,   \* logCut transactions in flight
    MaxFree     \* bound: uncharged MachineCutLog rows of an organization

ASSUME MachineCutsAssumption == IsFiniteSet(CutCalls) /\ CutCalls # {} /\ MaxFree \in Nat

VARIABLES
    token,      \* validateCut requests and the tokens they return
    cutCall,    \* running logCut transactions that have read a balance
    logs        \* MachineCutLog rows: due a credit, and free of charge

cutVars == <<token, cutCall, logs>>

\* funded: the balance check passed.  unlimited, calibration: the claims the
\* token carries.
TokenStates == [state: {"none", "licensed", "valid", "expired"}, org: Orgs,
                funded: BOOLEAN, unlimited: BOOLEAN, calibration: BOOLEAN]

\* The organization whose balance a call has read, if it is running.
CutCallStates == [running: BOOLEAN, org: Orgs]

CutsTypeOK ==
    /\ token \in [Tokens -> TokenStates]
    /\ cutCall \in [CutCalls -> CutCallStates]
    /\ logs \in [Orgs -> [due: Nat, free: Nat]]

CutsSystemTypeOK == AccountsTypeOK /\ CutsTypeOK

AnyOrg == CHOOSE o \in Orgs : TRUE
NoToken == [state |-> "none", org |-> AnyOrg, funded |-> FALSE,
            unlimited |-> FALSE, calibration |-> FALSE]
NoCut == [running |-> FALSE, org |-> AnyOrg]

CutsInit ==
    /\ token = [t \in Tokens |-> NoToken]
    /\ cutCall = [c \in CutCalls |-> NoCut]
    /\ logs = [o \in Orgs |-> [due |-> 0, free |-> 0]]

-----------------------------------------------------------------------------
\* validateCut, part 1: the license, when the request names one, is ACTIVE and
\* belongs to the organization; then the wallet is read.  A calibration cut
\* needs neither wallet nor balance.
CheckLicenseAndWallet(t, o, named, calibration) ==
    /\ token[t].state = "none"
    /\ named => license[o] = "ACTIVE"
    /\ calibration \/ wallet[o].exists
    /\ token' = [token EXCEPT ![t] = [state |-> "licensed", org |-> o,
                                      funded |-> wallet[o].balance > 0,
                                      unlimited |-> FALSE, calibration |-> calibration]]
    /\ UNCHANGED <<accountVars, cutCall, logs>>

\* Part 2: the plan in force decides, then the token is signed or refused.
IssueToken(t) ==
    /\ token[t].state = "licensed"
    /\ token' = IF token[t].calibration \/ plan[token[t].org] \/ token[t].funded
                THEN [token EXCEPT ![t].state = "valid", ![t].unlimited = plan[token[t].org]]
                ELSE [token EXCEPT ![t] = NoToken]
    /\ UNCHANGED <<accountVars, cutCall, logs>>

\* 15 minutes pass.
ExpireToken(t) ==
    /\ token[t].state = "valid"
    /\ token' = [token EXCEPT ![t] = [NoToken EXCEPT !.state = "expired"]]
    /\ UNCHANGED <<accountVars, cutCall, logs>>

-----------------------------------------------------------------------------
\* Only positive cuts are charged, and only under a token without exemption.
Exempt(t) == token[t].unlimited \/ token[t].calibration

\* logCut of a cut that costs nothing: one insert.
LogFree(t, positive) ==
    LET o == token[t].org IN
    /\ token[t].state = "valid"
    /\ ~positive \/ Exempt(t)
    /\ logs[o].free < MaxFree
    /\ logs' = [logs EXCEPT ![o].free = @ + 1]
    /\ UNCHANGED <<accountVars, token, cutCall>>

\* Fault: the balance is not looked at.
ReadNoBalance(c, t) ==
    /\ ~cutCall[c].running
    /\ token[t].state = "valid"
    /\ ~Exempt(t)
    /\ cutCall' = [cutCall EXCEPT ![c] = [running |-> TRUE, org |-> token[t].org]]
    /\ UNCHANGED <<accountVars, token, logs>>

\* logCut of a cut that costs a credit: the row is inserted and the balance
\* read; a balance that is not positive refuses the cut and undoes the insert.
ReadBalance(c, t) ==
    /\ ~cutCall[c].running
    /\ token[t].state = "valid"
    /\ ~Exempt(t)
    /\ wallet[token[t].org].balance > 0
    /\ cutCall' = [cutCall EXCEPT ![c] = [running |-> TRUE, org |-> token[t].org]]
    /\ UNCHANGED <<accountVars, token, logs>>

\* Its commit: decrement balance, increment usedCredits, DEBIT row, log row.
ChargeCut(c) ==
    LET o == cutCall[c].org IN
    /\ cutCall[c].running
    /\ o \notin locked
    /\ wallet' = [wallet EXCEPT ![o] = Charged(@)]
    /\ journal' = [journal EXCEPT ![o].cut = @ + 1]
    /\ logs' = [logs EXCEPT ![o].due = @ + 1]
    /\ cutCall' = [cutCall EXCEPT ![c] = NoCut]
    /\ UNCHANGED <<lots, license, plan, locked, token>>

\* Fault: the log row is inserted outside the transaction and stays.
LoseChargeOnly(c) ==
    /\ cutCall[c].running
    /\ cutCall' = [cutCall EXCEPT ![c] = NoCut]
    /\ logs' = [logs EXCEPT ![cutCall[c].org].due = @ + 1]
    /\ UNCHANGED <<accountVars, token>>

\* Its rollback: connection lost, server restarted, transaction timed out.
LoseCut(c) ==
    /\ cutCall[c].running
    /\ cutCall' = [cutCall EXCEPT ![c] = NoCut]
    /\ UNCHANGED <<accountVars, token, logs>>

-----------------------------------------------------------------------------
CutsStep ==
    \/ \E t \in Tokens :
          \/ \E o \in Orgs, n, b \in BOOLEAN : CheckLicenseAndWallet(t, o, n, b)
          \/ IssueToken(t)
          \/ ExpireToken(t)
          \/ \E p \in BOOLEAN : LogFree(t, p)
          \/ \E c \in CutCalls : ReadBalance(c, t)
    \/ \E c \in CutCalls : ChargeCut(c) \/ LoseCut(c)

\* In this module on its own, grants arrive from outside: credits or a plan.
GrantArrives(o) ==
    /\ \/ Room(o, 1) /\ CreditWallet(o, 1) /\ UNCHANGED plan
       \/ plan' = [plan EXCEPT ![o] = TRUE] /\ UNCHANGED <<wallet, journal>>
    /\ UNCHANGED <<lots, license, locked>>

CutsNext ==
    \/ CutsStep
    \/ (AccountsNext \/ \E o \in Orgs : GrantArrives(o)) /\ UNCHANGED cutVars

CutsSystemInit == AccountsInit /\ CutsInit
cutsSystemVars == <<accountVars, cutVars>>
CutsSpec == CutsSystemInit /\ [][CutsNext]_cutsSystemVars

-----------------------------------------------------------------------------
Charging(o) == {c \in CutCalls : cutCall[c].running /\ cutCall[c].org = o}

\* The wallet is charged for exactly the logged cuts that are due a credit:
\* no cut is logged unpaid, none is paid and not logged, whatever dies between
\* the insert and the commit.
CutsChargedExactly == \A o \in Orgs : wallet[o].usedCredits = logs[o].due

\* Simultaneous logCut calls can each see the last credit, but they cannot
\* take a wallet further below zero than their number less one; what is still
\* to be charged is counted already.
OverdraftBounded ==
    \A o \in Orgs :
        wallet[o].balance - Cardinality(Charging(o)) >= 1 - Cardinality(CutCalls)
=============================================================================
