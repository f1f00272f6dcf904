---------------------------- MODULE CreditLedger ----------------------------
(***************************************************************************)
(* The credit services running together on the same rows: recharges, cuts, *)
(* grants and transfers interleave at every read and every commit.         *)
(***************************************************************************)
EXTENDS Recharge, MachineCuts, CutCredits, FiniteSetsExt

\* A dispatch asks for no more than the largest amount.
ASSUME CreditLedgerAssumption == Amounts # {} /\ IsFiniteSet(Amounts)

vars == <<accountVars, rechargeVars, cutVars, creditVars>>

Init == AccountsInit /\ RechargeInit /\ CutsInit /\ CreditsInit

Next ==
    \/ RechargeStep /\ UNCHANGED <<cutVars, creditVars>>
    \/ CutsStep /\ UNCHANGED <<rechargeVars, creditVars>>
    \/ CreditsStep /\ UNCHANGED <<rechargeVars, cutVars>>
    \/ AccountsNext /\ UNCHANGED <<rechargeVars, cutVars, creditVars>>

Spec == Init /\ [][Next]_vars

-----------------------------------------------------------------------------
\* What the balance checks that were passed may still take from o's wallet.
Owed(c, o) ==
    IF creditCall[c].pc # "idle" /\ creditCall[c].from = o THEN creditCall[c].amount ELSE 0
Pending(o) ==
    Cardinality(Charging(o)) + SumFunctionOnSet([c \in CreditCalls |-> Owed(c, o)], CreditCalls)

\* Cuts and transfers that overlap can overdraw a wallet, but never by more
\* than all calls but one could be charging at once.
JointOverdraftBounded ==
    \A o \in Orgs :
        wallet[o].balance - Pending(o)
            >= 1 - (Cardinality(CutCalls) + Cardinality(CreditCalls) * Max(Amounts))
=============================================================================
