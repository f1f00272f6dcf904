---------------------------- MODULE LegacyCredits ----------------------------
(***************************************************************************)
(* The migration of the legacy cut credits: each legacy grant becomes a    *)
(* CutCredit row with an id made from the legacy id, credits in the wallet *)
(* of its dealer's organization and a CREDIT transaction; what the dealer  *)
(* had used is deducted with the first grant a run imports for it.  A run  *)
(* of the database job and one of an uploaded file may overlap, and the    *)
(* clean that empties the four tables may overlap both.                    *)
(***************************************************************************)
EXTENDS Integers, Sequences, FiniteSets, FiniteSetsExt

CONSTANTS
    Dealers,     \* dealers of the legacy system
    HQ,          \* the organization that stands in for an unknown dealer
    Runs,        \* runs that may overlap: the database job, the upload
    Allocation,  \* credits of a legacy grant
    Usage,       \* credits a dealer has used
    MaxGrants,   \* bound: legacy grants
    MaxStarts,   \* bound: runs started
    MaxCleans,   \* bound: cleans started
    MaxLosses    \* bound: transactions rolled back

ASSUME LegacyCreditsAssumption ==
    /\ IsFiniteSet(Dealers) /\ IsFiniteSet(Runs)
    /\ HQ \notin Dealers /\ "none" \notin Dealers \union {HQ}
    /\ Allocation \in Nat \ {0} /\ Usage \in Nat \ {0}
    /\ MaxGrants \in Nat \ {0}
    /\ MaxStarts \in Nat /\ MaxCleans \in Nat /\ MaxLosses \in Nat

VARIABLES
    dealer,    \* the dealer of each legacy grant, in the order of their ids
    orgs,      \* dealers whose organization has been imported
    owner,     \* owner of the CutCredit row of a grant, or NoOrg
    backed,    \* grants whose CutCredit row has its LegacyCutCredit row
    wallet,    \* [balance, used] of an organization, or NoWallet
    credited,  \* CREDIT transactions of each grant, by the wallet's organization
    deducted,  \* DEBIT transactions of each dealer's usage, by the wallet's
    run,
    clean,     \* the statement a clean has to execute next, or "idle"
    late,      \* history: dealers imported after a grant of theirs
    forgiven,  \* history: dealers whose usage was lost with a transaction
    torn,      \* history: a clean stopped half-way, or met an import
    starts, cleans, losses

journal == <<credited, deducted>>
tables == <<owner, backed, wallet, journal>>
history == <<late, forgiven, torn>>
bounds == <<starts, cleans, losses>>
vars == <<dealer, orgs, tables, run, clean, history, bounds>>

Grants == 1..MaxGrants
Legacy == 1..Len(dealer)
Orgs == Dealers \union {HQ}
NoOrg == "none"
NoWallet == [balance |-> 0, used |-> -1]
Wallets == [balance: Int, used: Nat] \union {NoWallet}

\* known: the dealers' organizations, loaded at the start.  counted: dealers whose
\* usage this run has deducted.  from, excused: history, the legacy grants there
\* were at the start and those a failure or a clean took from this run.
RunStates == [pc: {"idle", "next", "create", "update"}, row: 1..MaxGrants + 1,
              known: SUBSET Dealers, counted: SUBSET Dealers,
              from: 0..MaxGrants, excused: SUBSET Grants]
NoRun == [pc |-> "idle", row |-> 1, known |-> {}, counted |-> {}, from |-> 0, excused |-> {}]

TypeOK ==
    /\ dealer \in Seq(Dealers) /\ Len(dealer) <= MaxGrants
    /\ orgs \subseteq Dealers
    /\ owner \in [Grants -> Orgs \union {NoOrg}] /\ backed \subseteq Grants
    /\ wallet \in [Orgs -> Wallets]
    /\ credited \in [Grants -> [Orgs -> Nat]] /\ deducted \in [Dealers -> [Orgs -> Nat]]
    /\ run \in [Runs -> RunStates]
    /\ clean \in {"idle", "legacy", "journal", "wallets", "rows"}
    /\ late \subseteq Dealers /\ forgiven \subseteq Dealers /\ torn \in BOOLEAN
    /\ starts \in 0..MaxStarts /\ cleans \in 0..MaxCleans /\ losses \in 0..MaxLosses

None(S) == [n \in S |-> [o \in Orgs |-> 0]]
EmptyTables ==
    /\ owner = [n \in Grants |-> NoOrg] /\ backed = {}
    /\ wallet = [o \in Orgs |-> NoWallet]
    /\ credited = None(Grants) /\ deducted = None(Dealers)

Init ==
    /\ dealer \in {<<d>> : d \in Dealers} /\ orgs = {}
    /\ EmptyTables
    /\ run = [r \in Runs |-> NoRun] /\ clean = "idle"
    /\ late = {} /\ forgiven = {} /\ torn = FALSE
    /\ starts = 0 /\ cleans = 0 /\ losses = 0

Running(r) == run[r].pc # "idle"
Idle == \A r \in Runs : ~Running(r)
At(r, pc) == run[r].pc = pc
\* The organization a run credits for a legacy grant.
Resolve(r, n) == IF dealer[n] \in run[r].known THEN dealer[n] ELSE HQ
\* The run goes on to the next legacy grant.
Advance(r, counted, excused) ==
    run' = [run EXCEPT ![r].pc = "next", ![r].row = @ + 1,
                       ![r].counted = @ \union counted, ![r].excused = @ \union excused]

-----------------------------------------------------------------------------
\* dbRun, refused while its job runs, and an upload.
Start(r) ==
    /\ ~Running(r) /\ starts < MaxStarts
    /\ starts' = starts + 1
    /\ run' = [run EXCEPT ![r] = [NoRun EXCEPT !.pc = "next", !.known = orgs,
                                               !.from = Len(dealer)]]
    /\ UNCHANGED <<dealer, orgs, tables, clean, history, cleans, losses>>

\* Fault: a row that is there already takes the place of the one after it.
FindGrantSkipping(r) ==
    LET n == run[r].row IN
    /\ At(r, "next") /\ n \in Legacy
    /\ IF owner[n] = NoOrg \/ n = Len(dealer)
       THEN run' = [run EXCEPT ![r].pc = IF owner[n] = NoOrg THEN "create" ELSE "update"]
       ELSE run' = [run EXCEPT ![r].row = n + 2]
    /\ UNCHANGED <<dealer, orgs, tables, clean, history, bounds>>

\* Looks for the CutCredit row of the next legacy grant, by its id.
FindGrant(r) ==
    LET n == run[r].row IN
    /\ At(r, "next") /\ n \in Legacy
    /\ run' = [run EXCEPT ![r].pc = IF owner[n] = NoOrg THEN "create" ELSE "update"]
    /\ UNCHANGED <<dealer, orgs, tables, clean, history, bounds>>

\* A wallet, made if there is none, after plus and minus are applied.
With(w, plus, minus) ==
    IF w = NoWallet THEN [balance |-> plus - minus, used |-> minus]
    ELSE [balance |-> w.balance + plus - minus, used |-> w.used + minus]

\* Whether the usage of a dealer is still to be deducted in this run.
Owes(r, d) == d \notin run[r].counted

\* Fault: the id is made anew, so that a row another run has just created is
\* created again.
CreateAgain(r, n, o, usage) ==
    /\ owner' = [owner EXCEPT ![n] = o] /\ backed' = backed \union {n}
    /\ wallet' = [wallet EXCEPT ![o] = With(@, Allocation, usage)]
    /\ credited' = [credited EXCEPT ![n][o] = @ + 1]
    /\ deducted' = IF usage = 0 THEN deducted ELSE [deducted EXCEPT ![dealer[n]][o] = @ + 1]

\* The transaction: row, wallet and journal, or nothing if the row is there.
Create(r, n, o, usage) ==
    IF owner[n] # NoOrg THEN UNCHANGED tables
    ELSE /\ owner' = [owner EXCEPT ![n] = o] /\ backed' = backed \union {n}
         /\ wallet' = [wallet EXCEPT ![o] = With(@, Allocation, usage)]
         /\ credited' = [credited EXCEPT ![n][o] = @ + 1]
         /\ deducted' = IF usage = 0 THEN deducted
                        ELSE [deducted EXCEPT ![dealer[n]][o] = @ + 1]

\* A grant without a row is imported, unless another run has just done so.
ImportGrant(r) ==
    LET n == run[r].row
        d == dealer[n]
        charged == IF Owes(r, d) THEN Usage ELSE 0
    IN
    /\ At(r, "create")
    /\ Create(r, n, Resolve(r, n), charged)
    /\ Advance(r, IF owner[n] = NoOrg THEN {d} ELSE {}, {})
    /\ torn' = (torn \/ (owner[n] = NoOrg /\ clean # "idle"))
    /\ UNCHANGED <<dealer, orgs, clean, late, forgiven, bounds>>

\* The transaction is rolled back.  The dealer may be marked as counted already.
LoseGrant(r) ==
    LET n == run[r].row
        d == dealer[n]
    IN
    /\ At(r, "create") /\ owner[n] = NoOrg /\ losses < MaxLosses
    /\ losses' = losses + 1
    /\ \E marked \in {{}, {d}} :
          /\ Advance(r, marked, {n})
          /\ forgiven' = forgiven \union (marked \ run[r].counted)
    /\ UNCHANGED <<dealer, orgs, tables, clean, late, torn, starts, cleans>>

\* Fault: the update resolves the owner of the grant, not its dealer.
UpdateGrantOfOwner(r) ==
    LET n == run[r].row IN
    /\ At(r, "update")
    /\ owner' = IF n \in backed THEN [owner EXCEPT ![n] = HQ] ELSE owner
    /\ Advance(r, {}, {})
    /\ UNCHANGED <<dealer, orgs, backed, wallet, journal, clean, history, bounds>>

\* A row that is there is written again, its owner with it; the wallet is not.
\* It fails if the row or its LegacyCutCredit has been cleaned away.
UpdateGrant(r) ==
    LET n == run[r].row IN
    /\ At(r, "update")
    /\ owner' = IF n \in backed THEN [owner EXCEPT ![n] = Resolve(r, n)] ELSE owner
    /\ Advance(r, {}, {})
    /\ UNCHANGED <<dealer, orgs, backed, wallet, journal, clean, history, bounds>>

\* Fault: the run asks for one more chunk after the empty one.
FinishLater(r) ==
    /\ At(r, "next") /\ run[r].row > Len(dealer)
    /\ run' = [run EXCEPT ![r].row = @ + 1]
    /\ UNCHANGED <<dealer, orgs, tables, clean, history, bounds>>

\* No legacy grant is left.
Finish(r) ==
    /\ At(r, "next") /\ run[r].row > Len(dealer)
    /\ run' = [run EXCEPT ![r] = NoRun]
    /\ UNCHANGED <<dealer, orgs, tables, clean, history, bounds>>

-----------------------------------------------------------------------------
\* cleanData("cut-credits"): four statements, in no transaction.
StartClean ==
    /\ clean = "idle" /\ cleans < MaxCleans
    /\ cleans' = cleans + 1 /\ clean' = "legacy"
    /\ UNCHANGED <<dealer, orgs, tables, run, history, starts, losses>>

CleanLegacy ==
    /\ clean = "legacy" /\ clean' = "journal"
    /\ backed' = {}
    /\ UNCHANGED <<dealer, orgs, owner, wallet, journal, run, history, bounds>>

CleanJournal ==
    /\ clean = "journal" /\ clean' = "wallets"
    /\ credited' = None(Grants) /\ deducted' = None(Dealers)
    /\ UNCHANGED <<dealer, orgs, owner, backed, wallet, run, history, bounds>>

\* A wallet that has transactions cannot be deleted: the clean fails.
CleanWallets ==
    /\ clean = "wallets"
    /\ IF credited = None(Grants)
       THEN wallet' = [o \in Orgs |-> NoWallet] /\ clean' = "rows" /\ UNCHANGED torn
       ELSE clean' = "idle" /\ torn' = TRUE /\ UNCHANGED wallet
    /\ UNCHANGED <<dealer, orgs, owner, backed, journal, run, late, forgiven, bounds>>

\* The last statement takes the LegacyCutCredit rows of the rows it deletes.
CleanRows ==
    /\ clean = "rows" /\ clean' = "idle"
    /\ owner' = [n \in Grants |-> NoOrg] /\ backed' = {}
    /\ run' = [r \in Runs |-> IF Running(r) THEN [run[r] EXCEPT !.excused = Grants \intersect 1..run[r].row]
                              ELSE run[r]]
    /\ torn' = (wallet # [o \in Orgs |-> NoWallet])
    /\ late' = IF Idle THEN {} ELSE late
    /\ forgiven' = UNION {run[r].counted : r \in Runs}
    /\ UNCHANGED <<dealer, orgs, wallet, journal, bounds>>

\* The server restarts.
Crash ==
    /\ ~Idle \/ clean # "idle"
    /\ run' = [r \in Runs |-> NoRun] /\ clean' = "idle"
    /\ torn' = (torn \/ clean \notin {"idle", "legacy"})
    /\ UNCHANGED <<dealer, orgs, tables, late, forgiven, bounds>>

-----------------------------------------------------------------------------
\* migrateUsers imports a dealer's organization.
ImportDealer(d) ==
    /\ d \notin orgs
    /\ orgs' = orgs \union {d}
    /\ late' = IF ~Idle \/ \E n \in Legacy : dealer[n] = d /\ owner[n] # NoOrg
               THEN late \union {d} ELSE late
    /\ UNCHANGED <<dealer, tables, run, clean, forgiven, torn, bounds>>

\* The legacy system grants credits to a dealer.
LegacyGrants(d) ==
    /\ Len(dealer) < MaxGrants
    /\ dealer' = Append(dealer, d)
    /\ UNCHANGED <<orgs, tables, run, clean, history, bounds>>

Progress(r) ==
    FindGrant(r) \/ ImportGrant(r) \/ LoseGrant(r) \/ UpdateGrant(r) \/ Finish(r)

Next ==
    \/ \E r \in Runs : Start(r) \/ Progress(r)
    \/ StartClean \/ CleanLegacy \/ CleanJournal \/ CleanWallets \/ CleanRows
    \/ Crash
    \/ \E d \in Dealers : ImportDealer(d) \/ LegacyGrants(d)

Spec == Init /\ [][Next]_vars

-----------------------------------------------------------------------------
Sum(f) == SumFunctionOnSet(f, Orgs)
Credits(o) == SumFunctionOnSet([n \in Grants |-> credited[n][o]], Grants)
Debits(o) == SumFunctionOnSet([d \in Dealers |-> deducted[d][o]], Dealers)
Sound == clean = "idle" /\ ~torn
Imported(d) == {n \in Legacy : dealer[n] = d /\ owner[n] # NoOrg}

\* A legacy grant is credited once if it has its row and not at all otherwise,
\* however many runs overlap, fail or are repeated, except after a clean that
\* stopped half-way or met an import.
CreditedOnce ==
    Sound => \A n \in Grants : Sum(credited[n]) = IF owner[n] = NoOrg THEN 0 ELSE 1

\* What a wallet holds is what its transactions say.
WalletsMatchJournal ==
    Sound => \A o \in Orgs :
        wallet[o] = IF Credits(o) = 0 THEN NoWallet
                    ELSE [balance |-> Allocation * Credits(o) - Usage * Debits(o),
                          used |-> Usage * Debits(o)]

\* What a dealer had used is deducted with its grants, unless a lost transaction
\* or a clean took the deduction, and at most once per run; a second run that
\* imports a grant of the dealer deducts all of it again.
UsageDeducted ==
    Sound => \A d \in Dealers :
        /\ Sum(deducted[d]) <= starts
        /\ Imported(d) # {} /\ d \notin forgiven => Sum(deducted[d]) > 0

\* Rows, wallets and transactions agree on what was granted and used.
CreditsAddUp == CreditedOnce /\ WalletsMatchJournal /\ UsageDeducted

\* A row belongs to the organization whose wallet got its credits, unless the
\* organization was imported after it or during a run.
RowsFollowCredits ==
    Sound => \A n \in Legacy :
        owner[n] # NoOrg /\ dealer[n] \notin late => credited[n][owner[n]] > 0

\* A run that ends by itself leaves no legacy grant there was at its start
\* without a row, except those it lost or a clean removed.
RunsCoverGrants ==
    [][\A r \in Runs :
          Running(r) /\ run[r].row > Len(dealer) /\ run'[r].pc = "idle"
          => \A n \in 1..run[r].from \ run[r].excused : owner[n] # NoOrg]_vars
=============================================================================
