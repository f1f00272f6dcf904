-------------------------- MODULE LegacyCreditsProofs --------------------------
(***************************************************************************)
(* For any number of dealers, legacy grants, overlapping runs and cleans:  *)
(* what the migration of the legacy credits leaves in the four tables, and *)
(* which grants a run may leave out.                                       *)
(***************************************************************************)
EXTENDS LegacyCredits, SumLemmas

\* The tables agree: no clean is half-way through them or has met an import.  A
\* clean that has executed no statement yet may still be given up.
Agreed == clean \in {"idle", "legacy"} /\ ~torn

Home(d) == IF d \in orgs THEN d ELSE HQ

\* Rows are of legacy grants; those of a dealer that is not late are all its own,
\* or all HQ's.
Rows ==
    /\ \A n \in Grants : /\ n \in backed => owner[n] # NoOrg
                         /\ owner[n] # NoOrg => n \in Legacy
    /\ \A n \in Legacy : owner[n] # NoOrg /\ dealer[n] \notin late => owner[n] = Home(dealer[n])

\* The deductions there are and those that may still be made are of different runs.
Owing(k, d) == k.pc # "idle" /\ d \notin k.counted
StillOwing(d) == {r \in Runs : Owing(run[r], d)}
Budget == \A d \in Dealers : Sum(deducted[d]) + Cardinality(StillOwing(d)) <= starts

\* What a clean has emptied stays empty, or an import shows in the table it
\* looks at next.
Cleaning ==
    /\ clean = "wallets" /\ credited = None(Grants) => deducted = None(Dealers)
    /\ clean = "rows" /\ (\A o \in Orgs : wallet[o] = NoWallet)
       => credited = None(Grants) /\ deducted = None(Dealers)

\* A run that is as k says looks at legacy grants only.  It knows the organization
\* of each dealer that is not late, if there is one.  The legacy grants it has
\* gone past have a row, or it is excused.
Follows(k) ==
    /\ k.pc \in {"create", "update"} => k.row \in Legacy
    /\ k.from <= Len(dealer)
    /\ k.pc # "idle" =>
          /\ \A d \in Dealers \ late : d \in k.known <=> d \in orgs
          /\ \A n \in 1..k.from : n < k.row => owner[n] # NoOrg \/ n \in k.excused
          /\ k.pc = "update" => owner[k.row] # NoOrg \/ k.row \in k.excused

\* Each grant that has a row is credited once, and to the row's organization if its
\* dealer is not late.
RowsCredited ==
    /\ \A n \in Grants : Sum(credited[n]) = IF owner[n] = NoOrg THEN 0 ELSE 1
    /\ \A n \in Legacy : owner[n] # NoOrg /\ dealer[n] \notin late => credited[n][owner[n]] > 0

\* A wallet is there with its first credit, and has no debit without one.
WalletsKept ==
    \A o \in Orgs :
       /\ wallet[o] = IF Credits(o) = 0 THEN NoWallet
                      ELSE [balance |-> Allocation * Credits(o) - Usage * Debits(o),
                            used |-> Usage * Debits(o)]
       /\ Credits(o) = 0 => Debits(o) = 0

\* A dealer that has a row, or is counted by a run, is deducted or forgiven.
Paid(d) == d \in forgiven \/ Sum(deducted[d]) > 0
Deducted ==
    /\ \A n \in Legacy : owner[n] # NoOrg => Paid(dealer[n])
    /\ \A r \in Runs : \A d \in run[r].counted : Paid(d)

IInv ==
    /\ TypeOK /\ Rows /\ Budget /\ Cleaning
    /\ \A r \in Runs : Follows(run[r])
    /\ Agreed => RowsCredited /\ WalletsKept /\ Deducted

-----------------------------------------------------------------------------
\* Types: the grants, the organizations, and what is kept of each.
LEMMA Kinds ==
    /\ IsFiniteSet(Orgs) /\ IsFiniteSet(Grants) /\ IsFiniteSet(Dealers) /\ IsFiniteSet(Runs)
    /\ NoOrg \notin Orgs /\ HQ \in Orgs /\ Dealers \subseteq Orgs
    /\ Allocation \in Nat /\ Usage \in Nat /\ Usage > 0 /\ MaxGrants \in Nat /\ Grants \subseteq Nat
<1>1. IsFiniteSet(Dealers) /\ IsFiniteSet(Runs) /\ MaxGrants \in Nat
  BY LegacyCreditsAssumption
<1>2. IsFiniteSet(Orgs)
  BY <1>1, FS_AddElement DEF Orgs
<1>3. IsFiniteSet(Grants)
  BY <1>1, FS_Interval DEF Grants
<1>4. QED BY <1>1, <1>2, <1>3, LegacyCreditsAssumption DEF Orgs, NoOrg, Grants

LEMMA SumIsNat ==
    ASSUME NEW f \in [Orgs -> Nat]
    PROVE  Sum(f) \in Nat
<1>1. \A o \in Orgs : f[o] \in Nat
  OBVIOUS
<1>2. Orgs \in SUBSET Orgs
  OBVIOUS
<1>3. QED BY <1>1, <1>2, Kinds, SumNat DEF Sum

\* What a journal c says of organization o, over all that is in S.
Column(c, S, o) == SumFunctionOnSet([n \in S |-> c[n][o]], S)

LEMMA ColumnIsNat ==
    ASSUME NEW S, IsFiniteSet(S), NEW c \in [S -> [Orgs -> Nat]], NEW o \in Orgs
    PROVE  Column(c, S, o) \in Nat
<1> DEFINE f == [n \in S |-> c[n][o]]
<1>1. \A n \in S : f[n] \in Nat
  OBVIOUS
<1>2. S \in SUBSET S
  OBVIOUS
<1> HIDE DEF f
<1>3. SumFunctionOnSet(f, S) \in Nat
  BY <1>1, <1>2, SumNat
<1>4. QED BY <1>3 DEF Column, f

\* One more in a summand is one more in the sum.
LEMMA OneMoreInSum ==
    ASSUME NEW S, IsFiniteSet(S), NEW f, NEW g, NEW x \in S,
           \A y \in S : f[y] \in Int /\ g[y] \in Int,
           \A y \in S \ {x} : g[y] = f[y], g[x] = f[x] + 1
    PROVE  SumFunctionOnSet(g, S) = SumFunctionOnSet(f, S) + 1
<1>1. SumFunctionOnSet(g, S) = SumFunctionOnSet(f, S) + (g[x] - f[x])
  BY SumChange
<1>2. g[x] - f[x] = 1
  OBVIOUS
<1>3. QED BY <1>1, <1>2

\* One transaction more of n in the wallet of o.
Enter(c, n, o) == [c EXCEPT ![n][o] = @ + 1]

LEMMA OneEntryMore ==
    ASSUME NEW S, IsFiniteSet(S), NEW c \in [S -> [Orgs -> Nat]], NEW n \in S, NEW o \in Orgs,
           NEW e, e = Enter(c, n, o)
    PROVE  /\ e \in [S -> [Orgs -> Nat]] /\ Sum(e[n]) = Sum(c[n]) + 1 /\ e[n][o] > 0
           /\ \A m \in S \ {n} : e[m] = c[m]
           /\ Column(e, S, o) = Column(c, S, o) + 1
           /\ \A i \in Orgs \ {o} : Column(e, S, i) = Column(c, S, i)
<1> DEFINE f == c[n]
           g == [f EXCEPT ![o] = @ + 1]
<1>1. e = [c EXCEPT ![n] = g] /\ f \in [Orgs -> Nat]
  BY DEF Enter
<1> HIDE DEF f
<1>2. /\ g \in [Orgs -> Nat] /\ g[o] = f[o] + 1 /\ f[o] \in Nat
      /\ \A i \in Orgs \ {o} : g[i] = f[i]
  BY <1>1
<1> HIDE DEF g
<1>3. e \in [S -> [Orgs -> Nat]] /\ e[n] = g /\ \A m \in S \ {n} : e[m] = c[m]
  BY <1>1, <1>2
<1>4. Sum(g) = Sum(f) + 1
  <2>1. \A i \in Orgs : f[i] \in Int /\ g[i] \in Int
    BY <1>1, <1>2
  <2>2. \A i \in Orgs \ {o} : g[i] = f[i]
    BY <1>2
  <2>3. g[o] = f[o] + 1 /\ IsFiniteSet(Orgs)
    BY <1>2, Kinds
  <2>4. SumFunctionOnSet(g, Orgs) = SumFunctionOnSet(f, Orgs) + 1
    BY <2>1, <2>2, <2>3, OneMoreInSum
  <2>5. QED BY <2>4 DEF Sum
<1>5. Column(e, S, o) = Column(c, S, o) + 1
  <2> DEFINE p == [m \in S |-> c[m][o]]
             q == [m \in S |-> e[m][o]]
  <2>1. \A m \in S : p[m] \in Int /\ q[m] \in Int
    BY <1>3
  <2>2. \A m \in S \ {n} : q[m] = p[m]
    BY <1>3
  <2>3. q[n] = p[n] + 1
    BY <1>2, <1>3 DEF f
  <2> HIDE DEF p, q
  <2>4. SumFunctionOnSet(q, S) = SumFunctionOnSet(p, S) + 1
    BY <2>1, <2>2, <2>3, OneMoreInSum
  <2>5. QED BY <2>4 DEF Column, p, q
<1>6. ASSUME NEW i \in Orgs \ {o} PROVE Column(e, S, i) = Column(c, S, i)
  <2> DEFINE p == [m \in S |-> c[m][i]]
             q == [m \in S |-> e[m][i]]
  <2>1. \A m \in S : e[m][i] = c[m][i]
    BY <1>2, <1>3 DEF f
  <2>2. q = p
    BY <2>1
  <2>3. QED BY <2>2 DEF Column
<1>7. e[n][o] > 0
  BY <1>2, <1>3
<1>8. Sum(e[n]) = Sum(c[n]) + 1
  BY <1>3, <1>4 DEF f
<1>9. QED BY <1>3, <1>5, <1>6, <1>7, <1>8

\* No transaction at all.
LEMMA NoEntries ==
    ASSUME NEW S, IsFiniteSet(S)
    PROVE  /\ None(S) \in [S -> [Orgs -> Nat]]
           /\ \A n \in S : Sum(None(S)[n]) = 0 /\ \A o \in Orgs : None(S)[n][o] = 0
           /\ \A o \in Orgs : Column(None(S), S, o) = 0
<1>1. PICK c : c = None(S)
  OBVIOUS
<1>2. c \in [S -> [Orgs -> Nat]] /\ \A n \in S : \A o \in Orgs : c[n][o] = 0
  BY <1>1 DEF None
<1>3. ASSUME NEW n \in S PROVE Sum(c[n]) = 0
  <2>1. PICK f : f = c[n]
    OBVIOUS
  <2>2. \A o \in Orgs : f[o] = 0
    BY <1>2, <2>1
  <2>3. QED BY <2>1, <2>2, Kinds, SumZero DEF Sum
<1>4. ASSUME NEW o \in Orgs PROVE Column(c, S, o) = 0
  <2> DEFINE p == [m \in S |-> c[m][o]]
  <2>1. \A m \in S : p[m] = 0
    BY <1>2
  <2> HIDE DEF p
  <2>2. SumFunctionOnSet(p, S) = 0
    BY <2>1, SumZero
  <2>3. QED BY <2>2 DEF Column, p
<1>5. QED BY <1>1, <1>2, <1>3, <1>4

\* The sums of the invariant are natural numbers.
LEMMA Totals ==
    ASSUME TypeOK
    PROVE  /\ \A n \in Grants : Sum(credited[n]) \in Nat
           /\ \A d \in Dealers : Sum(deducted[d]) \in Nat
           /\ \A o \in Orgs : /\ Credits(o) \in Nat /\ Credits(o) = Column(credited, Grants, o)
                              /\ Debits(o) \in Nat /\ Debits(o) = Column(deducted, Dealers, o)
<1>1. credited \in [Grants -> [Orgs -> Nat]] /\ deducted \in [Dealers -> [Orgs -> Nat]]
  BY DEF TypeOK
<1>2. QED BY <1>1, Kinds, SumIsNat, ColumnIsNat DEF Credits, Debits, Column

LEMMA Legacies ==
    ASSUME TypeOK
    PROVE  /\ Legacy \subseteq Grants /\ Len(dealer) \in Nat /\ starts \in Nat
           /\ \A n \in Legacy : dealer[n] \in Dealers /\ n <= Len(dealer)
BY Kinds DEF TypeOK, Legacy, Grants

-----------------------------------------------------------------------------
\* A wallet that takes a credit and, it may be, a debit.
LEMMA Times ==
    ASSUME NEW a \in Nat, NEW x \in Nat
    PROVE  a * x \in Nat /\ a * (x + 1) = a * x + a /\ a * 0 = 0 /\ a * 1 = a
OBVIOUS

LEMMA WalletTakes ==
    ASSUME NEW x \in Nat, NEW y \in Nat, NEW owes \in BOOLEAN, NEW w, x = 0 => y = 0,
           w = IF x = 0 THEN NoWallet
               ELSE [balance |-> Allocation * x - Usage * y, used |-> Usage * y]
    PROVE  LET z == IF owes THEN y + 1 ELSE y IN
           With(w, Allocation, IF owes THEN Usage ELSE 0)
              = [balance |-> Allocation * (x + 1) - Usage * z, used |-> Usage * z]
<1>1. /\ Allocation * x \in Nat /\ Allocation * (x + 1) = Allocation * x + Allocation
      /\ Usage * y \in Nat /\ Usage * (y + 1) = Usage * y + Usage
      /\ Allocation * 0 = 0 /\ Usage * 0 = 0
  BY Kinds, Times
<1>2. PICK b, u, c : b = Allocation * x /\ u = Usage * y /\ c = IF owes THEN Usage ELSE 0
  OBVIOUS
<1>3. b \in Nat /\ u \in Nat /\ c \in Nat
  BY <1>1, <1>2, Kinds
<1>4. /\ Allocation * (x + 1) = b + Allocation
      /\ Usage * (IF owes THEN y + 1 ELSE y) = u + c
  BY <1>1, <1>2, Kinds
<1>5. With(w, Allocation, c) = [balance |-> (b + Allocation) - (u + c), used |-> u + c]
  <2>1. CASE x = 0
    <3>1. w = NoWallet /\ b = 0 /\ u = 0
      BY <1>1, <1>2, <2>1
    <3>2. With(w, Allocation, c) = [balance |-> Allocation - c, used |-> c]
      BY <3>1 DEF With
    <3>3. (b + Allocation) - (u + c) = Allocation - c /\ u + c = c
      BY <1>3, <3>1, Kinds
    <3>4. QED BY <3>2, <3>3
  <2>2. CASE x # 0
    <3>1. w = [balance |-> b - u, used |-> u]
      BY <1>2, <2>2
    <3>2. w.balance = b - u /\ w.used = u /\ w # NoWallet
      BY <1>3, <3>1 DEF NoWallet
    <3>3. With(w, Allocation, c) = [balance |-> (b - u) + Allocation - c, used |-> u + c]
      BY <3>2 DEF With
    <3>4. (b - u) + Allocation - c = (b + Allocation) - (u + c)
      BY <1>3, Kinds
    <3>5. QED BY <3>3, <3>4
  <2>3. QED BY <2>1, <2>2
<1>6. QED BY <1>2, <1>4, <1>5

LEMMA WithIs ==
    ASSUME NEW w \in Wallets, NEW c \in Nat
    PROVE  With(w, Allocation, c) \in Wallets /\ With(w, Allocation, c) # NoWallet
<1>1. CASE w = NoWallet
  <2>1. Allocation - c \in Int
    BY Kinds
  <2>2. With(w, Allocation, c) = [balance |-> Allocation - c, used |-> c]
    BY <1>1 DEF With
  <2>3. QED BY <2>1, <2>2 DEF Wallets, NoWallet
<1>2. CASE w # NoWallet
  <2>1. w.balance \in Int /\ w.used \in Nat
    BY <1>2 DEF Wallets
  <2>2. PICK b, u : b = w.balance + Allocation - c /\ u = w.used + c
    OBVIOUS
  <2>3. b \in Int /\ u \in Nat
    BY <2>1, <2>2, Kinds
  <2>4. With(w, Allocation, c) = [balance |-> b, used |-> u]
    BY <1>2, <2>2 DEF With
  <2>5. QED BY <2>3, <2>4 DEF Wallets, NoWallet
<1>3. QED BY <1>1, <1>2

-----------------------------------------------------------------------------
\* What a run knows stays true while others import and update.
LEMMA FollowsKept ==
    ASSUME TypeOK, NEW k \in RunStates, Follows(k), Len(dealer') \in Nat, Len(dealer) <= Len(dealer'),
           late \subseteq late', \A d \in Dealers \ late' : d \in orgs <=> d \in orgs',
           \A n \in Grants : owner[n] # NoOrg => owner'[n] # NoOrg
    PROVE  Follows(k)'
<1>1. Len(dealer) \in Nat /\ k.from \in Nat /\ k.from <= Len(dealer) /\ Legacy \subseteq Grants
  BY Kinds, Legacies DEF RunStates, Follows
<1>2. k.from <= Len(dealer')
  BY <1>1
<1>3. Legacy \subseteq Legacy' /\ 1..k.from \subseteq Grants
  BY <1>1 DEF Legacy
<1>4. k.pc \in {"create", "update"} => k.row \in Legacy' /\ k.row \in Grants
  BY <1>1, <1>3 DEF Follows
<1>5. k.pc # "idle" => \A d \in Dealers \ late' : d \in k.known <=> d \in orgs'
  BY DEF Follows
<1>6. k.pc # "idle" => \A n \in 1..k.from : n < k.row => owner'[n] # NoOrg \/ n \in k.excused
  BY <1>3 DEF Follows
<1>7. k.pc # "idle" /\ k.pc = "update" => owner'[k.row] # NoOrg \/ k.row \in k.excused
  BY <1>4 DEF Follows
<1>8. QED BY <1>2, <1>4, <1>5, <1>6, <1>7 DEF Follows

LEMMA RunIs ==
    ASSUME IInv, NEW r \in Runs
    PROVE  /\ run[r] \in RunStates /\ Follows(run[r]) /\ TypeOK /\ Rows /\ Budget /\ Cleaning
           /\ Agreed => \A d \in run[r].counted : Paid(d)
BY DEF IInv, TypeOK, Deducted

\* One run moves, to k, and no table changes but for the owners of late rows.
LEMMA RunMoves ==
    ASSUME IInv, NEW r \in Runs, NEW j, NEW k \in RunStates, j = run[r],
           run' = [run EXCEPT ![r] = k], dealer' = dealer, orgs' = orgs,
           \/ owner' = owner
           \/ /\ owner' \in [Grants -> Orgs \cup {NoOrg}]
              /\ \A n \in Grants : owner'[n] = NoOrg <=> owner[n] = NoOrg
              /\ \A n \in Legacy : owner[n] # NoOrg /\ dealer[n] \notin late
                                   => owner'[n] = owner[n],
           backed' = backed, wallet' = wallet, credited' = credited,
           deducted' = deducted, clean' = clean, late' = late, torn' = torn,
           forgiven \subseteq forgiven', forgiven' \subseteq Dealers,
           starts' \in 0..MaxStarts, cleans' \in 0..MaxCleans, losses' \in 0..MaxLosses,
           starts' = starts \/ starts' = starts + 1, Follows(k),
           Agreed => \A d \in k.counted : d \in forgiven' \/ Sum(deducted[d]) > 0,
           \A d \in Dealers : Owing(k, d) => Owing(j, d) \/ starts' = starts + 1
    PROVE  IInv'
<1>1. TypeOK /\ Rows /\ Budget /\ Cleaning
  BY DEF IInv
<1>0. /\ owner' \in [Grants -> Orgs \cup {NoOrg}]
      /\ \A n \in Grants : owner'[n] = NoOrg <=> owner[n] = NoOrg
      /\ \A n \in Legacy : owner[n] # NoOrg /\ dealer[n] \notin late => owner'[n] = owner[n]
      /\ Legacy' = Legacy /\ Legacy \subseteq Grants
  BY <1>1, Legacies DEF TypeOK, Legacy
<1>2. TypeOK'
  BY <1>0, <1>1 DEF TypeOK
<1>3. Rows'
  BY <1>0, <1>1 DEF Rows, Home
<1>4. Cleaning'
  BY <1>1 DEF Cleaning
<1>5. run'[r] = k /\ \A x \in Runs \ {r} : run'[x] = run[x]
  BY <1>1 DEF TypeOK
<1>6. ASSUME NEW x \in Runs PROVE Follows(run[x])'
  <2>1. PICK z : z = run'[x]
    OBVIOUS
  <2>2. z \in RunStates /\ Follows(z)
    BY <1>1, <1>5, <2>1 DEF TypeOK, IInv
  <2>3. Len(dealer') \in Nat /\ Len(dealer) <= Len(dealer')
    BY <1>1, Legacies
  <2>4. Follows(z)'
    BY <1>0, <1>1, <2>2, <2>3, FollowsKept
  <2>5. QED BY <2>1, <2>4 DEF Follows
<1>7. Budget'
  <2>1. SUFFICES ASSUME NEW d \in Dealers
                 PROVE  Sum(deducted[d]) + Cardinality(StillOwing(d)') <= starts'
    BY DEF Budget
  <2>2. PICK S, T : S = StillOwing(d) /\ T = StillOwing(d)'
    OBVIOUS
  <2>3. /\ S \in SUBSET Runs /\ T \in SUBSET (S \cup {r})
        /\ Sum(deducted[d]) \in Nat /\ starts \in Nat
        /\ Sum(deducted[d]) + Cardinality(S) <= starts
    <3>1. S \in SUBSET Runs /\ T \in SUBSET (S \cup {r})
      BY <1>5, <2>2 DEF StillOwing, Owing
    <3>2. Sum(deducted[d]) \in Nat /\ starts \in Nat
      BY <1>1, Totals, Legacies
    <3>3. Sum(deducted[d]) + Cardinality(S) <= starts
      BY <1>1, <2>2 DEF Budget
    <3>4. QED BY <3>1, <3>2, <3>3
  <2>4. CASE starts' = starts + 1
    <3>1. Sum(deducted[d]) + Cardinality(T) <= starts + 1
      BY <2>3, Kinds, OneMoreLeft
    <3>2. QED BY <2>2, <2>4, <3>1
  <2>5. CASE starts' = starts /\ starts' # starts + 1
    <3>1. T \in SUBSET S
      BY <1>5, <2>2, <2>5 DEF StillOwing, Owing
    <3>2. Sum(deducted[d]) + Cardinality(T) <= starts
      BY <2>3, <3>1, Kinds, FewerLeft
    <3>3. QED BY <2>2, <2>5, <3>2
  <2>6. QED BY <2>4, <2>5
<1>8. ASSUME Agreed' PROVE (RowsCredited /\ WalletsKept /\ Deducted)'
  <2>1. Agreed
    BY <1>8 DEF Agreed
  <2>2. RowsCredited /\ WalletsKept /\ Deducted
    BY <2>1 DEF IInv
  <2>3. RowsCredited' /\ WalletsKept'
    BY <1>0, <2>2 DEF RowsCredited, WalletsKept, Credits, Debits
  <2>4. \A n \in Legacy' : owner'[n] # NoOrg => Paid(dealer[n])'
    BY <1>0, <2>2 DEF Deducted, Paid
  <2>5. ASSUME NEW x \in Runs, NEW d \in run'[x].counted PROVE Paid(d)'
    BY <1>5, <2>1, <2>2, <2>5 DEF Deducted, Paid
  <2>6. QED BY <2>3, <2>4, <2>5 DEF Deducted
<1>9. QED BY <1>2, <1>3, <1>4, <1>6, <1>7, <1>8 DEF IInv

\* What no step of a run changes.
LEMMA Counters ==
    ASSUME TypeOK
    PROVE  /\ starts \in 0..MaxStarts /\ cleans \in 0..MaxCleans /\ losses \in 0..MaxLosses
           /\ MaxStarts \in Nat /\ MaxCleans \in Nat /\ MaxLosses \in Nat
           /\ forgiven \subseteq Dealers
BY LegacyCreditsAssumption DEF TypeOK

LEMMA NoRunIs ==
    /\ NoRun \in RunStates /\ NoRun.pc = "idle" /\ NoRun.row = 1 /\ NoRun.counted = {}
    /\ NoRun.from = 0
BY Kinds DEF NoRun, RunStates, Grants

LEMMA StartStep ==
    ASSUME IInv, NEW r \in Runs, Start(r)
    PROVE  IInv'
<1>1. PICK j, z : j = run[r] /\ z = NoRun
  OBVIOUS
<1>2. PICK k : k = [z EXCEPT !.pc = "next", !.known = orgs, !.from = Len(dealer)]
  OBVIOUS
<1>3. TypeOK /\ orgs \subseteq Dealers /\ Len(dealer) \in 0..MaxGrants
  BY RunIs, Kinds DEF TypeOK
<1>4. /\ k \in RunStates /\ k.pc = "next" /\ k.known = orgs /\ k.from = Len(dealer)
      /\ k.row = 1 /\ k.counted = {}
  BY <1>1, <1>2, <1>3, NoRunIs DEF RunStates
<1>5. Follows(k)
  BY <1>3, <1>4 DEF Follows
<1>6. run' = [run EXCEPT ![r] = k] /\ starts < MaxStarts /\ starts' = starts + 1
  BY <1>1, <1>2 DEF Start
<1>7. starts' \in 0..MaxStarts /\ cleans \in 0..MaxCleans /\ losses \in 0..MaxLosses
      /\ forgiven \subseteq Dealers
  BY <1>3, <1>6, Counters
<1>8. QED BY <1>1, <1>4, <1>5, <1>6, <1>7, RunMoves DEF Start, tables, journal, history

LEMMA FindGrantStep ==
    ASSUME IInv, NEW r \in Runs, FindGrant(r)
    PROVE  IInv'
<1>1. PICK j, n : j = run[r] /\ n = j.row
  OBVIOUS
<1>2. PICK k : k = [j EXCEPT !.pc = IF owner[n] = NoOrg THEN "create" ELSE "update"]
  OBVIOUS
<1>3. /\ j \in RunStates /\ Follows(j) /\ TypeOK /\ j.pc = "next" /\ n \in Legacy
      /\ Agreed => \A d \in j.counted : Paid(d)
  BY <1>1, RunIs DEF FindGrant, At
<1>4. /\ k \in RunStates /\ k.pc \in {"create", "update"} /\ k.row = n /\ k.known = j.known
      /\ k.from = j.from /\ k.counted = j.counted /\ k.excused = j.excused
      /\ k.pc = "update" => owner[n] # NoOrg
  BY <1>1, <1>2, <1>3 DEF RunStates
<1>5. Follows(k)
  BY <1>1, <1>3, <1>4 DEF Follows
<1>6. run' = [run EXCEPT ![r] = k]
  BY <1>1, <1>2 DEF FindGrant
<1>7. /\ \A d \in Dealers : Owing(k, d) => Owing(j, d)
      /\ Agreed => \A d \in k.counted : d \in forgiven \/ Sum(deducted[d]) > 0
  BY <1>3, <1>4 DEF Owing, Paid
<1>8. QED BY <1>1, <1>3, <1>4, <1>5, <1>6, <1>7, Counters, RunMoves
             DEF FindGrant, tables, journal, history, bounds

LEMMA FinishStep ==
    ASSUME IInv, NEW r \in Runs, Finish(r)
    PROVE  IInv'
<1>1. PICK j, k : j = run[r] /\ k = NoRun
  OBVIOUS
<1>2. /\ TypeOK /\ k \in RunStates /\ k.pc = "idle" /\ k.from = 0 /\ k.counted = {}
      /\ Len(dealer) \in Nat
  BY <1>1, RunIs, NoRunIs, Legacies
<1>3. Follows(k) /\ \A d \in Dealers : ~Owing(k, d)
  BY <1>2 DEF Follows, Owing
<1>4. run' = [run EXCEPT ![r] = k]
  BY <1>1 DEF Finish
<1>5. QED BY <1>1, <1>2, <1>3, <1>4, Counters, RunMoves
             DEF Finish, tables, journal, history, bounds

\* A run that leaves a grant behind, as long as it has a row or the run is excused.
LEMMA AdvanceIs ==
    ASSUME IInv, NEW r \in Runs, NEW marked \in SUBSET Dealers, NEW lost \in SUBSET Grants,
           run[r].pc \in {"create", "update"}, Advance(r, marked, lost)
    PROVE  \E k \in RunStates :
              /\ run' = [run EXCEPT ![r] = k]
              /\ k.pc = "next" /\ k.row = run[r].row + 1 /\ k.known = run[r].known
              /\ k.from = run[r].from /\ k.counted = run[r].counted \cup marked
              /\ k.excused = run[r].excused \cup lost /\ k.from \in Nat /\ run[r].row \in Nat
<1>1. PICK j : j = run[r]
  OBVIOUS
<1>2. PICK k : k = [j EXCEPT !.pc = "next", !.row = j.row + 1,
                             !.counted = j.counted \cup marked, !.excused = j.excused \cup lost]
  OBVIOUS
<1>3. j \in RunStates /\ Follows(j) /\ TypeOK
  BY <1>1, RunIs
<1>4. j.row \in Grants /\ j.row \in Nat
  BY <1>1, <1>3, Legacies, Kinds DEF Follows
<1>5. j.row + 1 \in 1..MaxGrants + 1
  BY <1>4, Kinds DEF Grants
<1>6. j.counted \in SUBSET Dealers /\ j.excused \in SUBSET Grants /\ j.from \in Nat
  BY <1>3, Kinds DEF RunStates
<1>7. k \in RunStates
  BY <1>2, <1>3, <1>5, <1>6 DEF RunStates
<1>8. /\ k.pc = "next" /\ k.row = j.row + 1 /\ k.known = j.known
      /\ k.from = j.from /\ k.counted = j.counted \cup marked /\ k.excused = j.excused \cup lost
  BY <1>2, <1>3 DEF RunStates
<1>9. run' = [run EXCEPT ![r] = k]
  BY <1>1, <1>2 DEF Advance
<1>10. QED BY <1>1, <1>4, <1>6, <1>7, <1>8, <1>9

LEMMA LoseGrantStep ==
    ASSUME IInv, NEW r \in Runs, LoseGrant(r)
    PROVE  IInv'
<1>1. PICK j, n, d : j = run[r] /\ n = j.row /\ d = dealer[n]
  OBVIOUS
<1>2. PICK marked \in {{}, {d}} : /\ Advance(r, marked, {n})
                                  /\ forgiven' = forgiven \cup (marked \ j.counted)
  BY <1>1 DEF LoseGrant
<1>3. /\ j.pc = "create" /\ j \in RunStates /\ Follows(j) /\ TypeOK
      /\ Agreed => \A c \in j.counted : Paid(c)
  BY <1>1, RunIs DEF LoseGrant, At
<1>4. n \in Legacy /\ n \in Grants /\ d \in Dealers
  BY <1>1, <1>3, Legacies DEF Follows
<1>5. PICK k \in RunStates :
         /\ run' = [run EXCEPT ![r] = k]
         /\ k.pc = "next" /\ k.row = n + 1 /\ k.known = j.known
         /\ k.from = j.from /\ k.counted = j.counted \cup marked /\ k.excused = j.excused \cup {n}
         /\ k.from \in Nat /\ n \in Nat
  <2>1. PICK lost : lost = {n}
    OBVIOUS
  <2>2. marked \in SUBSET Dealers /\ lost \in SUBSET Grants
    BY <1>4, <2>1
  <2>3. run[r].pc \in {"create", "update"} /\ Advance(r, marked, lost)
    BY <1>1, <1>2, <1>3, <2>1
  <2>4. \E k \in RunStates :
           /\ run' = [run EXCEPT ![r] = k]
           /\ k.pc = "next" /\ k.row = run[r].row + 1 /\ k.known = run[r].known
           /\ k.from = run[r].from /\ k.counted = run[r].counted \cup marked
           /\ k.excused = run[r].excused \cup lost /\ k.from \in Nat /\ run[r].row \in Nat
    BY <2>2, <2>3, AdvanceIs
  <2>5. QED BY <1>1, <2>1, <2>4
<1>6. Follows(k)
  <2>1. \A m \in 1..k.from : m < n + 1 => m < n \/ m = n
    BY <1>5
  <2>2. QED BY <1>1, <1>3, <1>5, <2>1 DEF Follows
<1>7. \A c \in Dealers : Owing(k, c) => Owing(j, c)
  BY <1>3, <1>5 DEF Owing
<1>8. Agreed => \A c \in k.counted : c \in forgiven' \/ Sum(deducted[c]) > 0
  BY <1>2, <1>3, <1>5 DEF Paid
<1>9. /\ forgiven \subseteq forgiven' /\ forgiven' \subseteq Dealers
       /\ losses' \in 0..MaxLosses /\ starts' = starts /\ cleans' = cleans
       /\ starts' \in 0..MaxStarts /\ cleans' \in 0..MaxCleans
  <2>1. losses < MaxLosses /\ losses' = losses + 1 /\ starts' = starts /\ cleans' = cleans
    BY DEF LoseGrant
  <2>2. QED BY <1>2, <1>3, <1>4, <2>1, Counters
<1>10. /\ dealer' = dealer /\ orgs' = orgs /\ owner' = owner /\ backed' = backed
       /\ wallet' = wallet /\ credited' = credited /\ deducted' = deducted
       /\ clean' = clean /\ late' = late /\ torn' = torn
  BY DEF LoseGrant, tables, journal
<1>11. QED BY <1>1, <1>5, <1>6, <1>7, <1>8, <1>9, <1>10, RunMoves

\* A row that is there is written again: its owner changes only if the dealer is
\* late.
LEMMA UpdateGrantStep ==
    ASSUME IInv, NEW r \in Runs, UpdateGrant(r)
    PROVE  IInv'
<1>1. PICK j, n, o : j = run[r] /\ n = j.row /\ o = Resolve(r, n)
  OBVIOUS
<1>2. /\ j.pc = "update" /\ j \in RunStates /\ Follows(j) /\ TypeOK /\ Rows
      /\ Agreed => \A c \in j.counted : Paid(c)
  BY <1>1, RunIs DEF UpdateGrant, At
<1>3. /\ n \in Legacy /\ n \in Grants /\ dealer[n] \in Dealers /\ Legacy \subseteq Grants
      /\ o = IF dealer[n] \in j.known THEN dealer[n] ELSE HQ
      /\ o \in Orgs /\ o # NoOrg
  BY <1>1, <1>2, Legacies, Kinds DEF Follows, Resolve
<1>4. PICK k \in RunStates :
         /\ run' = [run EXCEPT ![r] = k]
         /\ k.pc = "next" /\ k.row = n + 1 /\ k.known = j.known
         /\ k.from = j.from /\ k.counted = j.counted /\ k.excused = j.excused
         /\ k.from \in Nat /\ n \in Nat
  <2>1. PICK marked : marked = {}
    OBVIOUS
  <2>2. marked \in SUBSET Dealers /\ marked \in SUBSET Grants
    BY <2>1
  <2>3. run[r].pc \in {"create", "update"} /\ Advance(r, marked, marked)
    BY <1>1, <1>2, <2>1 DEF UpdateGrant
  <2>4. \E k \in RunStates :
           /\ run' = [run EXCEPT ![r] = k]
           /\ k.pc = "next" /\ k.row = run[r].row + 1 /\ k.known = run[r].known
           /\ k.from = run[r].from /\ k.counted = run[r].counted \cup marked
           /\ k.excused = run[r].excused \cup marked /\ k.from \in Nat /\ run[r].row \in Nat
    BY <2>2, <2>3, AdvanceIs
  <2>5. QED BY <1>1, <2>1, <2>4
<1>5. Follows(k)
  <2>1. \A m \in 1..k.from : m < n + 1 => m < n \/ m = n
    BY <1>4
  <2>2. QED BY <1>1, <1>2, <1>4, <2>1 DEF Follows
<1>6. \/ owner' = owner
      \/ /\ owner' \in [Grants -> Orgs \cup {NoOrg}]
         /\ \A m \in Grants : owner'[m] = NoOrg <=> owner[m] = NoOrg
         /\ \A m \in Legacy : owner[m] # NoOrg /\ dealer[m] \notin late => owner'[m] = owner[m]
  <2>1. CASE n \notin backed
    BY <1>1, <2>1 DEF UpdateGrant
  <2>2. CASE n \in backed
    <3>1. /\ owner' = [owner EXCEPT ![n] = o] /\ owner \in [Grants -> Orgs \cup {NoOrg}]
          /\ owner[n] # NoOrg
      BY <1>1, <1>2, <1>3, <2>2 DEF UpdateGrant, TypeOK, Rows
    <3>2. dealer[n] \notin late => owner[n] = o
      BY <1>2, <1>3, <3>1 DEF Rows, Home, Follows
    <3>3. QED BY <1>3, <3>1, <3>2
  <2>3. QED BY <2>1, <2>2
<1>7. /\ \A d \in Dealers : Owing(k, d) => Owing(j, d)
      /\ Agreed => \A d \in k.counted : d \in forgiven \/ Sum(deducted[d]) > 0
  BY <1>2, <1>4 DEF Owing, Paid
<1>8. /\ dealer' = dealer /\ orgs' = orgs /\ backed' = backed
      /\ wallet' = wallet /\ credited' = credited /\ deducted' = deducted
      /\ clean' = clean /\ late' = late /\ torn' = torn /\ forgiven' = forgiven
      /\ starts' = starts /\ cleans' = cleans /\ losses' = losses
  BY DEF UpdateGrant, tables, journal, history, bounds
<1>9. /\ forgiven' \subseteq Dealers /\ starts' \in 0..MaxStarts
      /\ cleans' \in 0..MaxCleans /\ losses' \in 0..MaxLosses
  BY <1>2, <1>8, Counters
<1>10. QED BY <1>1, <1>4, <1>5, <1>6, <1>7, <1>8, <1>9, RunMoves

-----------------------------------------------------------------------------
\* A transaction of n in the wallet of o.
LEMMA Entered ==
    ASSUME NEW S, IsFiniteSet(S), NEW c \in [S -> [Orgs -> Nat]], NEW n \in S, NEW o \in Orgs,
           NEW e, e = Enter(c, n, o)
    PROVE  /\ e \in [S -> [Orgs -> Nat]]
           /\ \A m \in S : Sum(e[m]) = IF m = n THEN Sum(c[m]) + 1 ELSE Sum(c[m])
           /\ \A i \in Orgs : Column(e, S, i) = IF i = o THEN Column(c, S, i) + 1
                                                ELSE Column(c, S, i)
<1>1. /\ e \in [S -> [Orgs -> Nat]] /\ Sum(e[n]) = Sum(c[n]) + 1
      /\ \A m \in S \ {n} : e[m] = c[m]
      /\ Column(e, S, o) = Column(c, S, o) + 1
      /\ \A i \in Orgs \ {o} : Column(e, S, i) = Column(c, S, i)
  BY OneEntryMore
<1>2. ASSUME NEW m \in S PROVE Sum(e[m]) = IF m = n THEN Sum(c[m]) + 1 ELSE Sum(c[m])
  BY <1>1
<1>3. ASSUME NEW i \in Orgs
      PROVE  Column(e, S, i) = IF i = o THEN Column(c, S, i) + 1 ELSE Column(c, S, i)
  BY <1>1
<1>4. QED BY <1>1, <1>2, <1>3

\* A grant that has a row already: the run goes on.
LEMMA ImportNothing ==
    ASSUME IInv, NEW r \in Runs, ImportGrant(r), owner[run[r].row] # NoOrg
    PROVE  IInv'
<1>1. PICK j, n : j = run[r] /\ n = j.row
  OBVIOUS
<1>2. /\ j.pc = "create" /\ j \in RunStates /\ Follows(j) /\ TypeOK
      /\ Agreed => \A c \in j.counted : Paid(c)
  BY <1>1, RunIs DEF ImportGrant, At
<1>3. PICK k \in RunStates :
         /\ run' = [run EXCEPT ![r] = k]
         /\ k.pc = "next" /\ k.row = n + 1 /\ k.known = j.known
         /\ k.from = j.from /\ k.counted = j.counted /\ k.excused = j.excused
         /\ k.from \in Nat /\ n \in Nat
  <2>1. PICK marked : marked = {}
    OBVIOUS
  <2>2. marked \in SUBSET Dealers /\ marked \in SUBSET Grants
    BY <2>1
  <2>3. run[r].pc \in {"create", "update"} /\ Advance(r, marked, marked)
    BY <1>1, <1>2, <2>1 DEF ImportGrant
  <2>4. \E k \in RunStates :
           /\ run' = [run EXCEPT ![r] = k]
           /\ k.pc = "next" /\ k.row = run[r].row + 1 /\ k.known = run[r].known
           /\ k.from = run[r].from /\ k.counted = run[r].counted \cup marked
           /\ k.excused = run[r].excused \cup marked /\ k.from \in Nat /\ run[r].row \in Nat
    BY <2>2, <2>3, AdvanceIs
  <2>5. QED BY <1>1, <2>1, <2>4
<1>4. Follows(k)
  <2>1. \A m \in 1..k.from : m < n + 1 => m < n \/ m = n
    BY <1>3
  <2>2. QED BY <1>1, <1>2, <1>3, <2>1 DEF Follows
<1>5. /\ \A d \in Dealers : Owing(k, d) => Owing(j, d)
      /\ Agreed => \A d \in k.counted : d \in forgiven \/ Sum(deducted[d]) > 0
  BY <1>2, <1>3 DEF Owing, Paid
<1>6. /\ dealer' = dealer /\ orgs' = orgs /\ backed' = backed /\ owner' = owner
      /\ wallet' = wallet /\ credited' = credited /\ deducted' = deducted
      /\ clean' = clean /\ late' = late /\ forgiven' = forgiven
      /\ starts' = starts /\ cleans' = cleans /\ losses' = losses
  BY DEF ImportGrant, Create, tables, journal, history, bounds
<1>7. torn' = torn
  BY <1>2 DEF ImportGrant, TypeOK
<1>8. /\ forgiven' \subseteq Dealers /\ starts' \in 0..MaxStarts
      /\ cleans' \in 0..MaxCleans /\ losses' \in 0..MaxLosses
  BY <1>2, <1>6, Counters
<1>9. QED BY <1>1, <1>3, <1>4, <1>5, <1>6, <1>7, <1>8, RunMoves

\* What the transaction of a grant without a row does to the tables.
LEMMA ImportIs ==
    ASSUME IInv, NEW r \in Runs, ImportGrant(r), owner[run[r].row] = NoOrg,
           NEW n, n = run[r].row, NEW d, d = dealer[n], NEW o, o = Resolve(r, n),
           NEW owes, owes = Owes(r, d)
    PROVE  /\ owes \in BOOLEAN /\ n \in Legacy /\ n \in Grants /\ d \in Dealers /\ o \in Orgs /\ o # NoOrg
           /\ d \notin late => o = Home(d)
           /\ owner' = [owner EXCEPT ![n] = o] /\ backed' = backed \cup {n}
           /\ wallet' = [wallet EXCEPT ![o] = With(wallet[o], Allocation, IF owes THEN Usage ELSE 0)]
           /\ credited' = Enter(credited, n, o)
           /\ deducted' = IF owes THEN Enter(deducted, d, o) ELSE deducted
           /\ torn' = (torn \/ clean # "idle")
           /\ dealer' = dealer /\ orgs' = orgs /\ clean' = clean /\ late' = late
           /\ forgiven' = forgiven /\ bounds' = bounds
<1>1. PICK j : j = run[r]
  OBVIOUS
<1>2. j.pc = "create" /\ Follows(j) /\ TypeOK
  BY <1>1, RunIs DEF ImportGrant, At
<1>3. n \in Legacy /\ n \in Grants /\ d \in Dealers /\ owes \in BOOLEAN
  BY <1>1, <1>2, Legacies DEF Follows, Owes
<1>4. o = IF d \in j.known THEN d ELSE HQ
  BY <1>1 DEF Resolve
<1>5. o \in Orgs /\ o # NoOrg /\ (d \notin late => o = Home(d))
  BY <1>2, <1>3, <1>4, Kinds DEF Follows, Home
<1>6. PICK usage : usage = IF owes THEN Usage ELSE 0
  OBVIOUS
<1>7. /\ Create(r, n, o, usage) /\ torn' = (torn \/ (owner[n] = NoOrg /\ clean # "idle"))
      /\ dealer' = dealer /\ orgs' = orgs /\ clean' = clean /\ late' = late
      /\ forgiven' = forgiven /\ bounds' = bounds
  BY <1>6 DEF ImportGrant
<1>8. /\ owner' = [owner EXCEPT ![n] = o] /\ backed' = backed \cup {n}
      /\ wallet' = [wallet EXCEPT ![o] = With(wallet[o], Allocation, usage)]
      /\ credited' = Enter(credited, n, o)
      /\ deducted' = IF usage = 0 THEN deducted ELSE Enter(deducted, d, o)
  BY <1>7 DEF Create, Enter
<1>9. usage = 0 <=> ~owes
  BY <1>3, <1>6, Kinds
<1>10. torn' = (torn \/ clean # "idle")
  BY <1>7
<1>11. QED BY <1>3, <1>5, <1>6, <1>7, <1>8, <1>9, <1>10

\* A grant is imported: its row, its credit and, for the first of its dealer in the
\* run, the dealer's usage.
LEMMA ImportSomething ==
    ASSUME IInv, NEW r \in Runs, ImportGrant(r), owner[run[r].row] = NoOrg
    PROVE  IInv'
<1>1. PICK j, n, o : j = run[r] /\ n = j.row /\ o = Resolve(r, n)
  OBVIOUS
<1>2. PICK d : d = dealer[n]
  OBVIOUS
<1>3. PICK owes : owes = Owes(r, d)
  OBVIOUS
<1>4. /\ owes \in BOOLEAN /\ n \in Legacy /\ n \in Grants /\ d \in Dealers /\ o \in Orgs /\ o # NoOrg
      /\ d \notin late => o = Home(d)
      /\ owner' = [owner EXCEPT ![n] = o] /\ backed' = backed \cup {n}
      /\ wallet' = [wallet EXCEPT ![o] = With(wallet[o], Allocation, IF owes THEN Usage ELSE 0)]
      /\ credited' = Enter(credited, n, o)
      /\ deducted' = IF owes THEN Enter(deducted, d, o) ELSE deducted
      /\ torn' = (torn \/ clean # "idle")
      /\ dealer' = dealer /\ orgs' = orgs /\ clean' = clean /\ late' = late
      /\ forgiven' = forgiven /\ bounds' = bounds
  BY <1>1, <1>2, <1>3, ImportIs
<1>5. /\ j.pc = "create" /\ j \in RunStates /\ Follows(j) /\ TypeOK /\ Rows /\ Budget /\ Cleaning
      /\ owner[n] = NoOrg /\ (owes <=> d \notin j.counted)
  BY <1>1, <1>3, RunIs DEF ImportGrant, At, Owes
<1>6. PICK k \in RunStates :
         /\ run' = [run EXCEPT ![r] = k]
         /\ k.pc = "next" /\ k.row = n + 1 /\ k.known = j.known
         /\ k.from = j.from /\ k.counted = j.counted \cup {d} /\ k.excused = j.excused
         /\ k.from \in Nat /\ n \in Nat
  <2>1. PICK marked, lost : marked = {d} /\ lost = {}
    OBVIOUS
  <2>2. marked \in SUBSET Dealers /\ lost \in SUBSET Grants
    BY <1>4, <2>1
  <2>3. run[r].pc \in {"create", "update"} /\ Advance(r, marked, lost)
    BY <1>1, <1>2, <1>5, <2>1 DEF ImportGrant
  <2>4. \E k \in RunStates :
           /\ run' = [run EXCEPT ![r] = k]
           /\ k.pc = "next" /\ k.row = run[r].row + 1 /\ k.known = run[r].known
           /\ k.from = run[r].from /\ k.counted = run[r].counted \cup marked
           /\ k.excused = run[r].excused \cup lost /\ k.from \in Nat /\ run[r].row \in Nat
    BY <2>2, <2>3, AdvanceIs
  <2>5. QED BY <1>1, <2>1, <2>4
<1>7. run'[r] = k /\ \A x \in Runs \ {r} : run'[x] = run[x]
  BY <1>5, <1>6 DEF TypeOK
<1>8. /\ owner' \in [Grants -> Orgs \cup {NoOrg}] /\ owner'[n] = o
      /\ \A m \in Grants \ {n} : owner'[m] = owner[m]
      /\ \A m \in Grants : owner[m] # NoOrg => owner'[m] # NoOrg
  <2>1. owner \in [Grants -> Orgs \cup {NoOrg}]
    BY <1>5 DEF TypeOK
  <2>2. QED BY <1>4, <2>1
<1>9. Legacy' = Legacy /\ Legacy \subseteq Grants /\ Len(dealer) \in Nat
  BY <1>4, <1>5, Legacies DEF Legacy
<1>10. /\ credited' \in [Grants -> [Orgs -> Nat]] /\ credited'[n][o] > 0
       /\ \A m \in Grants \ {n} : credited'[m] = credited[m]
       /\ Sum(credited'[n]) = Sum(credited[n]) + 1
       /\ Column(credited', Grants, o) = Column(credited, Grants, o) + 1
       /\ \A i \in Orgs \ {o} : Column(credited', Grants, i) = Column(credited, Grants, i)
  <2>1. PICK c, e : c = credited /\ e = credited'
    OBVIOUS
  <2>2. c \in [Grants -> [Orgs -> Nat]] /\ e = Enter(c, n, o)
    BY <1>4, <1>5, <2>1 DEF TypeOK
  <2>3. n \in Grants /\ o \in Orgs /\ IsFiniteSet(Grants)
    BY <1>4, Kinds
  <2>4. /\ e \in [Grants -> [Orgs -> Nat]] /\ e[n][o] > 0
        /\ \A m \in Grants \ {n} : e[m] = c[m]
        /\ Sum(e[n]) = Sum(c[n]) + 1
        /\ Column(e, Grants, o) = Column(c, Grants, o) + 1
        /\ \A i \in Orgs \ {o} : Column(e, Grants, i) = Column(c, Grants, i)
    BY <2>2, <2>3, OneEntryMore
  <2>5. QED BY <2>1, <2>4
<1>11. /\ deducted' \in [Dealers -> [Orgs -> Nat]]
       /\ \A m \in Dealers : Sum(deducted'[m]) = IF owes /\ m = d THEN Sum(deducted[m]) + 1
                                                 ELSE Sum(deducted[m])
       /\ \A i \in Orgs : Column(deducted', Dealers, i)
                             = IF owes /\ i = o THEN Column(deducted, Dealers, i) + 1
                               ELSE Column(deducted, Dealers, i)
  <2>1. PICK c, e : c = deducted /\ e = deducted'
    OBVIOUS
  <2>2. /\ c \in [Dealers -> [Orgs -> Nat]]
        /\ owes => e = Enter(c, d, o)
        /\ ~owes => e = c
    BY <1>4, <1>5, <2>1 DEF TypeOK
  <2>3. d \in Dealers /\ o \in Orgs /\ owes \in BOOLEAN /\ IsFiniteSet(Dealers)
    BY <1>4, Kinds
  <2>4. CASE owes
    <3>1. /\ IsFiniteSet(Dealers) /\ c \in [Dealers -> [Orgs -> Nat]] /\ d \in Dealers /\ o \in Orgs
          /\ e = Enter(c, d, o)
      BY <2>2, <2>3, <2>4
    <3>2. /\ e \in [Dealers -> [Orgs -> Nat]]
          /\ \A m \in Dealers : Sum(e[m]) = IF m = d THEN Sum(c[m]) + 1 ELSE Sum(c[m])
          /\ \A i \in Orgs : Column(e, Dealers, i) = IF i = o THEN Column(c, Dealers, i) + 1
                                                     ELSE Column(c, Dealers, i)
      BY <3>1, Entered
    <3>3. QED BY <2>1, <2>4, <3>2
  <2>5. CASE ~owes
    <3>1. e = c
      BY <2>2, <2>5
    <3>2. QED BY <2>1, <2>2, <2>5, <3>1
  <2>6. QED BY <2>4, <2>5
<1>12. /\ wallet' \in [Orgs -> Wallets] /\ wallet'[o] # NoWallet
       /\ wallet'[o] = With(wallet[o], Allocation, IF owes THEN Usage ELSE 0)
       /\ \A i \in Orgs \ {o} : wallet'[i] = wallet[i]
  <2>1. PICK w, u : w = wallet[o] /\ u = IF owes THEN Usage ELSE 0
    OBVIOUS
  <2>2. w \in Wallets /\ u \in Nat /\ wallet \in [Orgs -> Wallets]
    BY <1>4, <1>5, <2>1, Kinds DEF TypeOK
  <2>3. With(w, Allocation, u) \in Wallets /\ With(w, Allocation, u) # NoWallet
    BY <2>2, WithIs
  <2>4. wallet' = [wallet EXCEPT ![o] = With(w, Allocation, u)]
    BY <1>4, <2>1
  <2>5. QED BY <1>4, <2>1, <2>2, <2>3, <2>4
<1>13. TypeOK'
  <2>1. torn' \in BOOLEAN /\ backed' \subseteq Grants /\ run' \in [Runs -> RunStates]
    BY <1>4, <1>5, <1>6 DEF TypeOK
  <2>2. starts' = starts /\ cleans' = cleans /\ losses' = losses
    BY <1>4 DEF bounds
  <2>3. QED BY <1>4, <1>5, <1>8, <1>10, <1>11, <1>12, <2>1, <2>2 DEF TypeOK
<1>14. Rows'
  <2>1. ASSUME NEW m \in Grants
        PROVE  /\ m \in backed' => owner'[m] # NoOrg
               /\ owner'[m] # NoOrg => m \in Legacy'
    BY <1>4, <1>5, <1>8, <1>9 DEF Rows
  <2>2. ASSUME NEW m \in Legacy', owner'[m] # NoOrg, dealer'[m] \notin late'
        PROVE  owner'[m] = Home(dealer[m])'
    <3>1. CASE m = n
      BY <1>2, <1>4, <1>8, <2>2, <3>1 DEF Home
    <3>2. CASE m # n
      <4>1. m \in Legacy /\ owner[m] = owner'[m] /\ dealer[m] \notin late
        BY <1>4, <1>8, <1>9, <2>2, <3>2
      <4>2. owner[m] = Home(dealer[m])
        BY <1>5, <2>2, <4>1 DEF Rows
      <4>3. QED BY <1>4, <4>1, <4>2 DEF Home
    <3>3. QED BY <3>1, <3>2
  <2>3. QED BY <2>1, <2>2 DEF Rows
<1>15. Budget'
  <2>1. SUFFICES ASSUME NEW c \in Dealers
                 PROVE  Sum(deducted'[c]) + Cardinality(StillOwing(c)') <= starts'
    BY DEF Budget
  <2>2. PICK S, T, x, y : /\ S = StillOwing(c) /\ T = StillOwing(c)'
                          /\ x = Sum(deducted[c]) /\ y = Sum(deducted'[c])
    OBVIOUS
  <2>3. S \in SUBSET Runs /\ T \in SUBSET S
    BY <1>1, <1>5, <1>6, <1>7, <2>2 DEF StillOwing, Owing
  <2>4. y = x \/ (y = x + 1 /\ \E i \in S : i \notin T)
    <3>1. CASE owes /\ c = d
      <4>1. r \in S /\ r \notin T
        BY <1>1, <1>5, <1>6, <1>7, <2>2, <3>1 DEF StillOwing, Owing
      <4>2. QED BY <1>11, <2>2, <3>1, <4>1
    <3>2. CASE ~(owes /\ c = d)
      BY <1>11, <2>2, <3>2
    <3>3. QED BY <3>1, <3>2
  <2>5. x \in Nat /\ y \in Nat /\ starts \in Nat
    <3>1. x \in Nat /\ starts \in Nat
      BY <1>5, <2>2, Totals, Legacies
    <3>2. QED BY <2>4, <3>1
  <2>6. x + Cardinality(S) <= starts
    BY <1>5, <2>2 DEF Budget
  <2>7. y + Cardinality(T) <= starts
    BY <2>3, <2>4, <2>5, <2>6, Kinds, FewerLeft
  <2>8. starts' = starts
    BY <1>4 DEF bounds
  <2>9. QED BY <2>2, <2>7, <2>8
<1>16. Cleaning'
  <2>1. credited' # None(Grants)
    BY <1>4, <1>10, Kinds, NoEntries
  <2>2. QED BY <1>4, <1>12, <2>1 DEF Cleaning
<1>17. ASSUME NEW x \in Runs PROVE Follows(run[x])'
  <2>1. CASE x = r
    <3>1. \A m \in 1..k.from : m < n + 1 => m < n \/ m = n
      BY <1>6
    <3>2. \A m \in 1..k.from : m \in Grants
      BY <1>5, <1>6, <1>9 DEF Follows, Legacy
    <3>3. \A m \in 1..k.from : m < k.row => owner'[m] # NoOrg \/ m \in k.excused
      BY <1>1, <1>4, <1>5, <1>6, <1>8, <3>1, <3>2 DEF Follows
    <3>4. Follows(k)'
      BY <1>4, <1>5, <1>6, <3>3 DEF Follows
    <3>5. QED BY <1>7, <2>1, <3>4 DEF Follows
  <2>2. CASE x # r
    <3>1. PICK z : z = run[x]
      OBVIOUS
    <3>2. z \in RunStates /\ Follows(z) /\ run'[x] = z
      BY <1>7, <2>2, <3>1, RunIs
    <3>3. Len(dealer') \in Nat /\ Len(dealer) <= Len(dealer')
      BY <1>4, <1>9
    <3>4. Follows(z)'
      BY <1>4, <1>5, <1>8, <3>2, <3>3, FollowsKept
    <3>5. QED BY <3>2, <3>4 DEF Follows
  <2>3. QED BY <2>1, <2>2
<1>18. ASSUME Agreed' PROVE (RowsCredited /\ WalletsKept /\ Deducted)'
  <2>1. RowsCredited /\ WalletsKept /\ Deducted
    BY <1>4, <1>18 DEF Agreed, IInv
  <2>2. RowsCredited'
    <3>1. ASSUME NEW m \in Grants PROVE Sum(credited'[m]) = IF owner'[m] = NoOrg THEN 0 ELSE 1
      <4>1. CASE m = n
        <5>1. Sum(credited[n]) = 0
          BY <1>4, <1>5, <2>1 DEF RowsCredited
        <5>2. QED BY <1>4, <1>8, <1>10, <4>1, <5>1
      <4>2. CASE m # n
        BY <1>8, <1>10, <2>1, <4>2 DEF RowsCredited
      <4>3. QED BY <4>1, <4>2
    <3>2. ASSUME NEW m \in Legacy', owner'[m] # NoOrg, dealer'[m] \notin late'
          PROVE  credited'[m][owner'[m]] > 0
      <4>1. CASE m = n
        BY <1>8, <1>10, <4>1
      <4>2. CASE m # n
        <5>1. m \in Legacy /\ owner'[m] = owner[m] /\ credited'[m] = credited[m]
          BY <1>8, <1>9, <1>10, <4>2
        <5>2. QED BY <1>4, <2>1, <3>2, <5>1 DEF RowsCredited
      <4>3. QED BY <4>1, <4>2
    <3>3. QED BY <3>1, <3>2 DEF RowsCredited
  <2>3. WalletsKept'
    <3>1. SUFFICES ASSUME NEW i \in Orgs
                   PROVE  /\ wallet'[i] = IF Credits(i)' = 0 THEN NoWallet
                                ELSE [balance |-> Allocation * Credits(i)' - Usage * Debits(i)',
                                      used |-> Usage * Debits(i)']
                          /\ Credits(i)' = 0 => Debits(i)' = 0
      BY DEF WalletsKept
    <3>2. PICK w, x, y : w = wallet[i] /\ x = Credits(i) /\ y = Debits(i)
      OBVIOUS
    <3>3. /\ x \in Nat /\ y \in Nat
          /\ Credits(i)' = IF i = o THEN x + 1 ELSE x
          /\ Debits(i)' = IF owes /\ i = o THEN y + 1 ELSE y
      BY <1>5, <1>10, <1>11, <3>2, Totals DEF Credits, Debits, Column
    <3>4. /\ x = 0 => y = 0
          /\ w = IF x = 0 THEN NoWallet
                 ELSE [balance |-> Allocation * x - Usage * y, used |-> Usage * y]
      BY <2>1, <3>2 DEF WalletsKept
    <3>5. CASE i # o
      BY <1>12, <3>2, <3>3, <3>4, <3>5
    <3>6. CASE i = o
      <4>1. PICK z : z = IF owes THEN y + 1 ELSE y
        OBVIOUS
      <4>2. With(w, Allocation, IF owes THEN Usage ELSE 0)
               = [balance |-> Allocation * (x + 1) - Usage * z, used |-> Usage * z]
        BY <1>4, <3>3, <3>4, <4>1, WalletTakes
      <4>3. Credits(i)' = x + 1 /\ Debits(i)' = z /\ x + 1 # 0
        BY <3>3, <3>6, <4>1
      <4>4. wallet'[i] = With(w, Allocation, IF owes THEN Usage ELSE 0)
        BY <1>12, <3>2, <3>6
      <4>5. QED BY <4>2, <4>3, <4>4
    <3>7. QED BY <3>5, <3>6
  <2>4. ASSUME NEW c \in Dealers, Paid(c) \/ (owes /\ c = d) PROVE Paid(c)'
    <3>1. Sum(deducted[c]) \in Nat
      BY <1>5, Totals
    <3>2. QED BY <1>4, <1>11, <2>4, <3>1 DEF Paid
  <2>5. Paid(d)'
    <3>1. CASE owes
      BY <1>4, <2>4, <3>1
    <3>2. CASE ~owes
      BY <1>1, <1>4, <1>5, <2>1, <2>4, <3>2 DEF Deducted
    <3>3. QED BY <1>4, <3>1, <3>2
  <2>6. ASSUME NEW m \in Legacy', owner'[m] # NoOrg PROVE Paid(dealer[m])'
    <3>1. m \in Legacy /\ dealer'[m] = dealer[m] /\ dealer[m] \in Dealers
      BY <1>4, <1>5, <1>9, Legacies
    <3>2. CASE m = n
      BY <1>2, <2>5, <3>1, <3>2 DEF Paid
    <3>3. CASE m # n
      <4>1. owner[m] # NoOrg
        BY <1>8, <1>9, <2>6, <3>1, <3>3
      <4>2. Paid(dealer[m])
        BY <2>1, <3>1, <4>1 DEF Deducted
      <4>3. PICK c \in Dealers : c = dealer[m]
        BY <3>1
      <4>4. Paid(c)'
        BY <2>4, <4>2, <4>3
      <4>5. QED BY <3>1, <4>3, <4>4 DEF Paid
    <3>4. QED BY <3>2, <3>3
  <2>7. ASSUME NEW x \in Runs, NEW c \in run'[x].counted PROVE Paid(c)'
    <3>1. CASE c = d
      BY <2>5, <3>1
    <3>2. CASE c # d
      <4>1. c \in run[x].counted /\ c \in Dealers
        <5>1. PICK z : z = run[x]
          OBVIOUS
        <5>2. z \in RunStates /\ c \in z.counted
          BY <1>1, <1>6, <1>7, <2>7, <3>2, <5>1, RunIs
        <5>3. QED BY <5>1, <5>2 DEF RunStates
      <4>2. QED BY <2>1, <2>4, <4>1 DEF Deducted
    <3>3. QED BY <3>1, <3>2
  <2>8. Deducted'
    BY <2>6, <2>7 DEF Deducted
  <2>9. QED BY <2>2, <2>3, <2>8
<1>19. QED BY <1>13, <1>14, <1>15, <1>16, <1>17, <1>18 DEF IInv

LEMMA ImportGrantStep ==
    ASSUME IInv, NEW r \in Runs, ImportGrant(r)
    PROVE  IInv'
BY ImportNothing, ImportSomething

-----------------------------------------------------------------------------
\* What is owed is not owed by more runs when the rows, or the runs, are gone.
LEMMA BudgetKept ==
    ASSUME TypeOK, Budget, starts' = starts,
           \A d \in Dealers : /\ Sum(deducted'[d]) = Sum(deducted[d]) \/ Sum(deducted'[d]) = 0
                              /\ StillOwing(d)' \subseteq StillOwing(d)
    PROVE  Budget'
<1>1. SUFFICES ASSUME NEW d \in Dealers
               PROVE  Sum(deducted'[d]) + Cardinality(StillOwing(d)') <= starts'
  BY DEF Budget
<1>2. PICK S, T, x, y : /\ S = StillOwing(d) /\ T = StillOwing(d)'
                        /\ x = Sum(deducted[d]) /\ y = Sum(deducted'[d])
  OBVIOUS
<1>3. S \in SUBSET Runs /\ T \in SUBSET S
  BY <1>2 DEF StillOwing
<1>4. x \in Nat /\ starts \in Nat /\ x + Cardinality(S) <= starts
  BY <1>2, Totals, Legacies DEF Budget
<1>5. x + Cardinality(T) <= starts
  BY <1>3, <1>4, Kinds, FewerLeft
<1>6. Cardinality(T) \in Nat
  BY <1>3, Kinds, FS_Subset, FS_CardinalityType
<1>7. QED BY <1>2, <1>4, <1>5, <1>6

\* The clean starts, or nothing happens.
LEMMA NothingHappens ==
    ASSUME IInv, UNCHANGED <<dealer, orgs, tables, run, history, starts>>,
           clean' \in {clean, "legacy"}, clean' = clean \/ clean = "idle",
           cleans' \in 0..MaxCleans, losses' \in 0..MaxLosses
    PROVE  IInv'
<1>1. /\ dealer' = dealer /\ orgs' = orgs /\ owner' = owner /\ backed' = backed
      /\ wallet' = wallet /\ credited' = credited /\ deducted' = deducted /\ run' = run
      /\ late' = late /\ forgiven' = forgiven /\ torn' = torn /\ starts' = starts
  BY DEF tables, journal, history
<1>2. TypeOK /\ Rows /\ Budget /\ Cleaning /\ \A r \in Runs : Follows(run[r])
  BY DEF IInv
<1>3. TypeOK'
  BY <1>1, <1>2 DEF TypeOK
<1>4. Rows' /\ Cleaning'
  BY <1>1, <1>2 DEF Rows, Legacy, Home, Cleaning
<1>5. Budget'
  BY <1>1, <1>2 DEF Budget, StillOwing, Owing
<1>6. \A r \in Runs : Follows(run[r])'
  BY <1>1, <1>2 DEF Follows, Legacy
<1>7. Agreed' => (RowsCredited /\ WalletsKept /\ Deducted)'
  <2>1. Agreed' => Agreed
    BY <1>1 DEF Agreed
  <2>2. SUFFICES ASSUME RowsCredited /\ WalletsKept /\ Deducted
                 PROVE  (RowsCredited /\ WalletsKept /\ Deducted)'
    BY <2>1 DEF IInv
  <2>3. RowsCredited' /\ WalletsKept'
    BY <1>1, <2>2 DEF RowsCredited, WalletsKept, Credits, Debits, Legacy
  <2>4. Deducted'
    BY <1>1, <2>2 DEF Deducted, Paid, Legacy
  <2>5. QED BY <2>3, <2>4
<1>8. QED BY <1>3, <1>4, <1>5, <1>6, <1>7 DEF IInv

\* The statements of a clean before the last: the tables do not agree after them.
LEMMA CleanLegacyStep ==
    ASSUME IInv, CleanLegacy
    PROVE  IInv'
<1>1. /\ dealer' = dealer /\ orgs' = orgs /\ owner' = owner /\ backed' = {}
      /\ wallet' = wallet /\ credited' = credited /\ deducted' = deducted /\ run' = run
      /\ late' = late /\ forgiven' = forgiven /\ torn' = torn /\ clean' = "journal"
      /\ starts' = starts /\ cleans' = cleans /\ losses' = losses
  BY DEF CleanLegacy, journal, history, bounds
<1>2. TypeOK /\ Rows /\ Budget /\ \A r \in Runs : Follows(run[r])
  BY DEF IInv
<1>3. TypeOK'
  BY <1>1, <1>2 DEF TypeOK
<1>4. Rows' /\ Cleaning' /\ ~Agreed'
  BY <1>1, <1>2 DEF Rows, Legacy, Home, Cleaning, Agreed
<1>5. Budget'
  BY <1>1, <1>2 DEF Budget, StillOwing, Owing
<1>6. \A r \in Runs : Follows(run[r])'
  BY <1>1, <1>2 DEF Follows, Legacy
<1>7. QED BY <1>3, <1>4, <1>5, <1>6 DEF IInv

LEMMA CleanJournalStep ==
    ASSUME IInv, CleanJournal
    PROVE  IInv'
<1>1. /\ dealer' = dealer /\ orgs' = orgs /\ owner' = owner /\ backed' = backed
      /\ wallet' = wallet /\ credited' = None(Grants) /\ deducted' = None(Dealers) /\ run' = run
      /\ late' = late /\ forgiven' = forgiven /\ torn' = torn /\ clean' = "wallets"
      /\ starts' = starts /\ cleans' = cleans /\ losses' = losses
  BY DEF CleanJournal, history, bounds
<1>2. TypeOK /\ Rows /\ Budget /\ \A r \in Runs : Follows(run[r])
  BY DEF IInv
<1>3. TypeOK'
  <2>1. /\ None(Grants) \in [Grants -> [Orgs -> Nat]]
        /\ None(Dealers) \in [Dealers -> [Orgs -> Nat]]
    BY DEF None
  <2>2. QED BY <1>1, <1>2, <2>1 DEF TypeOK
<1>4. Rows' /\ Cleaning' /\ ~Agreed'
  BY <1>1, <1>2 DEF Rows, Legacy, Home, Cleaning, Agreed
<1>5. Budget'
  <2>1. \A d \in Dealers : Sum(deducted'[d]) = 0
    BY <1>1, Kinds, NoEntries
  <2>2. \A d \in Dealers : StillOwing(d)' = StillOwing(d)
    BY <1>1 DEF StillOwing, Owing
  <2>3. QED BY <1>1, <1>2, <2>1, <2>2, BudgetKept
<1>6. \A r \in Runs : Follows(run[r])'
  BY <1>1, <1>2 DEF Follows, Legacy
<1>7. QED BY <1>3, <1>4, <1>5, <1>6 DEF IInv

LEMMA CleanWalletsStep ==
    ASSUME IInv, CleanWallets
    PROVE  IInv'
<1>1. /\ dealer' = dealer /\ orgs' = orgs /\ owner' = owner /\ backed' = backed
      /\ credited' = credited /\ deducted' = deducted /\ run' = run
      /\ late' = late /\ forgiven' = forgiven /\ clean = "wallets"
      /\ starts' = starts /\ cleans' = cleans /\ losses' = losses
      /\ \/ /\ credited = None(Grants) /\ wallet' = [o \in Orgs |-> NoWallet]
            /\ clean' = "rows" /\ torn' = torn
         \/ clean' = "idle" /\ torn' = TRUE /\ wallet' = wallet
  BY DEF CleanWallets, journal, bounds
<1>2. TypeOK /\ Rows /\ Budget /\ Cleaning /\ \A r \in Runs : Follows(run[r])
  BY DEF IInv
<1>3. TypeOK'
  <2>1. [o \in Orgs |-> NoWallet] \in [Orgs -> Wallets]
    BY DEF Wallets
  <2>2. QED BY <1>1, <1>2, <2>1 DEF TypeOK
<1>4. Rows' /\ ~Agreed'
  BY <1>1, <1>2 DEF Rows, Legacy, Home, Agreed
<1>5. Cleaning'
  BY <1>1, <1>2 DEF Cleaning
<1>6. Budget'
  BY <1>1, <1>2 DEF Budget, StillOwing, Owing
<1>7. \A r \in Runs : Follows(run[r])'
  BY <1>1, <1>2 DEF Follows, Legacy
<1>8. QED BY <1>3, <1>4, <1>5, <1>6, <1>7 DEF IInv

\* The last statement of a clean: the runs under way are excused, and what they
\* have counted is forgiven.  If the wallets are still gone the tables agree again.
LEMMA CleanRowsStep ==
    ASSUME IInv, CleanRows
    PROVE  IInv'
<1>1. /\ dealer' = dealer /\ orgs' = orgs /\ owner' = [n \in Grants |-> NoOrg] /\ backed' = {}
      /\ wallet' = wallet /\ credited' = credited /\ deducted' = deducted
      /\ clean = "rows" /\ clean' = "idle"
      /\ torn' = (wallet # [o \in Orgs |-> NoWallet])
      /\ late' = (IF Idle THEN {} ELSE late)
      /\ forgiven' = UNION {run[r].counted : r \in Runs}
      /\ starts' = starts /\ cleans' = cleans /\ losses' = losses
  BY DEF CleanRows, journal, bounds
<1>2. TypeOK /\ Rows /\ Budget /\ Cleaning /\ \A r \in Runs : Follows(run[r])
  BY DEF IInv
<1>3. ASSUME NEW r \in Runs
      PROVE  /\ run'[r] \in RunStates /\ run'[r].pc = run[r].pc /\ run'[r].row = run[r].row
             /\ run'[r].known = run[r].known /\ run'[r].counted = run[r].counted
             /\ run'[r].from = run[r].from
             /\ run[r].pc # "idle" => run'[r].excused = Grants \cap 1..run[r].row
  <2>1. PICK j : j = run[r]
    OBVIOUS
  <2>2. j \in RunStates
    BY <2>1, RunIs
  <2>3. run'[r] = IF j.pc # "idle" THEN [j EXCEPT !.excused = Grants \cap 1..j.row] ELSE j
    BY <2>1 DEF CleanRows, Running
  <2>4. Grants \cap 1..j.row \in SUBSET Grants
    OBVIOUS
  <2>5. QED BY <2>1, <2>2, <2>3, <2>4 DEF RunStates
<1>4. TypeOK'
  <2>1. run' \in [Runs -> RunStates]
    <3>1. run' = [r \in Runs |-> run'[r]]
      BY DEF CleanRows
    <3>2. QED BY <1>3, <3>1
  <2>2. forgiven' \subseteq Dealers
    <3>1. ASSUME NEW r \in Runs PROVE run[r].counted \subseteq Dealers
      <4>1. PICK j : j = run[r]
        OBVIOUS
      <4>2. j \in RunStates
        BY <4>1, RunIs
      <4>3. QED BY <4>1, <4>2 DEF RunStates
    <3>2. QED BY <1>1, <3>1
  <2>3. owner' \in [Grants -> Orgs \cup {NoOrg}] /\ torn' \in BOOLEAN
    BY <1>1
  <2>4. QED BY <1>1, <1>2, <2>1, <2>2, <2>3 DEF TypeOK
<1>5. Rows' /\ Cleaning'
  <2>1. Legacy' = Legacy /\ Legacy \subseteq Grants
    BY <1>1, <1>2, Legacies DEF Legacy
  <2>2. QED BY <1>1, <2>1 DEF Rows, Cleaning
<1>6. Budget'
  <2>1. \A d \in Dealers : StillOwing(d)' = StillOwing(d)
    BY <1>3 DEF StillOwing, Owing
  <2>2. QED BY <1>1, <1>2, <2>1, BudgetKept
<1>7. ASSUME NEW r \in Runs PROVE Follows(run[r])'
  <2>1. PICK j, k : j = run[r] /\ k = run'[r]
    OBVIOUS
  <2>2. /\ j \in RunStates /\ Follows(j) /\ k.pc = j.pc /\ k.row = j.row
        /\ k.known = j.known /\ k.from = j.from
        /\ j.pc # "idle" => k.excused = Grants \cap 1..j.row
    BY <1>3, <2>1, RunIs
  <2>3. /\ Legacy \subseteq Grants /\ Len(dealer) \in Nat /\ j.from \in Nat /\ j.row \in Nat
        /\ Legacy' = Legacy
    BY <1>1, <1>2, <2>2, Legacies, Kinds DEF RunStates, Legacy
  <2>4. \A n \in 1..k.from : n < k.row => n \in Grants \cap 1..j.row
    BY <2>2, <2>3 DEF Follows, Legacy
  <2>5. j.pc = "update" => j.row \in Grants \cap 1..j.row
    BY <2>2, <2>3 DEF Follows, Legacy
  <2>6. j.pc # "idle" => late' = late
    BY <1>1, <2>1 DEF Idle, Running
  <2>7. Follows(k)'
    BY <1>1, <2>2, <2>3, <2>4, <2>5, <2>6 DEF Follows
  <2>8. QED BY <2>1, <2>7 DEF Follows
<1>8. ASSUME Agreed' PROVE (RowsCredited /\ WalletsKept /\ Deducted)'
  <2>1. wallet = [o \in Orgs |-> NoWallet]
    BY <1>1, <1>8 DEF Agreed
  <2>2. (\A o \in Orgs : wallet[o] = NoWallet) /\ credited = None(Grants) /\ deducted = None(Dealers)
    <3>1. \A o \in Orgs : wallet[o] = NoWallet
      BY <2>1
    <3>2. QED BY <1>1, <1>2, <3>1 DEF Cleaning
  <2>3. /\ \A n \in Grants : Sum(credited[n]) = 0
        /\ \A o \in Orgs : Credits(o) = 0 /\ Debits(o) = 0
    BY <1>2, <2>2, Totals, Kinds, NoEntries
  <2>4. Legacy' \subseteq Grants
    BY <1>1, <1>2, Legacies DEF Legacy
  <2>5. RowsCredited'
    BY <1>1, <2>3, <2>4 DEF RowsCredited
  <2>6. WalletsKept'
    BY <1>1, <2>2, <2>3 DEF WalletsKept, Credits, Debits
  <2>7. Deducted'
    BY <1>1, <1>3, <2>4 DEF Deducted, Paid
  <2>8. QED BY <2>5, <2>6, <2>7
<1>9. QED BY <1>4, <1>5, <1>6, <1>7, <1>8 DEF IInv

\* The server restarts: no run is left, and a clean that has done something is torn.
LEMMA CrashStep ==
    ASSUME IInv, Crash
    PROVE  IInv'
<1>1. /\ dealer' = dealer /\ orgs' = orgs /\ owner' = owner /\ backed' = backed
      /\ wallet' = wallet /\ credited' = credited /\ deducted' = deducted
      /\ run' = [r \in Runs |-> NoRun] /\ late' = late /\ forgiven' = forgiven
      /\ clean' = "idle" /\ torn' = (torn \/ clean \notin {"idle", "legacy"})
      /\ starts' = starts /\ cleans' = cleans /\ losses' = losses
  BY DEF Crash, tables, journal, bounds
<1>2. TypeOK /\ Rows /\ Budget
  BY DEF IInv
<1>3. \A r \in Runs : run'[r].pc = "idle" /\ run'[r].counted = {} /\ run'[r].from = 0
  BY <1>1, NoRunIs
<1>4. TypeOK'
  <2>1. run' \in [Runs -> RunStates] /\ torn' \in BOOLEAN
    BY <1>1, NoRunIs
  <2>2. QED BY <1>1, <1>2, <2>1 DEF TypeOK
<1>5. Rows' /\ Cleaning'
  BY <1>1, <1>2 DEF Rows, Legacy, Home, Cleaning
<1>6. Budget'
  <2>1. \A d \in Dealers : StillOwing(d)' \subseteq StillOwing(d)
    BY <1>3 DEF StillOwing, Owing
  <2>2. QED BY <1>1, <1>2, <2>1, BudgetKept
<1>7. \A r \in Runs : Follows(run[r])'
  BY <1>1, <1>2, <1>3, Legacies DEF Follows
<1>8. ASSUME Agreed' PROVE (RowsCredited /\ WalletsKept /\ Deducted)'
  <2>1. Agreed
    BY <1>1, <1>8 DEF Agreed
  <2>2. RowsCredited /\ WalletsKept /\ Deducted
    BY <2>1 DEF IInv
  <2>3. RowsCredited' /\ WalletsKept'
    BY <1>1, <2>2 DEF RowsCredited, WalletsKept, Credits, Debits, Legacy
  <2>4. Deducted'
    BY <1>1, <1>3, <2>2 DEF Deducted, Paid, Legacy
  <2>5. QED BY <2>3, <2>4
<1>9. QED BY <1>4, <1>5, <1>6, <1>7, <1>8 DEF IInv

\* An organization is imported: its dealer is late, unless nothing of the dealer's is
\* there and no run is under way.
LEMMA ImportDealerStep ==
    ASSUME IInv, NEW d \in Dealers, ImportDealer(d)
    PROVE  IInv'
<1>1. /\ dealer' = dealer /\ orgs' = orgs \cup {d} /\ owner' = owner /\ backed' = backed
      /\ wallet' = wallet /\ credited' = credited /\ deducted' = deducted /\ run' = run
      /\ late' = (IF ~Idle \/ \E n \in Legacy : dealer[n] = d /\ owner[n] # NoOrg
                  THEN late \cup {d} ELSE late)
      /\ forgiven' = forgiven /\ clean' = clean /\ torn' = torn
      /\ starts' = starts /\ cleans' = cleans /\ losses' = losses
  BY DEF ImportDealer, tables, journal, bounds
<1>2. TypeOK /\ Rows /\ Budget /\ Cleaning /\ \A r \in Runs : Follows(run[r])
  BY DEF IInv
<1>3. TypeOK'
  BY <1>1, <1>2 DEF TypeOK
<1>4. late \subseteq late'
  BY <1>1
<1>5. Rows'
  <2>1. ASSUME NEW n \in Legacy, owner[n] # NoOrg, dealer[n] \notin late'
        PROVE  owner[n] = Home(dealer[n])'
    <3>1. dealer[n] # d /\ owner[n] = Home(dealer[n])
      BY <1>1, <1>2, <1>4, <2>1 DEF Rows
    <3>2. QED BY <1>1, <3>1 DEF Home
  <2>2. Legacy' = Legacy
    BY <1>1 DEF Legacy
  <2>3. QED BY <1>1, <1>2, <2>1, <2>2 DEF Rows
<1>6. Cleaning'
  BY <1>1, <1>2 DEF Cleaning
<1>7. Budget'
  BY <1>1, <1>2 DEF Budget, StillOwing, Owing
<1>8. ASSUME NEW r \in Runs PROVE Follows(run[r])'
  <2>1. PICK j : j = run[r]
    OBVIOUS
  <2>2. j \in RunStates /\ Follows(j) /\ run'[r] = j
    BY <1>1, <2>1, RunIs
  <2>3. j.pc # "idle" => late' = late \cup {d}
    BY <1>1, <2>1 DEF Idle, Running
  <2>4. Follows(j)'
    BY <1>1, <2>2, <2>3 DEF Follows, Legacy
  <2>5. QED BY <2>2, <2>4 DEF Follows
<1>9. ASSUME Agreed' PROVE (RowsCredited /\ WalletsKept /\ Deducted)'
  <2>1. RowsCredited /\ WalletsKept /\ Deducted
    BY <1>1, <1>9 DEF Agreed, IInv
  <2>2. RowsCredited'
    BY <1>1, <1>4, <2>1 DEF RowsCredited, Legacy
  <2>3. WalletsKept'
    BY <1>1, <2>1 DEF WalletsKept, Credits, Debits
  <2>4. Deducted'
    BY <1>1, <2>1 DEF Deducted, Paid, Legacy
  <2>5. QED BY <2>2, <2>3, <2>4
<1>10. QED BY <1>3, <1>5, <1>6, <1>7, <1>8, <1>9 DEF IInv

\* The legacy system grants: the new grant has no row yet.
LEMMA LegacyGrantsStep ==
    ASSUME IInv, NEW d \in Dealers, LegacyGrants(d)
    PROVE  IInv'
<1>1. /\ Len(dealer) < MaxGrants /\ dealer' = Append(dealer, d)
      /\ orgs' = orgs /\ owner' = owner /\ backed' = backed
      /\ wallet' = wallet /\ credited' = credited /\ deducted' = deducted /\ run' = run
      /\ late' = late /\ forgiven' = forgiven /\ clean' = clean /\ torn' = torn
      /\ starts' = starts /\ cleans' = cleans /\ losses' = losses
  BY DEF LegacyGrants, tables, journal, history, bounds
<1>2. TypeOK /\ Rows /\ Budget /\ Cleaning /\ \A r \in Runs : Follows(run[r])
  BY DEF IInv
<1>3. PICK z : z = Len(dealer)
  OBVIOUS
<1>4. /\ z \in Nat /\ Len(dealer') = z + 1 /\ dealer' \in Seq(Dealers) /\ z + 1 \in Grants
      /\ \A n \in 1..z : dealer'[n] = dealer[n]
  BY <1>1, <1>2, <1>3, Kinds DEF TypeOK, Grants
<1>5. /\ Legacy \subseteq Legacy' /\ \A n \in Legacy' : n \in Legacy \/ n = z + 1
      /\ \A n \in Legacy : dealer'[n] = dealer[n]
      /\ z + 1 \notin Legacy /\ owner[z + 1] = NoOrg
  <2>1. Legacy = 1..z /\ Legacy' = 1..(z + 1)
    BY <1>3, <1>4 DEF Legacy
  <2>2. z + 1 \notin 1..z /\ \A n \in 1..(z + 1) : n \in 1..z \/ n = z + 1
    BY <1>4
  <2>3. owner[z + 1] = NoOrg
    BY <1>2, <1>4, <2>1, <2>2 DEF Rows
  <2>4. 1..z \subseteq 1..(z + 1)
    BY <1>4
  <2>5. QED BY <1>4, <2>1, <2>2, <2>3, <2>4
<1>6. TypeOK'
  <2>1. Len(dealer') <= MaxGrants
    BY <1>1, <1>3, <1>4, Kinds
  <2>2. QED BY <1>1, <1>2, <1>4, <2>1 DEF TypeOK
<1>7. Rows'
  BY <1>1, <1>2, <1>5 DEF Rows, Home
<1>8. Cleaning'
  BY <1>1, <1>2 DEF Cleaning
<1>9. Budget'
  BY <1>1, <1>2 DEF Budget, StillOwing, Owing
<1>10. ASSUME NEW r \in Runs PROVE Follows(run[r])'
  <2>1. PICK j : j = run[r]
    OBVIOUS
  <2>2. j \in RunStates /\ Follows(j) /\ run'[r] = j
    BY <1>1, <2>1, RunIs
  <2>3. Len(dealer') \in Nat /\ Len(dealer) <= Len(dealer')
    BY <1>3, <1>4
  <2>4. Follows(j)'
    BY <1>1, <1>2, <2>2, <2>3, FollowsKept
  <2>5. QED BY <2>2, <2>4 DEF Follows
<1>11. ASSUME Agreed' PROVE (RowsCredited /\ WalletsKept /\ Deducted)'
  <2>1. RowsCredited /\ WalletsKept /\ Deducted
    BY <1>1, <1>11 DEF Agreed, IInv
  <2>2. RowsCredited'
    BY <1>1, <1>5, <2>1 DEF RowsCredited
  <2>3. WalletsKept'
    BY <1>1, <2>1 DEF WalletsKept, Credits, Debits
  <2>4. Deducted'
    BY <1>1, <1>5, <2>1 DEF Deducted, Paid
  <2>5. QED BY <2>2, <2>3, <2>4
<1>12. QED BY <1>6, <1>7, <1>8, <1>9, <1>10, <1>11 DEF IInv

-----------------------------------------------------------------------------
LEMMA InitIInv == Init => IInv
<1>1. SUFFICES ASSUME Init PROVE IInv
  OBVIOUS
<1>2. PICK e \in Dealers : dealer = <<e>>
  BY <1>1 DEF Init
<1>3. dealer \in Seq(Dealers) /\ Len(dealer) = 1 /\ Legacy = 1..1 /\ 1 \in Grants
  BY <1>2, Kinds, LegacyCreditsAssumption DEF Legacy, Grants
<1>4. /\ owner = [n \in Grants |-> NoOrg] /\ backed = {} /\ wallet = [o \in Orgs |-> NoWallet]
      /\ credited = None(Grants) /\ deducted = None(Dealers)
      /\ clean = "idle" /\ torn = FALSE /\ starts = 0
  BY <1>1 DEF Init, EmptyTables
<1>5. \A r \in Runs : /\ run[r] = NoRun /\ run[r].pc = "idle" /\ run[r].from = 0
                      /\ run[r].counted = {}
  BY <1>1, NoRunIs DEF Init
<1>6. TypeOK
  <2>1. /\ None(Grants) \in [Grants -> [Orgs -> Nat]] /\ None(Dealers) \in [Dealers -> [Orgs -> Nat]]
        /\ [o \in Orgs |-> NoWallet] \in [Orgs -> Wallets]
    BY DEF None, Wallets
  <2>2. run \in [Runs -> RunStates]
    BY <1>1, NoRunIs DEF Init
  <2>3. Len(dealer) <= MaxGrants
    BY <1>3, Kinds DEF Grants
  <2>4. /\ 0 \in 0..MaxStarts /\ 0 \in 0..MaxCleans /\ 0 \in 0..MaxLosses
    BY LegacyCreditsAssumption
  <2>5. QED BY <1>1, <1>3, <1>4, <2>1, <2>2, <2>3, <2>4 DEF Init, TypeOK
<1>7. Rows /\ Cleaning
  BY <1>3, <1>4 DEF Rows, Cleaning
<1>8. Budget
  <2>1. \A d \in Dealers : Sum(deducted[d]) = 0
    BY <1>4, Kinds, NoEntries
  <2>2. \A d \in Dealers : StillOwing(d) = {}
    BY <1>5 DEF StillOwing, Owing
  <2>3. Cardinality({}) = 0
    BY FS_EmptySet
  <2>4. QED BY <1>4, <2>1, <2>2, <2>3 DEF Budget
<1>9. \A r \in Runs : Follows(run[r])
  BY <1>3, <1>5 DEF Follows
<1>10. RowsCredited /\ WalletsKept /\ Deducted
  <2>1. /\ \A n \in Grants : Sum(credited[n]) = 0 /\ owner[n] = NoOrg
        /\ \A o \in Orgs : Credits(o) = 0 /\ Debits(o) = 0
    BY <1>4, <1>6, Totals, Kinds, NoEntries
  <2>2. \A n \in Legacy : n \in Grants
    BY <1>3
  <2>3. QED BY <1>4, <1>5, <2>1, <2>2 DEF RowsCredited, WalletsKept, Deducted
<1>11. QED BY <1>6, <1>7, <1>8, <1>9, <1>10 DEF IInv

LEMMA NextIInv == IInv /\ [Next]_vars => IInv'
<1>1. SUFFICES ASSUME IInv, [Next]_vars PROVE IInv'
  OBVIOUS
<1>2. TypeOK
  BY <1>1 DEF IInv
<1>3. ASSUME NEW r \in Runs, Start(r) \/ Progress(r) PROVE IInv'
  <2>1. CASE Start(r)
    BY <1>1, <2>1, StartStep
  <2>2. CASE FindGrant(r)
    BY <1>1, <2>2, FindGrantStep
  <2>3. CASE ImportGrant(r)
    BY <1>1, <2>3, ImportGrantStep
  <2>4. CASE LoseGrant(r)
    BY <1>1, <2>4, LoseGrantStep
  <2>5. CASE UpdateGrant(r)
    BY <1>1, <2>5, UpdateGrantStep
  <2>6. CASE Finish(r)
    BY <1>1, <2>6, FinishStep
  <2>7. QED BY <1>3, <2>1, <2>2, <2>3, <2>4, <2>5, <2>6 DEF Progress
<1>4. CASE StartClean
  <2>1. cleans' \in 0..MaxCleans /\ losses' \in 0..MaxLosses
    BY <1>2, <1>4, Counters DEF StartClean
  <2>2. QED BY <1>1, <1>4, <2>1, NothingHappens DEF StartClean
<1>5. CASE CleanLegacy
  BY <1>1, <1>5, CleanLegacyStep
<1>6. CASE CleanJournal
  BY <1>1, <1>6, CleanJournalStep
<1>7. CASE CleanWallets
  BY <1>1, <1>7, CleanWalletsStep
<1>8. CASE CleanRows
  BY <1>1, <1>8, CleanRowsStep
<1>9. CASE Crash
  BY <1>1, <1>9, CrashStep
<1>10. CASE \E d \in Dealers : ImportDealer(d)
  BY <1>1, <1>10, ImportDealerStep
<1>11. CASE \E d \in Dealers : LegacyGrants(d)
  BY <1>1, <1>11, LegacyGrantsStep
<1>12. CASE UNCHANGED vars
  <2>1. cleans' \in 0..MaxCleans /\ losses' \in 0..MaxLosses
    BY <1>2, <1>12, Counters DEF vars, bounds
  <2>2. QED BY <1>1, <1>12, <2>1, NothingHappens DEF vars, bounds
<1>13. QED
  BY <1>1, <1>3, <1>4, <1>5, <1>6, <1>7, <1>8, <1>9, <1>10, <1>11, <1>12 DEF Next

LEMMA InvariantHolds == Spec => []IInv
BY InitIInv, NextIInv, PTL DEF Spec

\* Type correctness of the migration of the legacy credits (migrateCutCredits).
THEOREM TypesHold == Spec => []TypeOK
<1>1. IInv => TypeOK
  BY DEF IInv
<1>2. QED BY <1>1, InvariantHolds, PTL

\* Rows, wallets and transactions agree on what was granted and used, except after
\* a clean that stopped half-way or met an import: for any number of dealers,
\* grants, runs and cleans, and whatever is granted and used.
THEOREM CreditsHold == Spec => []CreditsAddUp
<1>1. ASSUME IInv PROVE CreditsAddUp
  <2>1. TypeOK /\ Budget /\ (Sound => RowsCredited /\ WalletsKept /\ Deducted)
    BY <1>1 DEF IInv, Sound, Agreed
  <2>2. CreditedOnce
    BY <2>1 DEF CreditedOnce, RowsCredited
  <2>3. WalletsMatchJournal
    BY <2>1 DEF WalletsMatchJournal, WalletsKept
  <2>4. ASSUME Sound, NEW d \in Dealers
        PROVE  /\ Sum(deducted[d]) <= starts
               /\ Imported(d) # {} /\ d \notin forgiven => Sum(deducted[d]) > 0
    <3>1. Sum(deducted[d]) + Cardinality(StillOwing(d)) <= starts
      BY <2>1 DEF Budget
    <3>2. StillOwing(d) \in SUBSET Runs
      BY DEF StillOwing
    <3>3. Cardinality(StillOwing(d)) \in Nat
      BY <3>2, Kinds, FS_Subset, FS_CardinalityType
    <3>4. Sum(deducted[d]) \in Nat /\ starts \in Nat
      BY <2>1, Totals, Legacies
    <3>5. Sum(deducted[d]) <= starts
      BY <3>1, <3>3, <3>4
    <3>6. ASSUME Imported(d) # {}, d \notin forgiven PROVE Sum(deducted[d]) > 0
      <4>1. PICK n \in Legacy : dealer[n] = d /\ owner[n] # NoOrg
        BY <3>6 DEF Imported
      <4>2. Paid(d)
        BY <2>1, <2>4, <4>1 DEF Deducted
      <4>3. QED BY <3>6, <4>2 DEF Paid
    <3>7. QED BY <3>5, <3>6
  <2>5. UsageDeducted
    BY <2>4 DEF UsageDeducted
  <2>6. QED BY <2>2, <2>3, <2>5 DEF CreditsAddUp
<1>2. QED BY <1>1, InvariantHolds, PTL

\* A row belongs to the organization whose wallet got its credits, unless the
\* organization was imported after it or during a run.
THEOREM RowsHold == Spec => []RowsFollowCredits
<1>1. IInv => RowsFollowCredits
  BY DEF IInv, RowsFollowCredits, Sound, Agreed, RowsCredited
<1>2. QED BY <1>1, InvariantHolds, PTL

\* A run that ends by itself has given a row to each legacy grant there was at its
\* start, except those it lost or a clean removed.
THEOREM CoverHolds == Spec => RunsCoverGrants
<1> DEFINE Cover ==
       \A r \in Runs :
          Running(r) /\ run[r].row > Len(dealer) /\ run'[r].pc = "idle"
          => \A n \in 1..run[r].from \ run[r].excused : owner[n] # NoOrg
<1>1. ASSUME IInv PROVE Cover
  <2>1. SUFFICES ASSUME NEW r \in Runs, Running(r), run[r].row > Len(dealer),
                        NEW n \in 1..run[r].from, n \notin run[r].excused
                 PROVE  owner[n] # NoOrg
    OBVIOUS
  <2>2. PICK j : j = run[r]
    OBVIOUS
  <2>3. j \in RunStates /\ Follows(j) /\ Len(dealer) \in Nat
    BY <1>1, <2>2, RunIs, Legacies
  <2>4. j.from \in Nat /\ j.row \in Nat /\ j.from <= Len(dealer) /\ j.row > Len(dealer)
    BY <2>1, <2>2, <2>3, Kinds DEF RunStates, Follows
  <2>5. n \in 1..j.from /\ n < j.row
    BY <2>2, <2>4
  <2>6. QED BY <2>1, <2>2, <2>3, <2>5 DEF Follows, Running
<1>2. IInv /\ [Next]_vars => [Cover]_vars
  <2> HIDE DEF Cover
  <2>1. QED BY <1>1
<1>3. QED BY <1>2, InvariantHolds, PTL DEF Spec, RunsCoverGrants
=============================================================================
