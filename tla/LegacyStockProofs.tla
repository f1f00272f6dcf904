-------------------------- MODULE LegacyStockProofs --------------------------
(***************************************************************************)
(* For any number of overlapping runs, and legacy tables of any length:    *)
(* what a run of the stock migration copies, how often, and where its rows *)
(* are attached, whatever pages and inserts fail, whatever is cleaned and  *)
(* whoever closes the connections meanwhile.                               *)
(***************************************************************************)
EXTENDS LegacyStock, SumLemmas

\* A run that is as k says may still copy line n, or the rows of another table.
MayCopy(k, n) == k.pc \in {"headers", "refresh"} \/ (k.pc = "lines" /\ k.last < n)
LinesDue(n) == {r \in Runs : MayCopy(run[r], n)}
BeforeItems == {"headers", "refresh", "lines", "orders"}
OrdersDue == {r \in Runs : run[r].pc \in BeforeItems}
ItemsDue == {r \in Runs : run[r].pc \in BeforeItems \cup {"items"}}
ReturnsDue == {r \in Runs : run[r].pc # "idle"}

\* The copies there are and those that may still be made are of different runs,
\* or of inserts that raised an error.
Budget ==
    \A n \in Rows :
        /\ Copies(n) + Cardinality(LinesDue(n)) <= starts + again[n]
        /\ orders[n] + Cardinality(OrdersDue) <= starts
        /\ items[n] + Cardinality(ItemsDue) <= starts
        /\ returns[n] + Cardinality(ReturnsDue) <= starts

\* The headers a run has gone past have a batch, or are known to be missed.
Past(k) ==
    /\ k.pc = "headers" => 1..k.last \subseteq batches \cup missed
    /\ k.pc = "refresh" => Present \subseteq batches \cup missed
    /\ k.pc = "lines" => Present \subseteq k.map \cup missed

\* What a run that was always answered has copied of what there was at its start.
Copied(k) ==
    /\ k.from <= legacy /\ (k.gone => ~k.clear)
    /\ k.clear /\ k.fallback # NoBatch =>
          /\ k.pc = "lines" => \A n \in 1..k.last : Copies(n) > 0
          /\ k.pc \in {"orders", "items", "reversals"} => \A n \in 1..k.from : Copies(n) > 0
          /\ k.pc = "reversals" => \A n \in 1..k.from : items[n] > 0
    /\ k.clear /\ k.pc \in {"items", "reversals"} => \A n \in 1..k.from : orders[n] > 0
    /\ k.clear /\ k.pc = "items" => 1..k.from \subseteq k.ordersMap

\* The types of what the pools and the troubles of a step may change.
PoolsTyped ==
    troubles \in 0..MaxTroubles /\ pool \in 0..MaxStarts /\ conn \in [Runs -> 0..MaxStarts]

IInv ==
    /\ TypeOK /\ Budget /\ CodesFollowHeaders
    /\ \A r \in Runs : Past(run[r]) /\ Copied(run[r])

-----------------------------------------------------------------------------
\* Numbers: the rows there are, the copies of a line, the runs of a set.
LEMMA Numbers ==
    ASSUME TypeOK
    PROVE  /\ Present \subseteq Rows /\ legacy \in Nat /\ starts \in Nat
           /\ Rows \subseteq Nat \ {0} /\ Rows \subseteq Batches /\ NoBatch \notin Batches
           /\ \A n \in Rows : /\ orders[n] \in Nat /\ items[n] \in Nat /\ returns[n] \in Nat
                              /\ again[n] \in Nat
BY LegacyStockAssumption DEF TypeOK, Present, Rows, Batches, NoBatch

\* Pools: those a step leaves alone, those it closes, and the count of troubles.
LEMMA PoolsKept ==
    ASSUME IInv, pools' = pools, bounds' = bounds
    PROVE  starts' = starts /\ again' = again /\ PoolsTyped'
BY DEF IInv, TypeOK, PoolsTyped, pools, bounds

LEMMA TroubleTyped ==
    ASSUME IInv, Trouble \/ troubles' = troubles
    PROVE  troubles' \in 0..MaxTroubles
BY LegacyStockAssumption DEF IInv, TypeOK, Trouble

LEMMA CloseTyped ==
    ASSUME IInv, NEW p, Close(p)
    PROVE  pool' \in 0..MaxStarts /\ conn' \in [Runs -> 0..MaxStarts]
<1>1. conn \in [Runs -> 0..MaxStarts] /\ 0 \in 0..MaxStarts
  BY LegacyStockAssumption DEF IInv, TypeOK
<1>2. QED BY <1>1 DEF Close

LEMMA BatchesFinite == IsFiniteSet(Batches)
<1>1. MaxRows \in Int /\ 0 \in Int
  BY LegacyStockAssumption
<1>2. QED BY <1>1, FS_Interval DEF Batches

LEMMA SumOfCodes ==
    ASSUME NEW f \in [Batches -> Nat]
    PROVE  SumFunctionOnSet(f, Batches) \in Nat
<1>1. \A h \in Batches : f[h] \in Nat
  OBVIOUS
<1>2. IsFiniteSet(Batches) /\ Batches \in SUBSET Batches
  BY BatchesFinite
<1>3. QED BY <1>1, <1>2, SumNat

LEMMA CopiesNat ==
    ASSUME NEW n \in Rows
    PROVE  /\ TypeOK => Copies(n) \in Nat
           /\ TypeOK' => Copies(n)' \in Nat
<1>1. /\ TypeOK => codes[n] \in [Batches -> Nat]
      /\ TypeOK' => codes'[n] \in [Batches -> Nat]
  BY DEF TypeOK
<1>2. QED BY <1>1, SumOfCodes DEF Copies

\* More rows of a line, of whichever batch, are as many copies more of it.
LEMMA MoreCodes ==
    ASSUME TypeOK, NEW n \in Rows, NEW h \in Batches, NEW rows \in Nat,
           codes' = [codes EXCEPT ![n][h] = @ + rows]
    PROVE  /\ codes' \in [Rows -> [Batches -> Nat]] /\ Copies(n)' = Copies(n) + rows
           /\ \A m \in Rows \ {n} : Copies(m)' = Copies(m) /\ codes'[m] = codes[m]
           /\ \A i \in Batches \ {h} : codes'[n][i] = codes[n][i]
<1> DEFINE f == codes[n]
           g == [f EXCEPT ![h] = @ + rows]
<1>1. f \in [Batches -> Nat] /\ codes \in [Rows -> [Batches -> Nat]]
  BY DEF TypeOK
<1>2. codes' = [codes EXCEPT ![n] = g]
  OBVIOUS
<1> HIDE DEF f
<1>3. /\ g \in [Batches -> Nat] /\ g[h] = f[h] + rows /\ f[h] \in Nat
      /\ \A i \in Batches \ {h} : g[i] = f[i]
  BY <1>1
<1> HIDE DEF g
<1>4. codes' \in [Rows -> [Batches -> Nat]] /\ codes'[n] = g /\ \A m \in Rows \ {n} : codes'[m] = codes[m]
  BY <1>1, <1>2, <1>3
<1>5. SumFunctionOnSet(g, Batches) = SumFunctionOnSet(f, Batches) + rows
  <2>1. IsFiniteSet(Batches)
    BY BatchesFinite
  <2>2. \A i \in Batches : f[i] \in Int /\ g[i] \in Int
    BY <1>1, <1>3
  <2>3. \A i \in Batches \ {h} : g[i] = f[i]
    BY <1>3
  <2>4. h \in Batches
    OBVIOUS
  <2>5. SumFunctionOnSet(g, Batches) = SumFunctionOnSet(f, Batches) + (g[h] - f[h])
    BY ONLY <2>1, <2>2, <2>3, <2>4, SumChange
  <2>6. g[h] - f[h] = rows
    BY <1>3
  <2>7. QED BY <2>5, <2>6
<1>6. Copies(n)' = Copies(n) + rows
  BY <1>4, <1>5 DEF Copies, f
<1>7. \A m \in Rows \ {n} : Copies(m)' = Copies(m)
  BY <1>4 DEF Copies
<1>8. QED BY <1>3, <1>4, <1>6, <1>7 DEF f

LEMMA OneMoreIs ==
    ASSUME NEW copies \in [Rows -> Nat], NEW S
    PROVE  /\ OneMore(copies, S) \in [Rows -> Nat]
           /\ \A n \in Rows : OneMore(copies, S)[n] = IF n \in S THEN copies[n] + 1 ELSE copies[n]
BY DEF OneMore

-----------------------------------------------------------------------------
\* What a run knows stays true while others copy more and miss more.
LEMMA PastKept ==
    ASSUME NEW k, Past(k), legacy' = legacy, batches \subseteq batches', missed \subseteq missed'
    PROVE  Past(k)'
BY DEF Past, Present

LEMMA CopiedKept ==
    ASSUME TypeOK, TypeOK', NEW k \in RunStates, Copied(k), legacy' = legacy,
           \A n \in Rows : /\ Copies(n) <= Copies(n)'
                           /\ orders[n] <= orders'[n]
                           /\ items[n] <= items'[n]
    PROVE  Copied(k)'
<1>1. 1..k.from \subseteq Rows /\ 1..k.last \subseteq Rows
  BY LegacyStockAssumption DEF RunStates, Rows
<1>2. \A n \in Rows : /\ Copies(n) > 0 => Copies(n)' > 0
                      /\ orders[n] > 0 => orders'[n] > 0
                      /\ items[n] > 0 => items'[n] > 0
  <2>1. SUFFICES ASSUME NEW n \in Rows
                 PROVE  /\ Copies(n) > 0 => Copies(n)' > 0
                        /\ orders[n] > 0 => orders'[n] > 0
                        /\ items[n] > 0 => items'[n] > 0
    OBVIOUS
  <2>2. /\ Copies(n) \in Nat /\ orders[n] \in Nat /\ items[n] \in Nat
        /\ orders'[n] \in Nat /\ items'[n] \in Nat
    BY CopiesNat, Numbers DEF TypeOK
  <2>3. Copies(n)' \in Nat
    BY CopiesNat
  <2>4. QED BY <2>2, <2>3
<1>3. QED BY <1>1, <1>2 DEF Copied

-----------------------------------------------------------------------------
\* One run moves, to k: what it copies it is no longer due to copy.
LEMMA RunMoves ==
    ASSUME IInv, TypeOK', CodesFollowHeaders', NEW r \in Runs, NEW k,
           run' = [run EXCEPT ![r] = k], legacy' = legacy, starts' = starts,
           batches \subseteq batches', missed \subseteq missed', Past(k)', Copied(k)',
           \A n \in Rows :
              /\ MayCopy(k, n) => r \in LinesDue(n)
              /\ \/ Copies(n)' = Copies(n) /\ again'[n] = again[n]
                 \/ /\ r \in LinesDue(n) /\ ~MayCopy(k, n)
                    /\ Copies(n) <= Copies(n)'
                    /\ Copies(n)' <= Copies(n) + 1 + (again'[n] - again[n])
              /\ \/ orders'[n] = orders[n]
                 \/ orders'[n] = orders[n] + 1 /\ r \in OrdersDue /\ k.pc \notin BeforeItems
              /\ \/ items'[n] = items[n]
                 \/ /\ items'[n] = items[n] + 1 /\ r \in ItemsDue
                    /\ k.pc \notin BeforeItems \cup {"items"}
              /\ \/ returns'[n] = returns[n]
                 \/ returns'[n] = returns[n] + 1 /\ r \in ReturnsDue /\ k.pc = "idle",
           k.pc \in BeforeItems => r \in OrdersDue,
           k.pc \in BeforeItems \cup {"items"} => r \in ItemsDue,
           k.pc # "idle" => r \in ReturnsDue
    PROVE  IInv'
<1>1. TypeOK /\ Budget
  BY DEF IInv
<1>2. run'[r] = k /\ \A d \in Runs \ {r} : run'[d] = run[d]
  BY <1>1 DEF TypeOK
<1>3. ASSUME NEW n \in Rows PROVE Copies(n) \in Nat /\ Copies(n)' \in Nat
  BY <1>1, CopiesNat
<1>4. /\ starts \in Nat
      /\ \A n \in Rows : /\ orders[n] \in Nat /\ items[n] \in Nat /\ returns[n] \in Nat
                         /\ orders'[n] \in Nat /\ items'[n] \in Nat /\ returns'[n] \in Nat
                         /\ again[n] \in Nat /\ again'[n] \in Nat
  BY <1>1, Numbers DEF TypeOK
<1>5. Budget'
  <2>1. SUFFICES ASSUME NEW n \in Rows
                 PROVE  /\ Copies(n)' + Cardinality(LinesDue(n)') <= starts + again'[n]
                        /\ orders'[n] + Cardinality(OrdersDue') <= starts
                        /\ items'[n] + Cardinality(ItemsDue') <= starts
                        /\ returns'[n] + Cardinality(ReturnsDue') <= starts
    BY DEF Budget
  <2>2. /\ LinesDue(n) \in SUBSET Runs /\ LinesDue(n)' \in SUBSET LinesDue(n)
        /\ ~MayCopy(k, n) => r \notin LinesDue(n)'
    BY <1>2 DEF LinesDue, MayCopy
  <2>3. /\ OrdersDue \in SUBSET Runs /\ OrdersDue' \in SUBSET OrdersDue
        /\ k.pc \notin BeforeItems => r \notin OrdersDue'
    BY <1>2 DEF OrdersDue
  <2>4. /\ ItemsDue \in SUBSET Runs /\ ItemsDue' \in SUBSET ItemsDue
        /\ k.pc \notin BeforeItems \cup {"items"} => r \notin ItemsDue'
    BY <1>2 DEF ItemsDue
  <2>5. /\ ReturnsDue \in SUBSET Runs /\ ReturnsDue' \in SUBSET ReturnsDue
        /\ k.pc = "idle" => r \notin ReturnsDue'
    BY <1>2 DEF ReturnsDue
  <2>6. /\ Copies(n) + Cardinality(LinesDue(n)) <= starts + again[n]
        /\ orders[n] + Cardinality(OrdersDue) <= starts
        /\ items[n] + Cardinality(ItemsDue) <= starts
        /\ returns[n] + Cardinality(ReturnsDue) <= starts
    BY <1>1 DEF Budget
  <2>7. Copies(n)' + Cardinality(LinesDue(n)') <= starts + again'[n]
    <3>1. /\ starts + again[n] \in Nat /\ Copies(n) + 1 \in Nat
          /\ Copies(n) \in Nat /\ Copies(n)' \in Nat
      BY <1>3, <1>4
    <3>2. Cardinality(LinesDue(n)') \in Nat
      BY <2>2, LegacyStockAssumption, FS_Subset, FS_CardinalityType
    <3>3. CASE Copies(n)' = Copies(n) /\ again'[n] = again[n]
      BY <2>2, <2>6, <3>1, <3>3, LegacyStockAssumption, FewerLeft
    <3>4. CASE /\ r \in LinesDue(n) /\ ~MayCopy(k, n)
               /\ Copies(n)' <= Copies(n) + 1 + (again'[n] - again[n])
      <4>1. Copies(n) + 1 + Cardinality(LinesDue(n)') <= starts + again[n]
        BY <2>2, <2>6, <3>1, <3>4, LegacyStockAssumption, FewerLeft
      <4>2. QED BY <1>4, <3>1, <3>2, <3>4, <4>1
    <3>5. QED BY <3>3, <3>4
  <2>8. orders'[n] + Cardinality(OrdersDue') <= starts
    BY <1>4, <2>3, <2>6, LegacyStockAssumption, FewerLeft
  <2>9. items'[n] + Cardinality(ItemsDue') <= starts
    BY <1>4, <2>4, <2>6, LegacyStockAssumption, FewerLeft
  <2>10. returns'[n] + Cardinality(ReturnsDue') <= starts
    BY <1>4, <2>5, <2>6, LegacyStockAssumption, FewerLeft
  <2>11. QED BY <2>7, <2>8, <2>9, <2>10
<1>6. ASSUME NEW d \in Runs PROVE Past(run[d])' /\ Copied(run[d])'
  <2>1. CASE d = r
    BY <1>2, <2>1 DEF Past, Copied
  <2>2. CASE d # r
    <3>1. PICK x : x = run[d]
      OBVIOUS
    <3>2. x \in RunStates /\ Past(x) /\ Copied(x) /\ run'[d] = x
      BY <1>1, <1>2, <2>2, <3>1 DEF TypeOK, IInv
    <3>3. Past(x)'
      BY <3>2, PastKept
    <3>4. \A n \in Rows : /\ Copies(n) <= Copies(n)'
                         /\ orders[n] <= orders'[n]
                         /\ items[n] <= items'[n]
      BY <1>3, <1>4
    <3>5. Copied(x)'
      BY <1>1, <3>2, <3>4, CopiedKept
    <3>6. QED BY <3>2, <3>3, <3>5 DEF Past, Copied
  <2>3. QED BY <2>1, <2>2
<1>7. QED BY <1>5, <1>6 DEF IInv

\* A run that copies no row, and goes on or gives up.
LEMMA NothingCopied ==
    ASSUME IInv, NEW r \in Runs, NEW j, NEW k \in RunStates, j = run[r], run' = [run EXCEPT ![r] = k],
           legacy' = legacy, old' = old, up' = up, codes' = codes, orders' = orders,
           items' = items, returns' = returns, starts' = starts, again' = again, PoolsTyped',
           batches \subseteq batches', batches' \subseteq Rows,
           missed \subseteq missed', missed' \subseteq Rows, Past(k)', Copied(k)',
           \A n \in Rows : MayCopy(k, n) => MayCopy(j, n),
           k.pc \in BeforeItems => j.pc \in BeforeItems,
           k.pc \in BeforeItems \cup {"items"} => j.pc \in BeforeItems \cup {"items"},
           k.pc # "idle" => j.pc # "idle"
    PROVE  IInv'
<1>1. TypeOK'
  BY DEF IInv, TypeOK, PoolsTyped
<1>2. CodesFollowHeaders'
  BY DEF IInv, CodesFollowHeaders
<1>3. \A n \in Rows : Copies(n)' = Copies(n)
  BY DEF Copies
<1>4. /\ \A n \in Rows : MayCopy(k, n) => r \in LinesDue(n)
      /\ k.pc \in BeforeItems => r \in OrdersDue
      /\ k.pc \in BeforeItems \cup {"items"} => r \in ItemsDue
      /\ k.pc # "idle" => r \in ReturnsDue
  BY DEF LinesDue, OrdersDue, ItemsDue, ReturnsDue
<1>5. \A n \in Rows :
              /\ MayCopy(k, n) => r \in LinesDue(n)
              /\ Copies(n)' = Copies(n) /\ again'[n] = again[n]
              /\ orders'[n] = orders[n] /\ items'[n] = items[n] /\ returns'[n] = returns[n]
  BY <1>3, <1>4
<1>6. QED BY <1>1, <1>2, <1>4, <1>5, RunMoves

-----------------------------------------------------------------------------
\* The first element of a set of numbers.
LEMMA MinIs ==
    ASSUME NEW S, S \subseteq Nat, S # {}
    PROVE  Min(S) \in S /\ \A n \in S : Min(S) <= n
<1>1. \E n \in S : \A m \in S : n <= m
  BY LeastExists
<1>2. QED BY <1>1 DEF Min

\* What is known of a run, and what of it one page, or the end of a step, changes.
LEMMA RunIs ==
    ASSUME IInv, NEW r \in Runs
    PROVE  /\ run[r] \in RunStates /\ Past(run[r]) /\ Copied(run[r])
           /\ TypeOK /\ CodesFollowHeaders
BY DEF IInv, TypeOK

\* The headers ahead of a run, and the first of those it sees.
LEMMA AheadIs ==
    ASSUME TypeOK, NEW r \in Runs, NEW j, j = run[r], j \in RunStates
    PROVE  /\ Ahead(r) = j.last + 1 .. legacy /\ Ahead(r) \subseteq Rows /\ Seen(r) \subseteq Ahead(r)
           /\ j.last \in Nat /\ legacy \in Nat /\ batches \subseteq Rows /\ missed \subseteq Rows
<1>1. j.last \in Nat /\ legacy \in 0..MaxRows /\ MaxRows \in Nat
  BY LegacyStockAssumption DEF RunStates, TypeOK
<1>2. j.last + 1 .. legacy \subseteq 1..MaxRows
  BY <1>1
<1>3. Ahead(r) = j.last + 1 .. legacy
  BY DEF Ahead
<1>4. Ahead(r) \subseteq Rows
  BY <1>2, <1>3 DEF Rows
<1>5. Seen(r) \subseteq Ahead(r)
  BY DEF Seen
<1>6. legacy \in Nat /\ batches \subseteq Rows /\ missed \subseteq Rows
  BY <1>1 DEF TypeOK
<1>7. QED BY <1>1, <1>3, <1>4, <1>5, <1>6

LEMMA SeenIs ==
    ASSUME IInv, NEW r \in Runs, Seen(r) # {}
    PROVE  /\ Min(Seen(r)) \in Rows /\ Min(Seen(r)) \in Nat /\ Min(Seen(r)) \in 0..MaxRows
           /\ run[r].last + 1 .. Min(Seen(r)) \subseteq Rows
<1>1. PICK j : j = run[r]
  OBVIOUS
<1>2. Ahead(r) \subseteq Rows /\ Seen(r) \subseteq Ahead(r) /\ j.last \in Nat
  BY <1>1, RunIs, AheadIs
<1>3. MaxRows \in Nat /\ Rows \subseteq Nat
  BY LegacyStockAssumption DEF Rows
<1>4. Seen(r) \subseteq Nat
  BY <1>2, <1>3
<1>5. Min(Seen(r)) \in Seen(r)
  BY <1>4, MinIs
<1>6. PICK m : m = Min(Seen(r))
  OBVIOUS
<1>7. m \in Rows
  BY <1>2, <1>5, <1>6
<1>8. m \in Nat /\ m \in 0..MaxRows /\ j.last + 1 .. m \subseteq Rows
  BY <1>2, <1>3, <1>7 DEF Rows
<1>9. QED BY <1>1, <1>6, <1>7, <1>8

\* The end of the first step, at its last page or a page that fails.
LEMMA HeadersPast ==
    ASSUME TypeOK, NEW r \in Runs, NEW j, j = run[r], j \in RunStates, Past(j), j.pc = "headers",
           NEW k, k.pc = "refresh", legacy' = legacy, batches \subseteq batches',
           missed' = missed \cup (Ahead(r) \ batches')
    PROVE  Past(k)'
<1>1. Ahead(r) = j.last + 1 .. legacy /\ j.last \in Nat /\ legacy \in Nat
  BY AheadIs
<1>2. SUFFICES ASSUME NEW n \in 1..legacy PROVE n \in batches' \cup missed'
  BY DEF Past, Present
<1>3. CASE n <= j.last
  BY <1>1, <1>3 DEF Past
<1>4. CASE n > j.last
  <2>1. n \in Ahead(r)
    BY <1>1, <1>4
  <2>2. QED BY <2>1
<1>5. QED BY <1>1, <1>3, <1>4

\* A page of headers: those it leaves behind have a batch or are missed.
LEMMA HeaderPageStep ==
    ASSUME IInv, NEW r \in Runs, HeaderPage(r)
    PROVE  IInv'
<1>0. PICK j : j = run[r]
  OBVIOUS
<1>1. /\ j.pc = "headers"
      /\ \/ /\ Seen(r) # {} /\ batches' \in {batches, batches \cup {Min(Seen(r))}}
            /\ missed' = missed \cup (j.last + 1 .. Min(Seen(r)) \ batches')
            /\ Reach(r, Min(Seen(r)))
         \/ /\ batches' = batches /\ missed' = missed \cup (Ahead(r) \ batches)
            /\ Goto(r, "refresh")
      /\ legacy' = legacy /\ old' = old /\ up' = up /\ codes' = codes /\ orders' = orders
      /\ items' = items /\ returns' = returns
  BY <1>0 DEF HeaderPage
<1>2. j \in RunStates /\ Past(j) /\ Copied(j) /\ TypeOK
  BY <1>0, RunIs
<1>3. starts' = starts /\ again' = again /\ PoolsTyped'
  BY PoolsKept DEF HeaderPage
<1>4. Ahead(r) \subseteq Rows /\ Seen(r) \subseteq Ahead(r) /\ j.last \in Nat
      /\ batches \subseteq Rows /\ missed \subseteq Rows /\ Ahead(r) = j.last + 1 .. legacy
  BY <1>0, <1>2, AheadIs
<1>5. CASE /\ Seen(r) # {} /\ batches' \in {batches, batches \cup {Min(Seen(r))}}
           /\ missed' = missed \cup (j.last + 1 .. Min(Seen(r)) \ batches')
           /\ Reach(r, Min(Seen(r)))
  <2>1. PICK m : m = Min(Seen(r))
    OBVIOUS
  <2>2. m \in Rows /\ m \in Nat /\ j.last + 1 .. m \subseteq Rows /\ m \in 0..MaxRows
    <3>1. Seen(r) # {}
      BY <1>5
    <3>2. /\ Min(Seen(r)) \in Rows /\ Min(Seen(r)) \in Nat /\ Min(Seen(r)) \in 0..MaxRows
          /\ run[r].last + 1 .. Min(Seen(r)) \subseteq Rows
      BY <3>1, SeenIs
    <3>3. QED BY <1>0, <2>1, <3>2
  <2>3. PICK k : k = [j EXCEPT !.last = m]
    OBVIOUS
  <2>4. run' = [run EXCEPT ![r] = k]
    BY <1>0, <1>5, <2>1, <2>3 DEF Reach
  <2>5. /\ k \in RunStates /\ k.pc = "headers" /\ k.last = m /\ k.from = j.from
        /\ k.gone = j.gone /\ k.clear = j.clear
    BY <1>1, <1>2, <2>2, <2>3 DEF RunStates
  <2>6. /\ batches \subseteq batches' /\ batches' \subseteq Rows
        /\ missed \subseteq missed' /\ missed' \subseteq Rows
    BY <1>4, <1>5, <2>1, <2>2
  <2>7. Past(k)'
    <3>1. SUFFICES ASSUME NEW n \in 1..m PROVE n \in batches' \cup missed'
      BY <2>5 DEF Past
    <3>2. CASE n <= j.last
      BY <1>1, <1>2, <1>4, <2>2, <2>6, <3>2 DEF Past
    <3>3. CASE n > j.last
      <4>1. n \in j.last + 1 .. m
        BY <1>4, <2>2, <3>3
      <4>2. QED BY <1>5, <2>1, <4>1
    <3>4. QED BY <1>4, <2>2, <3>2, <3>3
  <2>8. Copied(k)'
    BY <1>1, <1>2, <2>5 DEF Copied
  <2>9. (\A n \in Rows : MayCopy(k, n) => MayCopy(j, n)) /\ j.pc \in BeforeItems /\ j.pc # "idle"
    BY <1>1 DEF MayCopy, BeforeItems
  <2>10. QED BY <1>0, <1>1, <1>3, <2>4, <2>5, <2>6, <2>7, <2>8, <2>9, NothingCopied
<1>6. CASE /\ batches' = batches /\ missed' = missed \cup (Ahead(r) \ batches)
           /\ Goto(r, "refresh")
  <2>1. PICK k : k = [j EXCEPT !.pc = "refresh", !.last = 0]
    OBVIOUS
  <2>2. run' = [run EXCEPT ![r] = k]
    BY <1>0, <1>6, <2>1 DEF Goto
  <2>3. /\ k \in RunStates /\ k.pc = "refresh" /\ k.from = j.from
        /\ k.gone = j.gone /\ k.clear = j.clear
    <3>1. 0 \in 0..MaxRows
      BY LegacyStockAssumption
    <3>2. QED BY <1>2, <2>1, <3>1 DEF RunStates
  <2>4. Past(k)'
    BY <1>0, <1>1, <1>2, <1>6, <2>3, HeadersPast
  <2>5. Copied(k)'
    BY <1>1, <1>2, <2>3 DEF Copied
  <2>6. missed \subseteq missed' /\ missed' \subseteq Rows
    BY <1>4, <1>6
  <2>7. (\A n \in Rows : MayCopy(k, n) => MayCopy(j, n)) /\ j.pc \in BeforeItems /\ j.pc # "idle"
    BY <1>1 DEF MayCopy, BeforeItems
  <2>8. QED BY <1>0, <1>1, <1>3, <1>4, <1>6, <2>2, <2>3, <2>4, <2>5, <2>6, <2>7, NothingCopied
<1>7. QED BY <1>1, <1>5, <1>6

LEMMA HeaderPageFailsStep ==
    ASSUME IInv, NEW r \in Runs, HeaderPageFails(r)
    PROVE  IInv'
<1>0. PICK j : j = run[r]
  OBVIOUS
<1>1. PICK k : k = [j EXCEPT !.pc = "refresh", !.last = 0, !.clear = FALSE]
  OBVIOUS
<1>2. /\ j.pc = "headers" /\ run' = [run EXCEPT ![r] = k]
      /\ \/ batches' = batches
         \/ Seen(r) # {} /\ batches' \in {batches, batches \cup {Min(Seen(r))}}
      /\ missed' = missed \cup (Ahead(r) \ batches')
      /\ legacy' = legacy /\ old' = old /\ up' = up /\ codes' = codes /\ orders' = orders
      /\ items' = items /\ returns' = returns /\ pools' = pools /\ again' = again
      /\ starts' = starts /\ (Trouble \/ troubles' = troubles)
  BY <1>0, <1>1 DEF HeaderPageFails, GiveUp
<1>3. j \in RunStates /\ Past(j) /\ Copied(j) /\ TypeOK
  BY <1>0, RunIs
<1>4. Ahead(r) \subseteq Rows /\ batches \subseteq Rows /\ missed \subseteq Rows
  BY <1>0, <1>3, AheadIs
<1>5. PoolsTyped'
  BY <1>2, <1>3, TroubleTyped DEF PoolsTyped, TypeOK, pools
<1>6. k \in RunStates /\ k.pc = "refresh" /\ k.from = j.from /\ k.clear = FALSE
  <2>1. 0 \in 0..MaxRows
    BY LegacyStockAssumption
  <2>2. QED BY <1>1, <1>3, <2>1 DEF RunStates
<1>7. /\ batches \subseteq batches' /\ batches' \subseteq Rows
      /\ missed \subseteq missed' /\ missed' \subseteq Rows
  BY <1>2, <1>4, SeenIs
<1>8. Past(k)'
  BY <1>0, <1>2, <1>3, <1>6, <1>7, HeadersPast
<1>9. Copied(k)'
  BY <1>2, <1>3, <1>6 DEF Copied
<1>10. (\A n \in Rows : MayCopy(k, n) => MayCopy(j, n)) /\ j.pc \in BeforeItems /\ j.pc # "idle"
  BY <1>2 DEF MayCopy, BeforeItems
<1>11. QED BY <1>0, <1>2, <1>5, <1>6, <1>7, <1>8, <1>9, <1>10, NothingCopied

\* The map is loaded again: what is not in it is missed.
LEMMA RefreshStep ==
    ASSUME IInv, NEW r \in Runs, NEW f \in Fallbacks, Refresh(r, f)
    PROVE  IInv'
<1>0. PICK j : j = run[r]
  OBVIOUS
<1>1. PICK k : k = [j EXCEPT !.pc = "lines", !.last = 0, !.map = batches, !.fallback = f]
  OBVIOUS
<1>2. /\ j.pc = "refresh" /\ run' = [run EXCEPT ![r] = k] /\ missed' = missed
      /\ legacy' = legacy /\ old' = old /\ up' = up /\ codes' = codes /\ orders' = orders
      /\ items' = items /\ returns' = returns /\ batches' = batches
      /\ starts' = starts /\ again' = again /\ PoolsTyped'
  BY <1>0, <1>1, PoolsKept DEF Refresh, targets
<1>3. j \in RunStates /\ Past(j) /\ Copied(j) /\ TypeOK
  BY <1>0, RunIs
<1>4. batches \subseteq Rows /\ missed \subseteq Rows
  BY <1>3 DEF TypeOK
<1>5. /\ k \in RunStates /\ k.pc = "lines" /\ k.last = 0 /\ k.map = batches /\ k.from = j.from
      /\ k.gone = j.gone /\ k.clear = j.clear
  <2>1. 0 \in 0..MaxRows
    BY LegacyStockAssumption
  <2>2. f \in Batches \cup {NoBatch}
    BY <1>4, LegacyStockAssumption DEF Fallbacks, OwnBatch, Batches, Rows
  <2>3. QED BY <1>1, <1>3, <1>4, <2>1, <2>2 DEF RunStates
<1>6. Past(k)'
  BY <1>2, <1>3, <1>5 DEF Past, Present
<1>7. Copied(k)'
  BY <1>2, <1>3, <1>5 DEF Copied
<1>8. \A n \in Rows : MayCopy(k, n) => MayCopy(j, n)
  BY <1>2 DEF MayCopy
<1>9. j.pc \in BeforeItems /\ j.pc # "idle"
  BY <1>2 DEF BeforeItems
<1>10. QED BY <1>0, <1>2, <1>4, <1>5, <1>6, <1>7, <1>8, <1>9, NothingCopied

\* Rows of the next line are inserted, to its own batch or to the fallback, which
\* only a missed header's line gets: one, or up to two if the insert raised an error.
LineCopied(r, j, k, n, h, rows) ==
    /\ j = run[r] /\ j.pc = "lines" /\ n = j.last + 1 /\ n <= legacy
    /\ h = Target(r, n) /\ ~j.gone /\ h # NoBatch
    /\ codes' = [codes EXCEPT ![n][h] = @ + rows]
    /\ k \in RunStates /\ run' = [run EXCEPT ![r] = k]
    /\ k.pc = "lines" /\ k.last = n /\ k.map = j.map /\ k.from = j.from /\ k.gone = j.gone
    /\ k.fallback = j.fallback /\ (k.clear => j.clear /\ rows > 0)
    /\ legacy' = legacy /\ old' = old /\ up' = up /\ batches' = batches /\ orders' = orders
    /\ items' = items /\ returns' = returns /\ missed' = missed /\ starts' = starts
    /\ \/ rows = 1 /\ again' = again
       \/ rows <= 2 /\ again' = [again EXCEPT ![n] = @ + 1]

LEMMA LineCopiedStep ==
    ASSUME IInv, PoolsTyped', NEW r \in Runs, NEW rows \in Nat,
           \E j, k, n, h : LineCopied(r, j, k, n, h, rows)
    PROVE  IInv'
<1>0. PICK j, k, n, h : LineCopied(r, j, k, n, h, rows)
  OBVIOUS
<1> USE <1>0 DEF LineCopied
<1>1. j \in RunStates /\ Past(j) /\ Copied(j) /\ TypeOK /\ CodesFollowHeaders
  BY RunIs
<1>2. h = IF n \in j.map THEN n ELSE j.fallback
  BY DEF Target
<1>3. /\ j.last \in Nat /\ legacy \in 0..MaxRows /\ n \in Nat /\ n = j.last + 1 /\ MaxRows \in Nat
      /\ j.from \in Nat /\ j.from <= legacy
  BY <1>1, LegacyStockAssumption DEF RunStates, TypeOK, Copied
<1>4. n \in Rows /\ n \in 0..MaxRows /\ n \in Present
  BY <1>3 DEF Rows, Present
<1>5. Past(k)'
  BY <1>1 DEF Past, Present
<1>6. \A m \in Rows : MayCopy(k, m) => MayCopy(j, m)
  BY <1>3 DEF MayCopy, Rows
<1>7. j.pc \in BeforeItems /\ j.pc # "idle" /\ MayCopy(j, n) /\ ~MayCopy(k, n)
  BY <1>3 DEF BeforeItems, MayCopy
<1>8. h \in Batches /\ (h # n => n \in missed)
  <2>1. CASE n \in j.map
    BY <1>2, <1>3, <1>4, <2>1 DEF Batches
  <2>2. CASE n \notin j.map
    <3>1. h = j.fallback /\ h \in Batches
      BY <1>1, <1>2, <2>2 DEF RunStates
    <3>2. n \in missed
      BY <1>1, <1>4, <2>2 DEF Past
    <3>3. QED BY <3>1, <3>2
  <2>3. QED BY <2>1, <2>2
<1>9. /\ codes' \in [Rows -> [Batches -> Nat]] /\ Copies(n)' = Copies(n) + rows
      /\ \A m \in Rows \ {n} : Copies(m)' = Copies(m) /\ codes'[m] = codes[m]
      /\ \A i \in Batches \ {h} : codes'[n][i] = codes[n][i]
  <2>1. TypeOK /\ n \in Rows /\ h \in Batches /\ rows \in Nat
        /\ codes' = [codes EXCEPT ![n][h] = @ + rows]
    BY <1>1, <1>4, <1>8
  <2> HIDE <1>0 DEF LineCopied
  <2>2. QED BY <2>1, MoreCodes
<1>10. /\ again' \in [Rows -> Nat] /\ again[n] \in Nat
       /\ \A m \in Rows \ {n} : again'[m] = again[m]
       /\ \/ rows = 1 /\ again'[n] = again[n]
          \/ rows <= 2 /\ again'[n] = again[n] + 1
  <2>1. again \in [Rows -> Nat]
    BY <1>1 DEF TypeOK
  <2>2. QED BY <1>4, <2>1
<1>11. TypeOK'
  BY <1>1, <1>9, <1>10 DEF TypeOK, PoolsTyped
<1>12. CodesFollowHeaders'
  <2>1. SUFFICES ASSUME NEW m \in Rows, NEW i \in Batches, codes'[m][i] > 0, i # m
                 PROVE  m \in missed
    BY DEF CodesFollowHeaders
  <2>2. CASE m = n /\ i = h
    BY <1>8, <2>1, <2>2
  <2>3. CASE m # n \/ i # h
    <3>1. codes'[m][i] = codes[m][i]
      BY <1>9, <2>3
    <3>2. QED BY <1>1, <2>1, <3>1 DEF CodesFollowHeaders
  <2>4. QED BY <2>2, <2>3
<1>13. \A m \in Rows : Copies(m) \in Nat /\ Copies(m)' \in Nat
  BY <1>1, <1>11, CopiesNat
<1>14. Copied(k)'
  <2>1. \A m \in 1..n : m \in Rows /\ (m = n \/ m \in 1..j.last)
    BY <1>3, <1>4 DEF Rows
  <2>2. ASSUME NEW m \in 1..n, k.clear, k.fallback # NoBatch
        PROVE  Copies(m)' > 0
    <3>1. m \in Rows /\ (m = n \/ m \in 1..j.last)
      BY <2>1
    <3>2. Copies(m) \in Nat /\ Copies(m)' \in Nat
      BY <1>13, <3>1
    <3>3. CASE m = n
      BY <1>9, <2>2, <3>2, <3>3
    <3>4. CASE m # n
      <4>1. Copies(m) > 0
        BY <1>1, <2>2, <3>1, <3>4 DEF Copied
      <4>2. QED BY <1>9, <3>1, <3>4, <4>1
    <3>5. QED BY <3>3, <3>4
  <2>3. QED BY <1>1, <2>2 DEF Copied
<1>15. r \in LinesDue(n) /\ r \in OrdersDue /\ r \in ItemsDue /\ r \in ReturnsDue
  BY <1>7 DEF LinesDue, OrdersDue, ItemsDue, ReturnsDue
<1>16. \A m \in Rows : MayCopy(k, m) => r \in LinesDue(m)
  BY <1>6 DEF LinesDue
<1>17. \A m \in Rows : \/ Copies(m)' = Copies(m) /\ again'[m] = again[m]
                       \/ /\ r \in LinesDue(m) /\ ~MayCopy(k, m) /\ Copies(m) <= Copies(m)'
                          /\ Copies(m)' <= Copies(m) + 1 + (again'[m] - again[m])
  <2>1. Copies(n) \in Nat
    BY <1>4, <1>13
  <2>2. Copies(n) <= Copies(n)' /\ Copies(n)' <= Copies(n) + 1 + (again'[n] - again[n])
    BY <1>9, <1>10, <2>1
  <2>3. QED BY <1>7, <1>9, <1>10, <1>15, <2>2
<1>18. QED BY <1>5, <1>11, <1>12, <1>14, <1>15, <1>16, <1>17, RunMoves

\* A page of lines.
LEMMA LinePageStep ==
    ASSUME IInv, NEW r \in Runs, LinePage(r)
    PROVE  IInv'
<1>0. PICK j : j = run[r]
  OBVIOUS
<1>1. j \in RunStates /\ Past(j) /\ Copied(j) /\ TypeOK /\ CodesFollowHeaders
  BY <1>0, RunIs
<1>2. PICK n : n = j.last + 1
  OBVIOUS
<1>3. PICK h : h = Target(r, n)
  OBVIOUS
<1>4. /\ j.pc = "lines"
      /\ \/ /\ n <= legacy /\ Reach(r, n)
            /\ codes' = IF j.gone \/ h = NoBatch THEN codes ELSE [codes EXCEPT ![n][h] = @ + 1]
         \/ n > legacy /\ Goto(r, "orders") /\ codes' = codes
      /\ legacy' = legacy /\ old' = old /\ up' = up /\ batches' = batches /\ orders' = orders
      /\ items' = items /\ returns' = returns /\ missed' = missed
  BY <1>0, <1>2, <1>3 DEF LinePage
<1>5. starts' = starts /\ again' = again /\ PoolsTyped'
  BY PoolsKept DEF LinePage
<1>6. /\ j.last \in Nat /\ legacy \in 0..MaxRows /\ n \in Nat /\ n = j.last + 1 /\ MaxRows \in Nat
      /\ j.from \in Nat /\ j.from <= legacy /\ batches \subseteq Rows /\ missed \subseteq Rows
  BY <1>1, <1>2, LegacyStockAssumption DEF RunStates, TypeOK, Copied
<1>7. CASE n <= legacy /\ Reach(r, n)
           /\ codes' = IF j.gone \/ h = NoBatch THEN codes ELSE [codes EXCEPT ![n][h] = @ + 1]
  <2>1. PICK k : k = [j EXCEPT !.last = n]
    OBVIOUS
  <2>2. run' = [run EXCEPT ![r] = k]
    BY <1>0, <1>7, <2>1 DEF Reach
  <2>3. n \in 0..MaxRows
    BY <1>6, <1>7
  <2>4. /\ k \in RunStates /\ k.pc = "lines" /\ k.last = n /\ k.from = j.from /\ k.map = j.map
        /\ k.gone = j.gone /\ k.clear = j.clear /\ k.fallback = j.fallback
    BY <1>1, <1>4, <2>1, <2>3 DEF RunStates
  <2>5. CASE j.gone \/ h = NoBatch
    <3>1. codes' = codes
      BY <1>7, <2>5
    <3>2. ~j.clear \/ j.fallback = NoBatch
      <4>1. CASE j.gone
        BY <1>1, <4>1 DEF Copied
      <4>2. CASE h = NoBatch
        BY <1>0, <1>3, <1>6, <4>2 DEF NoBatch, Target
      <4>3. QED BY <2>5, <4>1, <4>2
    <3>3. Copied(k)'
      BY <1>1, <1>4, <2>4, <3>2 DEF Copied
    <3>4. Past(k)'
      BY <1>1, <1>4, <2>4 DEF Past, Present
    <3>5. \A m \in Rows : MayCopy(k, m) => MayCopy(j, m)
      BY <1>4, <1>6, <2>4 DEF MayCopy, Rows
    <3>6. j.pc \in BeforeItems /\ j.pc # "idle"
      BY <1>4 DEF BeforeItems
    <3>7. QED BY <1>0, <1>4, <1>5, <1>6, <2>2, <2>4, <3>1, <3>3, <3>4, <3>5, <3>6, NothingCopied
  <2>6. CASE ~j.gone /\ h # NoBatch
    <3>1. codes' = [codes EXCEPT ![n][h] = @ + 1] /\ 1 \in Nat /\ 1 > 0
      BY <1>7, <2>6
    <3>2. LineCopied(r, j, k, n, h, 1)
      BY <1>0, <1>2, <1>3, <1>4, <1>5, <1>7, <2>2, <2>4, <2>6, <3>1 DEF LineCopied
    <3>3. QED BY <1>5, <3>1, <3>2, LineCopiedStep
  <2>7. QED BY <2>5, <2>6
<1>8. CASE n > legacy /\ Goto(r, "orders") /\ codes' = codes
  <2>1. PICK k : k = [j EXCEPT !.pc = "orders", !.last = 0]
    OBVIOUS
  <2>2. run' = [run EXCEPT ![r] = k]
    BY <1>0, <1>8, <2>1 DEF Goto
  <2>3. 0 \in 0..MaxRows
    BY <1>6
  <2>4. /\ k \in RunStates /\ k.pc = "orders" /\ k.from = j.from
        /\ k.gone = j.gone /\ k.clear = j.clear /\ k.fallback = j.fallback
    BY <1>1, <2>1, <2>3 DEF RunStates
  <2>5. Past(k)'
    BY <2>4 DEF Past
  <2>6. \A m \in 1..j.from : m \in 1..j.last
    BY <1>6, <1>8
  <2>7. Copied(k)'
    <3>1. \A m \in Rows : Copies(m)' = Copies(m)
      BY <1>8 DEF Copies
    <3>2. ASSUME NEW m \in 1..j.from, j.clear, j.fallback # NoBatch
          PROVE  Copies(m)' > 0
      <4>1. Copies(m) > 0
        BY <1>1, <1>4, <2>6, <3>2 DEF Copied
      <4>2. m \in Rows
        BY <1>6 DEF Rows
      <4>3. QED BY <3>1, <4>1, <4>2
    <3>3. QED BY <1>1, <1>4, <2>4, <3>2 DEF Copied
  <2>8. (\A m \in Rows : MayCopy(k, m) => MayCopy(j, m)) /\ j.pc \in BeforeItems /\ j.pc # "idle"
    BY <1>4, <2>4 DEF MayCopy, BeforeItems
  <2>9. QED BY <1>0, <1>4, <1>5, <1>6, <1>8, <2>2, <2>4, <2>5, <2>7, <2>8, NothingCopied
<1>9. QED BY <1>4, <1>7, <1>8

\* The insert of a line raises an error, and it is inserted again.
LEMMA LineInsertFailsStep ==
    ASSUME IInv, NEW r \in Runs, LineInsertFails(r)
    PROVE  IInv'
<1>0. PICK j : j = run[r]
  OBVIOUS
<1>1. PICK n : n = j.last + 1
  OBVIOUS
<1>2. PICK h : h = Target(r, n)
  OBVIOUS
<1>3. /\ j.pc = "lines" /\ n <= legacy /\ h # NoBatch /\ ~j.gone /\ Trouble
      /\ again' = [again EXCEPT ![n] = @ + 1]
      /\ \E rows \in 0..2 :
            /\ codes' = [codes EXCEPT ![n][h] = @ + rows]
            /\ run' = [run EXCEPT ![r].last = n, ![r].clear = @ /\ rows > 0]
      /\ legacy' = legacy /\ old' = old /\ up' = up /\ batches' = batches /\ orders' = orders
      /\ items' = items /\ returns' = returns /\ missed' = missed /\ starts' = starts
      /\ pools' = pools
  BY <1>0, <1>1, <1>2 DEF LineInsertFails
<1>4. j \in RunStates /\ TypeOK /\ run \in [Runs -> RunStates]
  BY <1>0, RunIs DEF TypeOK
<1>5. PICK rows \in 0..2 :
         /\ codes' = [codes EXCEPT ![n][h] = @ + rows]
         /\ run' = [run EXCEPT ![r].last = n, ![r].clear = @ /\ rows > 0]
  BY <1>3
<1>6. PICK k : k = [j EXCEPT !.last = n, !.clear = @ /\ rows > 0]
  OBVIOUS
<1>7. run' = [run EXCEPT ![r] = k]
  BY <1>0, <1>4, <1>5, <1>6 DEF RunStates
<1>8. n \in 0..MaxRows
  BY <1>1, <1>3, <1>4, LegacyStockAssumption DEF RunStates, TypeOK
<1>9. /\ k \in RunStates /\ k.pc = "lines" /\ k.last = n /\ k.from = j.from /\ k.map = j.map
      /\ k.gone = j.gone /\ k.fallback = j.fallback /\ (k.clear => j.clear /\ rows > 0)
  BY <1>3, <1>4, <1>6, <1>8 DEF RunStates
<1>10. PoolsTyped'
  BY <1>3, <1>4, TroubleTyped DEF PoolsTyped, TypeOK, pools
<1>11. rows \in Nat /\ rows <= 2
  OBVIOUS
<1>12. LineCopied(r, j, k, n, h, rows)
  BY <1>0, <1>1, <1>2, <1>3, <1>5, <1>7, <1>9, <1>11 DEF LineCopied
<1>13. QED BY <1>10, <1>11, <1>12, LineCopiedStep

\* A step given up: what the run copies of it is not clear.
LEMMA LinePageFailsStep ==
    ASSUME IInv, NEW r \in Runs, LinePageFails(r)
    PROVE  IInv'
<1>0. PICK j : j = run[r]
  OBVIOUS
<1>1. PICK k : k = [j EXCEPT !.pc = "orders", !.last = 0, !.clear = FALSE]
  OBVIOUS
<1>2. /\ j.pc = "lines" /\ run' = [run EXCEPT ![r] = k] /\ missed' = missed
      /\ legacy' = legacy /\ old' = old /\ up' = up /\ codes' = codes /\ orders' = orders
      /\ items' = items /\ returns' = returns /\ batches' = batches
      /\ starts' = starts /\ again' = again /\ PoolsTyped'
  BY <1>0, <1>1, PoolsKept DEF LinePageFails, GiveUp, targets
<1>3. j \in RunStates /\ Copied(j) /\ batches \subseteq Rows /\ missed \subseteq Rows
  BY <1>0, RunIs DEF TypeOK
<1>4. k \in RunStates /\ k.pc = "orders" /\ k.from = j.from /\ k.clear = FALSE
  <2>1. 0 \in 0..MaxRows
    BY LegacyStockAssumption
  <2>2. QED BY <1>1, <1>3, <2>1 DEF RunStates
<1>5. Past(k)' /\ Copied(k)'
  BY <1>2, <1>3, <1>4 DEF Past, Copied
<1>6. (\A n \in Rows : MayCopy(k, n) => MayCopy(j, n)) /\ j.pc \in BeforeItems /\ j.pc # "idle"
  BY <1>2, <1>4 DEF MayCopy, BeforeItems
<1>7. QED BY <1>0, <1>2, <1>3, <1>4, <1>5, <1>6, NothingCopied

\* The assign headers, each once more: the run has got past them.
LEMMA OrderPageStep ==
    ASSUME IInv, NEW r \in Runs, OrderPage(r)
    PROVE  IInv'
<1>0. PICK j : j = run[r]
  OBVIOUS
<1>1. PICK found : found = {n \in Rows : orders'[n] > 0}
  OBVIOUS
<1>2. PICK k : k = [j EXCEPT !.pc = "items", !.clear = j.clear, !.ordersMap = found]
  OBVIOUS
<1>3. /\ j.pc = "orders" /\ run' = [run EXCEPT ![r] = k] /\ missed' = missed
      /\ legacy' = legacy /\ old' = old /\ up' = up /\ codes' = codes
      /\ orders' = OneMore(orders, Present)
      /\ items' = items /\ returns' = returns /\ batches' = batches
      /\ starts' = starts /\ again' = again /\ PoolsTyped'
  BY <1>0, <1>1, <1>2, PoolsKept DEF OrderPage, ToItems
<1>4. j \in RunStates /\ Copied(j) /\ TypeOK /\ CodesFollowHeaders
  BY <1>0, RunIs
<1>5. /\ k \in RunStates /\ k.pc = "items" /\ k.from = j.from /\ k.gone = j.gone
      /\ k.clear = j.clear /\ k.fallback = j.fallback /\ k.ordersMap = found
  <2>1. found \in SUBSET Rows /\ j.clear \in BOOLEAN
    BY <1>1, <1>4 DEF RunStates
  <2>2. QED BY <1>2, <1>4, <2>1 DEF RunStates
<1>6. /\ orders \in [Rows -> Nat] /\ orders' \in [Rows -> Nat]
      /\ \A n \in Rows : orders'[n] = IF n \in Present THEN orders[n] + 1 ELSE orders[n]
  <2>1. orders \in [Rows -> Nat]
    BY <1>4 DEF TypeOK
  <2>2. QED BY <1>3, <2>1, OneMoreIs
<1>7. TypeOK'
  BY <1>3, <1>4, <1>5, <1>6 DEF TypeOK, PoolsTyped
<1>8. CodesFollowHeaders'
  BY <1>3, <1>4 DEF CodesFollowHeaders
<1>9. \A n \in Rows : Copies(n)' = Copies(n) /\ again'[n] = again[n]
  BY <1>3 DEF Copies
<1>10. \A n \in 1..j.from : n \in Rows /\ orders'[n] > 0
  <2>1. SUFFICES ASSUME NEW n \in 1..j.from PROVE n \in Rows /\ orders'[n] > 0
    OBVIOUS
  <2>2. n \in Present /\ n \in Rows
    <3>1. j.from \in Nat /\ j.from <= legacy /\ legacy \in Nat /\ Present \subseteq Rows
      BY <1>4, Numbers, LegacyStockAssumption DEF Copied, RunStates
    <3>2. QED BY <3>1 DEF Present
  <2>3. orders[n] \in Nat /\ orders'[n] = orders[n] + 1
    BY <1>6, <2>2
  <2>4. QED BY <2>2, <2>3
<1>11. Past(k)'
  BY <1>5 DEF Past
<1>12. Copied(k)'
  <2>1. 1..j.from \subseteq found
    BY <1>1, <1>10
  <2>2. k.clear /\ k.fallback # NoBatch => \A n \in 1..k.from : Copies(n)' > 0
    BY <1>3, <1>4, <1>5, <1>9, <1>10 DEF Copied
  <2>3. QED BY <1>3, <1>4, <1>5, <1>10, <2>1, <2>2 DEF Copied
<1>13. /\ r \in OrdersDue /\ r \in ItemsDue /\ r \in ReturnsDue /\ k.pc \notin BeforeItems
       /\ \A n \in Rows : ~MayCopy(k, n)
  BY <1>0, <1>3, <1>5 DEF OrdersDue, ItemsDue, ReturnsDue, BeforeItems, MayCopy
<1>14. \A n \in Rows : orders'[n] = orders[n] \/ orders'[n] = orders[n] + 1
  BY <1>6
<1>15. batches \subseteq batches' /\ missed \subseteq missed' /\ starts' = starts
  BY <1>3
<1>16. QED BY <1>3, <1>7, <1>8, <1>9, <1>11, <1>12, <1>13, <1>14, <1>15, RunMoves

LEMMA OrderPageFailsStep ==
    ASSUME IInv, NEW r \in Runs, OrderPageFails(r)
    PROVE  IInv'
<1>0. PICK j : j = run[r]
  OBVIOUS
<1>1. PICK found : found = {n \in Rows : orders'[n] > 0}
  OBVIOUS
<1>2. PICK k : k = [j EXCEPT !.pc = "items", !.clear = FALSE, !.ordersMap = found]
  OBVIOUS
<1>3. /\ j.pc = "orders" /\ run' = [run EXCEPT ![r] = k] /\ missed' = missed
      /\ legacy' = legacy /\ old' = old /\ up' = up /\ codes' = codes
      /\ orders' = orders \/ orders' = OneMore(orders, Present)
      /\ items' = items /\ returns' = returns /\ batches' = batches /\ pools' = pools
      /\ again' = again /\ starts' = starts /\ (Trouble \/ troubles' = troubles)
  BY <1>0, <1>1, <1>2 DEF OrderPageFails, ToItems
<1>4. j \in RunStates /\ Copied(j) /\ TypeOK /\ CodesFollowHeaders
  BY <1>0, RunIs
<1>5. k \in RunStates /\ k.pc = "items" /\ k.from = j.from /\ k.clear = FALSE
  <2>1. found \in SUBSET Rows
    BY <1>1
  <2>2. QED BY <1>2, <1>4, <2>1 DEF RunStates
<1>6. Past(k)' /\ Copied(k)'
  BY <1>3, <1>4, <1>5 DEF Past, Copied
<1>7. /\ r \in OrdersDue /\ r \in ItemsDue /\ r \in ReturnsDue /\ k.pc \notin BeforeItems
      /\ \A n \in Rows : ~MayCopy(k, n)
  BY <1>0, <1>3, <1>5 DEF OrdersDue, ItemsDue, ReturnsDue, BeforeItems, MayCopy
<1>8. /\ orders' \in [Rows -> Nat]
      /\ \A n \in Rows : orders'[n] = orders[n] \/ orders'[n] = orders[n] + 1
  <2>1. orders \in [Rows -> Nat]
    BY <1>4 DEF TypeOK
  <2>2. QED BY <1>3, <2>1, OneMoreIs
<1>9. PoolsTyped'
  BY <1>3, <1>4, TroubleTyped DEF PoolsTyped, TypeOK, pools
<1>10. TypeOK'
  BY <1>3, <1>4, <1>5, <1>8, <1>9 DEF TypeOK, PoolsTyped
<1>11. CodesFollowHeaders'
  BY <1>3, <1>4 DEF CodesFollowHeaders
<1>12. \A n \in Rows : Copies(n)' = Copies(n) /\ again'[n] = again[n]
  BY <1>3 DEF Copies
<1>13. QED BY <1>3, <1>6, <1>7, <1>8, <1>10, <1>11, <1>12, RunMoves

\* The assign lines: of those that were there at the start every order is known.

LEMMA ItemPageStep ==
    ASSUME IInv, NEW r \in Runs, ItemPage(r)
    PROVE  IInv'
<1>0. PICK j : j = run[r]
  OBVIOUS
<1>1. PICK known : known = IF j.fallback = NoBatch THEN {} ELSE Present \cap j.ordersMap
  OBVIOUS
<1>2. /\ j.pc = "items" /\ missed' = missed
      /\ \/ /\ known = {} \/ ~j.gone
            /\ items' = OneMore(items, known) /\ Goto(r, "reversals")
         \/ known # {} /\ j.gone /\ GiveUp(r, "reversals") /\ items' = items
      /\ legacy' = legacy /\ old' = old /\ up' = up /\ codes' = codes /\ orders' = orders
      /\ returns' = returns /\ batches' = batches
      /\ starts' = starts /\ again' = again /\ PoolsTyped'
  BY <1>0, <1>1, PoolsKept DEF ItemPage, Known
<1>3. j \in RunStates /\ Copied(j) /\ TypeOK /\ CodesFollowHeaders
  BY <1>0, RunIs
<1>4. 0 \in 0..MaxRows /\ batches \subseteq Rows /\ missed \subseteq Rows
  BY <1>3, LegacyStockAssumption DEF TypeOK
<1>5. CASE items' = OneMore(items, known) /\ Goto(r, "reversals")
  <2>1. PICK k : k = [j EXCEPT !.pc = "reversals", !.last = 0]
    OBVIOUS
  <2>2. run' = [run EXCEPT ![r] = k]
    BY <1>0, <1>5, <2>1 DEF Goto
  <2>3. /\ k \in RunStates /\ k.pc = "reversals" /\ k.from = j.from /\ k.gone = j.gone
        /\ k.clear = j.clear /\ k.fallback = j.fallback
    BY <1>3, <1>4, <2>1 DEF RunStates
  <2>4. /\ items \in [Rows -> Nat] /\ items' \in [Rows -> Nat]
        /\ \A n \in Rows : items'[n] = IF n \in known THEN items[n] + 1 ELSE items[n]
    <3>1. items \in [Rows -> Nat]
      BY <1>3 DEF TypeOK
    <3>2. QED BY <1>5, <3>1, OneMoreIs
  <2>5. TypeOK'
    BY <1>2, <1>3, <2>2, <2>3, <2>4 DEF TypeOK, PoolsTyped
  <2>6. CodesFollowHeaders'
    BY <1>2, <1>3 DEF CodesFollowHeaders
  <2>7. \A n \in Rows : Copies(n)' = Copies(n) /\ again'[n] = again[n]
    BY <1>2 DEF Copies
  <2>8. Past(k)'
    BY <2>3 DEF Past
  <2>9. \A n \in 1..j.from : n \in Rows /\ n \in Present
    <3>1. j.from \in Nat /\ j.from <= legacy /\ legacy \in Nat /\ Present \subseteq Rows
      BY <1>3, Numbers, LegacyStockAssumption DEF Copied, RunStates
    <3>2. QED BY <3>1 DEF Present
  <2>10. ASSUME NEW n \in 1..j.from, j.clear, j.fallback # NoBatch
         PROVE  Copies(n)' > 0 /\ items'[n] > 0
    <3>1. n \in known /\ Copies(n) > 0 /\ n \in Rows
      BY <1>1, <1>2, <1>3, <2>9, <2>10 DEF Copied
    <3>2. items[n] \in Nat /\ items'[n] = items[n] + 1
      BY <2>4, <3>1
    <3>3. QED BY <2>7, <3>1, <3>2
  <2>11. Copied(k)'
    BY <1>2, <1>3, <2>3, <2>10 DEF Copied
  <2>12. /\ r \in ItemsDue /\ r \in ReturnsDue /\ k.pc \notin BeforeItems \cup {"items"}
         /\ k.pc \notin BeforeItems /\ \A n \in Rows : ~MayCopy(k, n)
    BY <1>0, <1>2, <2>3 DEF ItemsDue, ReturnsDue, BeforeItems, MayCopy
  <2>13. \A n \in Rows : items'[n] = items[n] \/ items'[n] = items[n] + 1
    BY <2>4
  <2>14. batches \subseteq batches' /\ missed \subseteq missed' /\ starts' = starts
    BY <1>2
  <2>15. QED BY <1>2, <2>2, <2>5, <2>6, <2>7, <2>8, <2>11, <2>12, <2>13, <2>14, RunMoves
<1>6. CASE items' = items /\ GiveUp(r, "reversals")
  <2>1. PICK k : k = [j EXCEPT !.pc = "reversals", !.last = 0, !.clear = FALSE]
    OBVIOUS
  <2>2. run' = [run EXCEPT ![r] = k]
    BY <1>0, <1>6, <2>1 DEF GiveUp
  <2>3. k \in RunStates /\ k.pc = "reversals" /\ k.from = j.from /\ k.clear = FALSE
    BY <1>3, <1>4, <2>1 DEF RunStates
  <2>4. Past(k)' /\ Copied(k)'
    BY <1>2, <1>3, <2>3 DEF Past, Copied
  <2>5. /\ \A n \in Rows : ~MayCopy(k, n)
        /\ k.pc \notin BeforeItems \cup {"items"} /\ k.pc \notin BeforeItems /\ j.pc # "idle"
    BY <1>2, <2>3 DEF MayCopy, BeforeItems
  <2>6. QED BY <1>0, <1>2, <1>4, <1>6, <2>2, <2>3, <2>4, <2>5, NothingCopied
<1>7. QED BY <1>2, <1>5, <1>6

LEMMA ItemPageFailsStep ==
    ASSUME IInv, NEW r \in Runs, ItemPageFails(r)
    PROVE  IInv'
<1>0. PICK j : j = run[r]
  OBVIOUS
<1>1. PICK k : k = [j EXCEPT !.pc = "reversals", !.last = 0, !.clear = FALSE]
  OBVIOUS
<1>2. /\ j.pc = "items" /\ run' = [run EXCEPT ![r] = k] /\ missed' = missed
      /\ legacy' = legacy /\ old' = old /\ up' = up /\ codes' = codes /\ orders' = orders
      /\ items' = items \/ items' = OneMore(items, Known(r))
      /\ returns' = returns /\ batches' = batches /\ pools' = pools
      /\ again' = again /\ starts' = starts /\ (Trouble \/ troubles' = troubles)
  BY <1>0, <1>1 DEF ItemPageFails, GiveUp
<1>3. j \in RunStates /\ Copied(j) /\ TypeOK /\ CodesFollowHeaders
  BY <1>0, RunIs
<1>4. k \in RunStates /\ k.pc = "reversals" /\ k.from = j.from /\ k.clear = FALSE
  <2>1. 0 \in 0..MaxRows
    BY LegacyStockAssumption
  <2>2. QED BY <1>1, <1>3, <2>1 DEF RunStates
<1>5. Past(k)' /\ Copied(k)'
  BY <1>2, <1>3, <1>4 DEF Past, Copied
<1>6. /\ r \in ItemsDue /\ r \in ReturnsDue /\ k.pc \notin BeforeItems \cup {"items"}
      /\ k.pc \notin BeforeItems /\ \A n \in Rows : ~MayCopy(k, n)
  BY <1>0, <1>2, <1>4 DEF ItemsDue, ReturnsDue, BeforeItems, MayCopy
<1>7. /\ items' \in [Rows -> Nat]
      /\ \A n \in Rows : items'[n] = items[n] \/ items'[n] = items[n] + 1
  <2>1. items \in [Rows -> Nat]
    BY <1>3 DEF TypeOK
  <2>2. QED BY <1>2, <2>1, OneMoreIs
<1>8. PoolsTyped'
  BY <1>2, <1>3, TroubleTyped DEF PoolsTyped, TypeOK, pools
<1>9. TypeOK'
  BY <1>2, <1>3, <1>4, <1>7, <1>8 DEF TypeOK, PoolsTyped
<1>10. CodesFollowHeaders'
  BY <1>2, <1>3 DEF CodesFollowHeaders
<1>11. \A n \in Rows : Copies(n)' = Copies(n) /\ again'[n] = again[n]
  BY <1>2 DEF Copies
<1>12. QED BY <1>2, <1>5, <1>6, <1>7, <1>9, <1>10, <1>11, RunMoves

\* The run ends, with the reversals copied once more or not.
LEMMA NoRunIs == NoRun \in RunStates /\ NoRun.pc = "idle" /\ NoRun.clear /\ NoRun.from = 0 /\ ~NoRun.gone
BY LegacyStockAssumption DEF NoRun, RunStates

LEMMA ReversalsStep ==
    ASSUME IInv, NEW r \in Runs, Reversals(r)
    PROVE  IInv'
<1>0. PICK j : j = run[r]
  OBVIOUS
<1>1. PICK k : k = NoRun
  OBVIOUS
<1>2. /\ j.pc = "reversals" /\ run' = [run EXCEPT ![r] = k] /\ missed' = missed
      /\ returns' = returns \/ returns' = OneMore(returns, Present)
      /\ legacy' = legacy /\ old' = old /\ up' = up /\ codes' = codes /\ orders' = orders
      /\ items' = items /\ batches' = batches /\ Close(conn[r])
      /\ again' = again /\ starts' = starts /\ (Trouble \/ troubles' = troubles)
  BY <1>0, <1>1 DEF Reversals, End
<1>3. TypeOK /\ CodesFollowHeaders /\ returns \in [Rows -> Nat] /\ legacy \in Nat
  BY RunIs, Numbers DEF TypeOK
<1>4. k \in RunStates /\ k.pc = "idle" /\ k.clear /\ k.from = 0 /\ ~k.gone
  BY <1>1, NoRunIs
<1>5. /\ returns' \in [Rows -> Nat]
      /\ \A n \in Rows : returns'[n] = returns[n] \/ returns'[n] = returns[n] + 1
  BY <1>2, <1>3, OneMoreIs
<1>6. PoolsTyped'
  BY <1>2, TroubleTyped, CloseTyped DEF PoolsTyped
<1>7. TypeOK'
  BY <1>2, <1>3, <1>4, <1>5, <1>6 DEF TypeOK, PoolsTyped
<1>8. CodesFollowHeaders'
  BY <1>2, <1>3 DEF CodesFollowHeaders
<1>9. Past(k)' /\ Copied(k)'
  BY <1>2, <1>3, <1>4 DEF Past, Copied
<1>10. /\ r \in ReturnsDue /\ k.pc \notin BeforeItems /\ k.pc \notin BeforeItems \cup {"items"}
       /\ \A n \in Rows : ~MayCopy(k, n)
  BY <1>0, <1>2, <1>4 DEF ReturnsDue, BeforeItems, MayCopy
<1>11. \A n \in Rows : Copies(n)' = Copies(n) /\ again'[n] = again[n]
  BY <1>2 DEF Copies
<1>12. QED BY <1>2, <1>4, <1>5, <1>7, <1>8, <1>9, <1>10, <1>11, RunMoves

\* The run ends early.
LEMMA RunFailsStep ==
    ASSUME IInv, NEW r \in Runs, RunFails(r)
    PROVE  IInv'
<1>0. PICK j : j = run[r]
  OBVIOUS
<1>1. PICK k : k = NoRun
  OBVIOUS
<1>2. /\ j.pc # "idle" /\ run' = [run EXCEPT ![r] = k] /\ missed' = missed
      /\ legacy' = legacy /\ old' = old /\ up' = up /\ codes' = codes /\ orders' = orders
      /\ items' = items /\ returns' = returns /\ batches' = batches
      /\ Close(conn[r]) /\ Trouble /\ starts' = starts /\ again' = again
  BY <1>0, <1>1 DEF RunFails, End, targets
<1>3. k \in RunStates /\ k.pc = "idle" /\ k.clear /\ k.from = 0 /\ ~k.gone
  BY <1>1, NoRunIs
<1>4. batches \subseteq Rows /\ missed \subseteq Rows /\ legacy \in Nat
  BY RunIs, Numbers DEF TypeOK
<1>5. PoolsTyped'
  BY <1>2, TroubleTyped, CloseTyped DEF PoolsTyped
<1>6. Past(k)' /\ Copied(k)'
  BY <1>2, <1>3, <1>4 DEF Past, Copied
<1>7. /\ k.pc \notin BeforeItems \cup {"items"} /\ k.pc \notin BeforeItems
      /\ \A n \in Rows : ~MayCopy(k, n)
  BY <1>3 DEF BeforeItems, MayCopy
<1>8. QED BY <1>0, <1>2, <1>3, <1>4, <1>5, <1>6, <1>7, NothingCopied

-----------------------------------------------------------------------------
\* A run more may copy each row once more.
LEMMA StartStep ==
    ASSUME IInv, NEW r \in Runs, Start(r)
    PROVE  IInv'
<1>1. PICK k : k = [NoRun EXCEPT !.pc = "headers", !.map = batches, !.from = legacy]
  OBVIOUS
<1>2. /\ run[r].pc = "idle" /\ run' = [run EXCEPT ![r] = k] /\ missed' = missed
      /\ legacy' = legacy /\ old' = old /\ up' = up /\ codes' = codes /\ orders' = orders
      /\ items' = items /\ returns' = returns /\ batches' = batches
      /\ starts' = starts + 1 /\ starts < MaxStarts /\ again' = again
      /\ troubles' = troubles /\ pool' = (IF pool = 0 THEN starts' ELSE pool)
      /\ conn' = [conn EXCEPT ![r] = pool']
  BY <1>1 DEF Start, Running, targets
<1>3. TypeOK /\ Budget /\ CodesFollowHeaders
  BY DEF IInv
<1>4. legacy \in 0..MaxRows /\ batches \subseteq Rows
  BY <1>3 DEF TypeOK
<1>5. /\ k \in RunStates /\ k.pc = "headers" /\ k.last = 0 /\ k.from = legacy
      /\ ~k.gone /\ k.clear
  <2>1. NoRun \in RunStates
    BY NoRunIs
  <2>2. PICK z : z = NoRun
    OBVIOUS
  <2>3. z \in RunStates /\ k = [z EXCEPT !.pc = "headers", !.map = batches, !.from = legacy]
        /\ z.last = 0 /\ ~z.gone /\ z.clear
    BY <1>1, <2>1, <2>2 DEF NoRun
  <2>4. QED BY <1>4, <2>3 DEF RunStates
<1>6. run'[r] = k /\ \A d \in Runs \ {r} : run'[d] = run[d]
  BY <1>2, <1>3 DEF TypeOK
<1>7. TypeOK'
  <2>1. starts' \in 0..MaxStarts
    BY <1>2, <1>3, LegacyStockAssumption DEF TypeOK
  <2>2. pool' \in 0..MaxStarts
    BY <1>2, <1>3, <2>1 DEF TypeOK
  <2>3. conn' \in [Runs -> 0..MaxStarts]
    BY <1>2, <1>3, <2>2 DEF TypeOK
  <2>4. QED BY <1>2, <1>3, <1>5, <2>1, <2>2, <2>3 DEF TypeOK
<1>8. CodesFollowHeaders'
  BY <1>2, <1>3 DEF CodesFollowHeaders
<1>9. Budget'
  <2>1. SUFFICES ASSUME NEW n \in Rows
                 PROVE  /\ Copies(n) + Cardinality(LinesDue(n)') <= starts + again[n] + 1
                        /\ orders[n] + Cardinality(OrdersDue') <= starts + 1
                        /\ items[n] + Cardinality(ItemsDue') <= starts + 1
                        /\ returns[n] + Cardinality(ReturnsDue') <= starts + 1
    <3>1. ASSUME NEW n \in Rows PROVE starts' + again'[n] = starts + again[n] + 1
      BY <1>2, <1>3, Numbers
    <3>2. QED BY <1>2, <3>1 DEF Budget, Copies
  <2>2. /\ LinesDue(n) \in SUBSET Runs /\ LinesDue(n)' \in SUBSET (LinesDue(n) \cup {r})
        /\ OrdersDue \in SUBSET Runs /\ OrdersDue' \in SUBSET (OrdersDue \cup {r})
        /\ ItemsDue \in SUBSET Runs /\ ItemsDue' \in SUBSET (ItemsDue \cup {r})
        /\ ReturnsDue \in SUBSET Runs /\ ReturnsDue' \in SUBSET (ReturnsDue \cup {r})
    BY <1>6 DEF LinesDue, OrdersDue, ItemsDue, ReturnsDue, MayCopy
  <2>3. /\ Copies(n) + Cardinality(LinesDue(n)) <= starts + again[n]
        /\ orders[n] + Cardinality(OrdersDue) <= starts
        /\ items[n] + Cardinality(ItemsDue) <= starts
        /\ returns[n] + Cardinality(ReturnsDue) <= starts
    BY <1>3 DEF Budget
  <2>4. /\ starts \in Nat /\ Copies(n) \in Nat
        /\ orders[n] \in Nat /\ items[n] \in Nat /\ returns[n] \in Nat
        /\ again[n] \in Nat /\ starts + again[n] \in Nat
    BY <1>3, Numbers, CopiesNat
  <2>5. Copies(n) + Cardinality(LinesDue(n)') <= starts + again[n] + 1
    BY <2>2, <2>3, <2>4, LegacyStockAssumption, OneMoreLeft
  <2>6. orders[n] + Cardinality(OrdersDue') <= starts + 1
    BY <2>2, <2>3, <2>4, LegacyStockAssumption, OneMoreLeft
  <2>7. items[n] + Cardinality(ItemsDue') <= starts + 1
    BY <2>2, <2>3, <2>4, LegacyStockAssumption, OneMoreLeft
  <2>8. returns[n] + Cardinality(ReturnsDue') <= starts + 1
    BY <2>2, <2>3, <2>4, LegacyStockAssumption, OneMoreLeft
  <2>9. QED BY <2>5, <2>6, <2>7, <2>8
<1>10. ASSUME NEW d \in Runs PROVE Past(run[d])' /\ Copied(run[d])'
  <2>1. CASE d = r
    <3>1. Past(k)' /\ Copied(k)'
      BY <1>2, <1>4, <1>5, LegacyStockAssumption DEF Past, Copied
    <3>2. QED BY <1>6, <2>1, <3>1 DEF Past, Copied
  <2>2. CASE d # r
    <3>1. run'[d] = run[d] /\ Past(run[d]) /\ Copied(run[d])
      BY <1>6, <2>2 DEF IInv
    <3>2. \A n \in Rows : Copies(n)' = Copies(n)
      BY <1>2 DEF Copies
    <3>3. run[d] \in RunStates
      BY <1>3 DEF TypeOK
    <3>4. PICK x : x = run[d]
      OBVIOUS
    <3>5. x \in RunStates /\ Past(x) /\ Copied(x) /\ run'[d] = x
      BY <3>1, <3>3, <3>4
    <3>6. Past(x)'
      BY <1>2, <3>5, PastKept
    <3>7. \A n \in Rows : Copies(n) <= Copies(n)' /\ orders[n] <= orders'[n] /\ items[n] <= items'[n]
      BY <1>2, <1>3, <3>2, Numbers, CopiesNat
    <3>8. Copied(x)'
      BY <1>2, <1>3, <1>7, <3>5, <3>7, CopiedKept
    <3>9. QED BY <3>5, <3>6, <3>8 DEF Past, Copied
  <2>3. QED BY <2>1, <2>2
<1>11. QED BY <1>7, <1>8, <1>9, <1>10 DEF IInv

\* No code anywhere is no copy of any line.
LEMMA NoCopies ==
    ASSUME NEW n \in Rows
    PROVE  /\ NoCodes \in [Rows -> [Batches -> Nat]] /\ None \in [Rows -> Nat] /\ None[n] = 0
           /\ \A h \in Batches : NoCodes[n][h] = 0
           /\ SumFunctionOnSet(NoCodes[n], Batches) = 0
<1>1. PICK f : f = NoCodes[n]
  OBVIOUS
<1>2. \A h \in Batches : f[h] = 0
  BY <1>1 DEF NoCodes
<1>3. SumFunctionOnSet(f, Batches) = 0
  BY <1>2, BatchesFinite, SumZero
<1>4. QED BY <1>1, <1>2, <1>3 DEF NoCodes, None

\* The tables are cleaned: what the runs had gone past is missed now, what they
\* may still copy is the same.
LEMMA CleanStep ==
    ASSUME IInv, Clean
    PROVE  IInv'
<1>1. TypeOK /\ Budget
  BY DEF IInv
<1>2. /\ batches' = {} /\ codes' = NoCodes /\ orders' = None /\ items' = None /\ returns' = None
      /\ legacy' = legacy /\ old' = old /\ up' = up /\ starts' = starts /\ again' = again
      /\ pools' = pools /\ Trouble
  BY DEF Clean
<1>3. ASSUME NEW r \in Runs
      PROVE  /\ run'[r] \in RunStates /\ run'[r].pc = run[r].pc /\ run'[r].last = run[r].last
             /\ run'[r].map = run[r].map /\ run'[r].from = run[r].from /\ run'[r].clear = FALSE
  <2>1. PICK j : j = run[r]
    OBVIOUS
  <2>2. j \in RunStates
    BY <1>1, <2>1 DEF TypeOK
  <2>3. \/ run'[r] = [j EXCEPT !.clear = FALSE]
        \/ run'[r] = [j EXCEPT !.clear = FALSE, !.gone = TRUE]
    BY <2>1 DEF Clean
  <2>4. QED BY <2>1, <2>2, <2>3 DEF RunStates
<1>4. ASSUME NEW r \in Runs
      PROVE  /\ run[r].pc = "headers" => 1..run[r].last \subseteq missed'
             /\ run[r].pc = "refresh" => Present \subseteq missed'
  BY DEF Clean
<1>5. missed \subseteq missed' /\ missed' \subseteq Rows
  <2>1. ASSUME NEW r \in Runs PROVE 1..run[r].last \subseteq Rows /\ Present \subseteq Rows
    <3>1. PICK j : j = run[r]
      OBVIOUS
    <3>2. j.last \in 0..MaxRows
      BY <1>1, <3>1 DEF TypeOK, RunStates
    <3>3. 1..j.last \subseteq Rows
      BY <3>2, LegacyStockAssumption DEF Rows
    <3>4. QED BY <1>1, <3>1, <3>3, Numbers
  <2>2. missed \subseteq Rows
    BY <1>1 DEF TypeOK
  <2>3. QED BY <2>1, <2>2 DEF Clean
<1>6. TypeOK'
  <2>1. run' \in [Runs -> RunStates]
    <3>1. DOMAIN run' = Runs /\ run' = [r \in Runs |-> run'[r]]
      BY DEF Clean
    <3>2. QED BY <1>3, <3>1
  <2>2. codes' \in [Rows -> [Batches -> Nat]] /\ None \in [Rows -> Nat]
    BY <1>2 DEF NoCodes, None
  <2>3. troubles' \in 0..MaxTroubles /\ pool' = pool /\ conn' = conn
    BY <1>2, TroubleTyped DEF pools
  <2>4. QED BY <1>1, <1>2, <1>5, <2>1, <2>2, <2>3 DEF TypeOK
<1>7. CodesFollowHeaders'
  BY <1>2, NoCopies DEF CodesFollowHeaders
<1>8. Budget'
  <2>1. SUFFICES ASSUME NEW n \in Rows
                 PROVE  /\ Copies(n)' + Cardinality(LinesDue(n)') <= starts + again[n]
                        /\ orders'[n] + Cardinality(OrdersDue') <= starts
                        /\ items'[n] + Cardinality(ItemsDue') <= starts
                        /\ returns'[n] + Cardinality(ReturnsDue') <= starts
    BY <1>2 DEF Budget
  <2>2. /\ LinesDue(n)' = LinesDue(n) /\ OrdersDue' = OrdersDue
        /\ ItemsDue' = ItemsDue /\ ReturnsDue' = ReturnsDue
    BY <1>3 DEF LinesDue, OrdersDue, ItemsDue, ReturnsDue, MayCopy
  <2>3. Copies(n)' = 0 /\ orders'[n] = 0 /\ items'[n] = 0 /\ returns'[n] = 0
    BY <1>2, NoCopies DEF Copies
  <2>4. /\ Copies(n) \in Nat /\ orders[n] \in Nat /\ items[n] \in Nat /\ returns[n] \in Nat
        /\ starts \in Nat /\ again[n] \in Nat
    BY <1>1, Numbers, CopiesNat
  <2>5. /\ LinesDue(n) \in SUBSET Runs /\ OrdersDue \in SUBSET Runs
        /\ ItemsDue \in SUBSET Runs /\ ReturnsDue \in SUBSET Runs
    BY DEF LinesDue, OrdersDue, ItemsDue, ReturnsDue
  <2>6. \A S \in SUBSET Runs : Cardinality(S) \in Nat
    BY LegacyStockAssumption, FS_Subset, FS_CardinalityType
  <2>7. /\ Copies(n) + Cardinality(LinesDue(n)) <= starts + again[n]
        /\ orders[n] + Cardinality(OrdersDue) <= starts
        /\ items[n] + Cardinality(ItemsDue) <= starts
        /\ returns[n] + Cardinality(ReturnsDue) <= starts
    BY <1>1 DEF Budget
  <2>8. /\ Cardinality(LinesDue(n)) \in Nat /\ Cardinality(OrdersDue) \in Nat
        /\ Cardinality(ItemsDue) \in Nat /\ Cardinality(ReturnsDue) \in Nat
    BY <2>5, <2>6
  <2>9. QED BY <2>2, <2>3, <2>4, <2>7, <2>8
<1>9. ASSUME NEW r \in Runs PROVE Past(run[r])' /\ Copied(run[r])'
  <2>1. Past(run[r]) /\ Copied(run[r])
    BY DEF IInv
  <2>2. Past(run[r])'
    BY <1>2, <1>3, <1>4, <1>5, <2>1 DEF Past, Present
  <2>3. Copied(run[r])'
    BY <1>2, <1>3, <2>1 DEF Copied
  <2>4. QED BY <2>2, <2>3
<1>10. QED BY <1>6, <1>7, <1>8, <1>9 DEF IInv

\* The server restarts: no run is left that would copy more.
LEMMA CrashStep ==
    ASSUME IInv, Crash
    PROVE  IInv'
<1>1. TypeOK /\ Budget /\ CodesFollowHeaders
  BY DEF IInv
<1>2. /\ missed' = missed /\ legacy' = legacy /\ old' = old /\ up' = up /\ codes' = codes
      /\ orders' = orders /\ items' = items /\ returns' = returns /\ batches' = batches
      /\ run' = [r \in Runs |-> NoRun] /\ starts' = starts /\ again' = again
      /\ Trouble /\ pool' = 0 /\ conn' = [r \in Runs |-> 0]
  BY DEF Crash, targets
<1>3. TypeOK'
  <2>1. troubles' \in 0..MaxTroubles /\ 0 \in 0..MaxStarts
    BY <1>2, TroubleTyped, LegacyStockAssumption
  <2>2. run' \in [Runs -> RunStates]
    BY <1>2, NoRunIs
  <2>3. QED BY <1>1, <1>2, <2>1, <2>2 DEF TypeOK
<1>4. CodesFollowHeaders'
  BY <1>1, <1>2 DEF CodesFollowHeaders
<1>5. \A r \in Runs : run'[r].pc = "idle" /\ run'[r].clear /\ run'[r].from = 0 /\ ~run'[r].gone
  BY <1>2, NoRunIs
<1>6. Budget'
  <2>1. SUFFICES ASSUME NEW n \in Rows
                 PROVE  /\ Copies(n) + Cardinality(LinesDue(n)') <= starts + again[n]
                        /\ orders[n] + Cardinality(OrdersDue') <= starts
                        /\ items[n] + Cardinality(ItemsDue') <= starts
                        /\ returns[n] + Cardinality(ReturnsDue') <= starts
    BY <1>2 DEF Budget, Copies
  <2>2. LinesDue(n)' = {} /\ OrdersDue' = {} /\ ItemsDue' = {} /\ ReturnsDue' = {}
    BY <1>5 DEF LinesDue, OrdersDue, ItemsDue, ReturnsDue, MayCopy, BeforeItems
  <2>3. Cardinality({}) = 0
    BY FS_EmptySet
  <2>4. /\ LinesDue(n) \in SUBSET Runs /\ OrdersDue \in SUBSET Runs
        /\ ItemsDue \in SUBSET Runs /\ ReturnsDue \in SUBSET Runs
    BY DEF LinesDue, OrdersDue, ItemsDue, ReturnsDue
  <2>5. \A S \in SUBSET Runs : Cardinality(S) \in Nat
    BY LegacyStockAssumption, FS_Subset, FS_CardinalityType
  <2>6. /\ Cardinality(LinesDue(n)) \in Nat /\ Cardinality(OrdersDue) \in Nat
        /\ Cardinality(ItemsDue) \in Nat /\ Cardinality(ReturnsDue) \in Nat
    BY <2>4, <2>5
  <2>7. /\ Copies(n) \in Nat /\ orders[n] \in Nat /\ items[n] \in Nat /\ returns[n] \in Nat
        /\ starts \in Nat /\ again[n] \in Nat
    BY <1>1, Numbers, CopiesNat
  <2>8. /\ Copies(n) + Cardinality(LinesDue(n)) <= starts + again[n]
        /\ orders[n] + Cardinality(OrdersDue) <= starts
        /\ items[n] + Cardinality(ItemsDue) <= starts
        /\ returns[n] + Cardinality(ReturnsDue) <= starts
    BY <1>1 DEF Budget
  <2>9. QED BY <2>2, <2>3, <2>6, <2>7, <2>8
<1>7. \A r \in Runs : Past(run[r])' /\ Copied(run[r])'
  BY <1>1, <1>2, <1>5, Numbers DEF Past, Copied
<1>8. QED BY <1>3, <1>4, <1>6, <1>7 DEF IInv

\* The legacy tables grow: a run past the headers has missed the new one.
LEMMA LegacyGrowsStep ==
    ASSUME IInv, LegacyGrows
    PROVE  IInv'
<1>1. TypeOK /\ Budget /\ CodesFollowHeaders
  BY DEF IInv
<1>2. /\ legacy < MaxRows /\ legacy' = legacy + 1 /\ old' \in {old, Present}
      /\ missed' = IF \E r \in Runs : run[r].pc \in {"refresh", "lines"}
                   THEN missed \cup {legacy + 1} ELSE missed
      /\ up' = up /\ codes' = codes /\ orders' = orders /\ items' = items /\ returns' = returns
      /\ batches' = batches /\ run' = run
      /\ starts' = starts /\ again' = again /\ PoolsTyped'
  BY PoolsKept DEF LegacyGrows, targets
<1>3. legacy \in Nat /\ MaxRows \in Nat /\ Present \subseteq Rows
  BY <1>1, Numbers, LegacyStockAssumption
<1>4. /\ legacy' \in 0..MaxRows /\ legacy + 1 \in Rows
      /\ \A n \in 1..legacy' : n \in Present \/ n = legacy + 1
  BY <1>2, <1>3 DEF Rows, Present
<1>5. missed \subseteq missed' /\ missed' \subseteq Rows
  BY <1>1, <1>2, <1>4 DEF TypeOK
<1>6. TypeOK'
  BY <1>1, <1>2, <1>3, <1>4, <1>5 DEF TypeOK, PoolsTyped
<1>7. CodesFollowHeaders'
  BY <1>1, <1>2, <1>5 DEF CodesFollowHeaders
<1>8. Budget'
  BY <1>1, <1>2 DEF Budget, Copies, LinesDue, OrdersDue, ItemsDue, ReturnsDue
<1>9. ASSUME NEW r \in Runs PROVE Past(run[r])' /\ Copied(run[r])'
  <2>1. PICK j : j = run[r]
    OBVIOUS
  <2>2. /\ Past(j) /\ Copied(j) /\ j.from \in Nat
        /\ j.pc \in {"refresh", "lines"} => legacy + 1 \in missed'
    BY <1>1, <1>2, <2>1, LegacyStockAssumption DEF TypeOK, RunStates, IInv
  <2>3. Past(j)'
    BY <1>2, <1>4, <1>5, <2>2 DEF Past, Present
  <2>4. Copied(j)'
    BY <1>2, <1>3, <2>2 DEF Copied, Copies
  <2>5. run'[r] = j
    BY <1>2, <2>1
  <2>6. QED BY <2>3, <2>4, <2>5 DEF Past, Copied
<1>10. QED BY <1>6, <1>7, <1>8, <1>9 DEF IInv

\* A step that changes no table and no run.
LEMMA NothingHappens ==
    ASSUME IInv, UNCHANGED <<legacy, old, targets, run, missed, starts, again>>,
           up' \in BOOLEAN, PoolsTyped'
    PROVE  IInv'
<1>1. /\ legacy' = legacy /\ old' = old /\ codes' = codes /\ orders' = orders
      /\ items' = items /\ returns' = returns /\ batches' = batches /\ run' = run
      /\ missed' = missed /\ starts' = starts /\ again' = again
  BY DEF targets
<1>2. TypeOK /\ Budget /\ CodesFollowHeaders
  BY DEF IInv
<1>3. TypeOK'
  BY <1>1, <1>2 DEF TypeOK, PoolsTyped
<1>4. CodesFollowHeaders'
  BY <1>1, <1>2 DEF CodesFollowHeaders
<1>5. Budget'
  BY <1>1, <1>2 DEF Budget, Copies, LinesDue, OrdersDue, ItemsDue, ReturnsDue
<1>6. \A r \in Runs : Past(run[r])' /\ Copied(run[r])'
  BY <1>1 DEF IInv, Past, Copied, Present, Copies
<1>7. QED BY <1>3, <1>4, <1>5, <1>6 DEF IInv

\* A pool is closed from outside: nothing is copied and no run has moved.
LEMMA PoolClosedStep ==
    ASSUME IInv, PoolClosed
    PROVE  IInv'
<1>1. /\ UNCHANGED <<legacy, old, targets, run, missed, starts, again>> /\ up' = up
      /\ Trouble /\ (Close(pool) \/ (pool' = 0 /\ conn' = conn))
  BY DEF PoolClosed
<1>2. up' \in BOOLEAN
  BY <1>1 DEF IInv, TypeOK
<1>3. PoolsTyped'
  <2>1. troubles' \in 0..MaxTroubles /\ 0 \in 0..MaxStarts
    BY <1>1, TroubleTyped, LegacyStockAssumption
  <2>2. conn \in [Runs -> 0..MaxStarts]
    BY DEF IInv, TypeOK
  <2>3. QED BY <1>1, <2>1, <2>2, CloseTyped DEF PoolsTyped
<1>4. QED BY <1>1, <1>2, <1>3, NothingHappens

-----------------------------------------------------------------------------
LEMMA InitIInv == Init => IInv
<1>1. SUFFICES ASSUME Init PROVE IInv
  OBVIOUS
<1>2. \A n \in Rows : /\ codes[n] = NoCodes[n] /\ orders[n] = 0 /\ items[n] = 0 /\ returns[n] = 0
                      /\ \A h \in Batches : codes[n][h] = 0
                      /\ Copies(n) = 0
  BY <1>1, NoCopies DEF Init, Copies
<1>3. \A r \in Runs : run[r] = NoRun
  BY <1>1 DEF Init
<1>4. TypeOK
  <2>1. codes \in [Rows -> [Batches -> Nat]] /\ None \in [Rows -> Nat]
    BY <1>1 DEF Init, NoCodes, None
  <2>2. run \in [Runs -> RunStates]
    BY <1>1, NoRunIs DEF Init
  <2>3. /\ legacy \in 0..MaxRows /\ starts \in 0..MaxStarts
        /\ troubles \in 0..MaxTroubles /\ pool \in 0..MaxStarts
        /\ conn \in [Runs -> 0..MaxStarts]
    BY <1>1, LegacyStockAssumption DEF Init
  <2>4. QED BY <1>1, <2>1, <2>2, <2>3 DEF Init, TypeOK
<1>5. CodesFollowHeaders
  BY <1>2 DEF CodesFollowHeaders
<1>6. Budget
  <2>1. \A n \in Rows : LinesDue(n) = {} /\ OrdersDue = {} /\ ItemsDue = {} /\ ReturnsDue = {}
    BY <1>3, NoRunIs DEF LinesDue, OrdersDue, ItemsDue, ReturnsDue, MayCopy, BeforeItems
  <2>2. Cardinality({}) = 0 /\ starts = 0
    BY <1>1, FS_EmptySet DEF Init
  <2>3. \A n \in Rows : again[n] = 0
    BY <1>1, NoCopies DEF Init
  <2>4. QED BY <1>2, <2>1, <2>2, <2>3 DEF Budget
<1>7. \A r \in Runs : Past(run[r]) /\ Copied(run[r])
  <2>1. legacy = 1
    BY <1>1 DEF Init
  <2>2. QED BY <1>3, <2>1, NoRunIs DEF Past, Copied
<1>8. QED BY <1>4, <1>5, <1>6, <1>7 DEF IInv

LEMMA NextIInv == IInv /\ [Next]_vars => IInv'
<1>1. SUFFICES ASSUME IInv, [Next]_vars PROVE IInv'
  OBVIOUS
<1>2. TypeOK
  BY <1>1 DEF IInv
<1>3. CASE \E r \in Runs : Start(r)
  BY <1>1, <1>3, StartStep
<1>4. ASSUME NEW r \in Runs, Progress(r) PROVE IInv'
  <2>1. CASE HeaderPage(r)
    BY <1>1, <2>1, HeaderPageStep
  <2>2. CASE HeaderPageFails(r)
    BY <1>1, <2>2, HeaderPageFailsStep
  <2>3. CASE \E f \in Fallbacks : Refresh(r, f)
    BY <1>1, <2>3, RefreshStep
  <2>4. CASE LinePage(r)
    BY <1>1, <2>4, LinePageStep
  <2>5. CASE LinePageFails(r)
    BY <1>1, <2>5, LinePageFailsStep
  <2>6. CASE OrderPage(r)
    BY <1>1, <2>6, OrderPageStep
  <2>7. CASE OrderPageFails(r)
    BY <1>1, <2>7, OrderPageFailsStep
  <2>8. CASE ItemPage(r)
    BY <1>1, <2>8, ItemPageStep
  <2>9. CASE ItemPageFails(r)
    BY <1>1, <2>9, ItemPageFailsStep
  <2>10. CASE Reversals(r)
    BY <1>1, <2>10, ReversalsStep
  <2>11. CASE LineInsertFails(r)
    BY <1>1, <2>11, LineInsertFailsStep
  <2>12. CASE RunFails(r)
    BY <1>1, <2>12, RunFailsStep
  <2>13. QED
    BY <1>4, <2>1, <2>2, <2>3, <2>4, <2>5, <2>6, <2>7, <2>8, <2>9, <2>10, <2>11, <2>12 DEF Progress
<1>5. CASE Clean
  BY <1>1, <1>5, CleanStep
<1>6. CASE Crash
  BY <1>1, <1>6, CrashStep
<1>7. CASE LegacyGrows
  BY <1>1, <1>7, LegacyGrowsStep
<1>8. CASE LegacyFails
  <2>1. PoolsTyped'
    BY <1>1, <1>2, <1>8, TroubleTyped DEF LegacyFails, TypeOK, PoolsTyped, pools
  <2>2. QED BY <1>1, <1>8, <2>1, NothingHappens DEF LegacyFails
<1>9. CASE LegacyRecovers
  <2>1. PoolsTyped'
    BY <1>1, <1>9, PoolsKept DEF LegacyRecovers
  <2>2. QED BY <1>1, <1>9, <2>1, NothingHappens DEF LegacyRecovers, bounds
<1>10. CASE UNCHANGED vars
  <2>1. PoolsTyped' /\ up' \in BOOLEAN
    BY <1>1, <1>2, <1>10, PoolsKept DEF vars, TypeOK
  <2>2. QED BY <1>1, <1>10, <2>1, NothingHappens DEF vars, bounds
<1>11. CASE PoolClosed
  BY <1>1, <1>11, PoolClosedStep
<1>12. QED BY <1>1, <1>3, <1>4, <1>5, <1>6, <1>7, <1>8, <1>9, <1>10, <1>11 DEF Next

LEMMA InvariantHolds == Spec => []IInv
BY InitIInv, NextIInv, PTL DEF Spec

\* Type correctness of the stock migration (startStockMigrationBackground).
THEOREM TypesHold == Spec => []TypeOK
<1>1. IInv => TypeOK
  BY DEF IInv
<1>2. QED BY <1>1, InvariantHolds, PTL

\* A QRCode row is attached to its own header's batch, or the header was missed:
\* for any number of runs, rows and failures.
THEOREM CodesHold == Spec => []CodesFollowHeaders
<1>1. IInv => CodesFollowHeaders
  BY DEF IInv
<1>2. QED BY <1>1, InvariantHolds, PTL

\* No table has more copies of a legacy row than runs were started, but for the
\* lines whose insert raised an error: one more for each such error.
THEOREM CopiesHold == Spec => []CopiesBounded
<1>1. ASSUME IInv PROVE CopiesBounded
  <2>1. TypeOK /\ Budget
    BY <1>1 DEF IInv
  <2>2. SUFFICES ASSUME NEW n \in Rows
                 PROVE  /\ Copies(n) <= starts + again[n] /\ orders[n] <= starts
                        /\ items[n] <= starts /\ returns[n] <= starts
    BY DEF CopiesBounded
  <2>3. /\ Copies(n) + Cardinality(LinesDue(n)) <= starts + again[n]
        /\ orders[n] + Cardinality(OrdersDue) <= starts
        /\ items[n] + Cardinality(ItemsDue) <= starts
        /\ returns[n] + Cardinality(ReturnsDue) <= starts
    BY <2>1 DEF Budget
  <2>4. /\ LinesDue(n) \in SUBSET Runs /\ OrdersDue \in SUBSET Runs
        /\ ItemsDue \in SUBSET Runs /\ ReturnsDue \in SUBSET Runs
    BY DEF LinesDue, OrdersDue, ItemsDue, ReturnsDue
  <2>5. \A S \in SUBSET Runs : Cardinality(S) \in Nat
    BY LegacyStockAssumption, FS_Subset, FS_CardinalityType
  <2>6. /\ Cardinality(LinesDue(n)) \in Nat /\ Cardinality(OrdersDue) \in Nat
        /\ Cardinality(ItemsDue) \in Nat /\ Cardinality(ReturnsDue) \in Nat
    BY <2>4, <2>5
  <2>7. /\ Copies(n) \in Nat /\ orders[n] \in Nat /\ items[n] \in Nat /\ returns[n] \in Nat
        /\ starts \in Nat /\ again[n] \in Nat
    BY <2>1, Numbers, CopiesNat
  <2>8. QED BY <2>3, <2>6, <2>7
<1>2. QED BY <1>1, InvariantHolds, PTL

\* A run that was always answered, and had a batch to attach to, has copied
\* everything there was at its start by the time it is logged as SUCCESS.
THEOREM CompleteHolds == Spec => CompleteWhenClear
<1> DEFINE Complete ==
       \A r \in Runs :
          run[r].pc = "reversals" /\ run'[r].pc = "idle"
              /\ run[r].clear /\ run[r].fallback # NoBatch
          => \A n \in 1..run[r].from : Copies(n) > 0 /\ orders[n] > 0 /\ items[n] > 0
<1>1. IInv /\ [Next]_vars => [Complete]_vars
  BY DEF IInv, Copied
<1>2. QED BY <1>1, InvariantHolds, PTL DEF Spec, CompleteWhenClear
=============================================================================
