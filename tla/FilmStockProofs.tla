-------------------------- MODULE FilmStockProofs --------------------------
(***************************************************************************)
(* For any number of requests, batches and quantities: what overlapping    *)
(* requests leave of the stock and of the work orders is what the runs of  *)
(* FilmStock check on two requests and three batches.                      *)
(***************************************************************************)
EXTENDS FilmStock, SumLemmas

\* What the work order of row r has put out.
Made(r) == Total(OutputsOf(r))

\* What every row is, whoever has written it: a row that is not there is empty,
\* a batch that was taken from another knows it, only received batches have work
\* orders and only batches in transit dispatch orders.
Shape(r) ==
    /\ batch[r].kind = "none" => batch[r].quantity = 0 /\ batch[r].dispatch = "none"
    /\ batch[r].kind \in {"output", "transit"} => batch[r].parent \in Rows /\ Exists(batch[r].parent)
    /\ batch[r].dispatch # "none" => batch[r].kind = "transit"
    /\ order[r].status # "none" => batch[r].kind = "inward"
    /\ order[r].status = "none" => order[r].outputQuantity = 0
    /\ order[r].status = "OPEN" => books[r].consumed = 0
    /\ Kept(r) => books[r].moved = 0
    /\ order[r].status # "none" => order[r].outputQuantity = Made(r)

\* What a request is about to take from row r.
Draw(k, r) == IF k.op = "output" /\ k.row = r THEN k.amount ELSE 0
Draws(r) == [c \in Calls |-> Draw(call[c], r)]
Pending(r) == SumFunctionOnSet(Draws(r), Calls)

\* What was looked at is what there is, whatever will be taken of it.
Floor == (1 - Cardinality(Calls)) * Max(Quantities)
Room(r) == batch[r].kind # "transit" /\ Kept(r) => batch[r].quantity - Pending(r) >= Floor

\* Requests that have written the row and have yet to write its work order.
Syncs(r) == {c \in Calls : call[c].row = r /\ call[c].step = "sync"}

\* What holds of a row unless requests crossed: the equations of the books, and
\* that all that is pending together takes no more from it than was looked at.
Sound(r) ==
    /\ batch[r].quantity = books[r].given - books[r].consumed - books[r].moved - books[r].wasted
    /\ order[r].status # "CLOSED" => books[r].wasted = 0
    /\ order[r].status = "CLOSED" => Max({order[r].wastageQuantity, 0}) = books[r].wasted
    /\ order[r].status = "OPEN" /\ Kept(r) =>
          /\ Syncs(r) = {} => order[r].inputQuantity = books[r].given
          /\ \A c \in Syncs(r) : call[c].amount = books[r].given
    /\ \A c, d \in Syncs(r) : c = d
    /\ Room(r)

\* What a request knows.  Unless it is outdated the row is as it was read.
Informed(k) ==
    /\ k.op = "none" => k.row = NoRow /\ k.step = "read"
    /\ k.op # "none" => k.row \in Rows /\ Exists(k.row)
    /\ k.step = "holding" => k.op = "output"
    /\ k.step = "sync" => k.op = "update"
    /\ k.op = "output" => k.amount \in Quantities \cup {0}
    /\ k.op \in {"output", "finalize"} => order[k.row].status # "none"
    /\ k.op = "receive" => batch[k.row].kind = "transit"
    /\ k.op = "finalize" /\ ~k.outdated =>
          k.read = batch[k.row].quantity /\ order[k.row].status # "CLOSED"
    /\ k.op = "update" /\ k.step = "read" /\ k.amount = 0 /\ ~k.outdated =>
          k.read = batch[k.row].quantity

IInv ==
    /\ TypeOK
    /\ \A r \in Rows : Shape(r)
    /\ \A r \in Rows \ crossed : Sound(r)
    /\ \A c \in Calls : Informed(call[c])

-----------------------------------------------------------------------------
\* The numbers: there are requests, and a largest quantity.
LEMMA Limits ==
    /\ Cardinality(Calls) \in Nat \ {0} /\ Max(Quantities) \in Nat
    /\ \A n \in Quantities \cup {0} : n \in Nat /\ n <= Max(Quantities)
    /\ Floor \in Int /\ Floor <= 0
<1>1. Cardinality(Calls) \in Nat /\ Cardinality(Calls) # 0
  BY FilmStockAssumption, FS_CardinalityType, FS_EmptySet
<1>2. \E x \in Quantities : \A y \in Quantities : x >= y
  <2>1. IsFiniteSet(Quantities) /\ Quantities # {} /\ \A x \in Quantities : x \in Int
    BY FilmStockAssumption
  <2>2. QED BY <2>1, LargestExists
<1>3. Max(Quantities) \in Quantities /\ \A y \in Quantities : Max(Quantities) >= y
  BY <1>2 DEF Max
<1>4. Max(Quantities) \in Nat
  BY <1>3, FilmStockAssumption
<1> DEFINE m == Max(Quantities)
           n == Cardinality(Calls) - 1
<1>5. \A i \in Quantities \cup {0} : i \in Nat /\ i <= m
  BY <1>3, <1>4, FilmStockAssumption
<1>6. n \in Nat /\ m \in Nat /\ 1 - Cardinality(Calls) = -n
  BY <1>1, <1>4
<1> HIDE DEF n, m
<1>7. n * m \in Nat /\ (-n) * m = -(n * m)
  BY <1>6
<1>8. (-n) * m \in Int /\ (-n) * m <= 0
  BY <1>7
<1>9. Floor \in Int /\ Floor <= 0
  BY <1>6, <1>8 DEF Floor, m
<1>10. QED BY <1>1, <1>4, <1>5, <1>9 DEF m

LEMMA MaxZero == \A w \in Int : Max({w, 0}) = IF w >= 0 THEN w ELSE 0
<1> SUFFICES ASSUME NEW w \in Int PROVE Max({w, 0}) = IF w >= 0 THEN w ELSE 0
  OBVIOUS
<1> DEFINE m == IF w >= 0 THEN w ELSE 0
<1>1. m \in {w, 0} /\ \A y \in {w, 0} : m >= y
  OBVIOUS
<1>2. \A x \in {w, 0} : (\A y \in {w, 0} : x >= y) => x = m
  OBVIOUS
<1> HIDE DEF m
<1>3. QED BY <1>1, <1>2 DEF Max, m

\* A new batch gets a row that was not there.
LEMMA FreshIsFree ==
    ASSUME Free # {}
    PROVE  Fresh \in Rows /\ ~Exists(Fresh)
<1>1. Free \subseteq Nat
  BY FilmStockAssumption DEF Free, Rows
<1>2. \E n \in Free : \A m \in Free : n <= m
  BY <1>1, LeastExists
<1>3. Fresh \in Free
  BY <1>2 DEF Fresh, Min
<1>4. QED BY <1>3 DEF Free

LEMMA RowsFinite == IsFiniteSet(Rows) /\ NoRow \notin Rows
BY FilmStockAssumption, FS_Interval DEF Rows, NoRow

-----------------------------------------------------------------------------
\* What is pending on a row is a number, changes with each request by as much as
\* that wants to draw, and is at most what all requests can draw.
LEMMA DrawInt ==
    ASSUME NEW k \in CallStates, NEW r
    PROVE  Draw(k, r) \in Nat
BY DEF Draw, CallStates

LEMMA PendingInt ==
    ASSUME TypeOK, NEW r
    PROVE  Pending(r) \in Nat
<1> DEFINE f == Draws(r)
<1>1. \A c \in Calls : f[c] \in Nat
  BY DrawInt DEF TypeOK, Draws
<1>2. IsFiniteSet(Calls) /\ Calls \in SUBSET Calls
  BY FilmStockAssumption
<1> HIDE DEF f
<1>3. SumFunctionOnSet(f, Calls) \in Nat
  BY <1>1, <1>2, SumNat
<1>4. QED BY <1>3 DEF Pending, f

LEMMA PendingChange ==
    ASSUME TypeOK, TypeOK', NEW r, NEW c \in Calls,
           \A d \in Calls \ {c} : Draw(call[d], r)' = Draw(call[d], r)
    PROVE  Pending(r)' = Pending(r) + (Draw(call[c], r)' - Draw(call[c], r))
<1> DEFINE f == Draws(r)
           g == Draws(r)'
<1>1. \A d \in Calls : /\ f[d] = Draw(call[d], r) /\ g[d] = Draw(call[d], r)'
                      /\ f[d] \in Int /\ g[d] \in Int
  <2>1. SUFFICES ASSUME NEW d \in Calls
                 PROVE  /\ f[d] = Draw(call[d], r) /\ g[d] = Draw(call[d], r)'
                        /\ f[d] \in Int /\ g[d] \in Int
    OBVIOUS
  <2>2. call[d] \in CallStates /\ call'[d] \in CallStates
    BY DEF TypeOK
  <2>3. Draw(call[d], r) \in Nat /\ Draw(call'[d], r) \in Nat
    BY <2>2, DrawInt
  <2>4. f[d] = Draw(call[d], r) /\ g[d] = Draw(call[d], r)'
    BY DEF Draws
  <2>5. Draw(call[d], r)' = Draw(call'[d], r)
    BY DEF Draw
  <2>6. QED BY <2>3, <2>4, <2>5
<1>2. \A d \in Calls \ {c} : g[d] = f[d]
  BY <1>1
<1>3. IsFiniteSet(Calls)
  BY FilmStockAssumption
<1> HIDE DEF f, g
<1>4. SumFunctionOnSet(g, Calls) = SumFunctionOnSet(f, Calls) + (g[c] - f[c])
  <2>1. \A d \in Calls : f[d] \in Int /\ g[d] \in Int
    BY <1>1
  <2>2. QED BY <1>2, <1>3, <2>1, SumChange
<1>5. QED BY <1>1, <1>4 DEF Pending, f, g

LEMMA PendingSame ==
    ASSUME NEW r, \A d \in Calls : Draw(call[d], r)' = Draw(call[d], r)
    PROVE  Pending(r)' = Pending(r)
<1> DEFINE f == Draws(r)
           g == Draws(r)'
<1>1. \A d \in Calls : f[d] = Draw(call[d], r) /\ g[d] = Draw(call[d], r)'
  BY DEF Draws
<1>2. IsFiniteSet(Calls) /\ Calls \in SUBSET Calls
  BY FilmStockAssumption
<1> HIDE DEF f, g
<1>3. SumFunctionOnSet(f, Calls) = SumFunctionOnSet(g, Calls)
  <2>1. \A d \in Calls : f[d] = g[d]
    BY <1>1
  <2>2. QED BY <1>2, <2>1, SumSame
<1>4. QED BY <1>3 DEF Pending, f, g

\* If one of the requests draws nothing, the others draw at most what Floor allows.
LEMMA PendingBound ==
    ASSUME TypeOK, \A d \in Calls : Informed(call[d]), NEW r, NEW c \in Calls,
           Draw(call[c], r) = 0
    PROVE  -Pending(r) >= Floor
<1> DEFINE f == Draws(r)
           m == Max(Quantities)
           rest == Calls \ {c}
           n == Cardinality(rest)
<1>1. \A d \in Calls : f[d] \in Int /\ f[d] <= m /\ f[d] \in Nat
  <2>1. SUFFICES ASSUME NEW d \in Calls PROVE f[d] \in Nat /\ f[d] <= m
    OBVIOUS
  <2>2. f[d] = Draw(call[d], r) /\ Informed(call[d]) /\ call[d] \in CallStates
    BY DEF Draws, TypeOK
  <2>3. Draw(call[d], r) \in Quantities \cup {0}
    BY <2>2 DEF Draw, Informed
  <2>4. QED BY <2>2, <2>3, Limits
<1>2. f[c] = 0
  BY DEF Draws
<1>3. IsFiniteSet(Calls) /\ IsFiniteSet(rest) /\ n = Cardinality(Calls) - 1
  BY FilmStockAssumption, FS_RemoveElement
<1>4. m \in Nat /\ n \in Nat
  BY <1>3, Limits, FS_CardinalityType
<1> HIDE DEF f
<1>5. SumFunctionOnSet(f, Calls) = f[c] + SumFunctionOnSet(f, rest)
  <2>1. Calls \in SUBSET Calls
    OBVIOUS
  <2>2. QED BY <1>1, <1>3, <2>1, SumRemove
<1>6. SumFunctionOnSet(f, rest) <= n * m /\ SumFunctionOnSet(f, rest) \in Int
  <2>1. rest \in SUBSET Calls
    OBVIOUS
  <2> HIDE DEF rest, m
  <2>2. SumFunctionOnSet(f, rest) <= n * m
    BY <1>1, <1>3, <1>4, <2>1, SumBounded
  <2>3. SumFunctionOnSet(f, rest) \in Int
    BY <1>1, <1>3, <2>1, SumInt
  <2>4. QED BY <2>2, <2>3
<1>7. Floor = -(n * m) /\ n * m \in Nat
  <2>1. 1 - Cardinality(Calls) = -n
    BY <1>3, Limits
  <2> HIDE DEF m, n
  <2>2. (-n) * m = -(n * m) /\ n * m \in Nat
    BY <1>4
  <2>3. QED BY <2>1, <2>2 DEF Floor, m
<1> DEFINE a == SumFunctionOnSet(f, rest)
           p == n * m
<1>8. Pending(r) = a /\ a <= p /\ a \in Int /\ Floor = -p /\ p \in Nat
  BY <1>2, <1>5, <1>6, <1>7 DEF Pending, f
<1> HIDE DEF a, p
<1>9. QED BY <1>8

-----------------------------------------------------------------------------
\* What a step leaves alone stays as it was.  First, a row that is not written.
LEMMA ShapeKept ==
    ASSUME IInv, NEW s \in Rows,
           batch'[s] = batch[s], order'[s] = order[s], books'[s] = books[s],
           Kept(s)' => Kept(s), Made(s)' = Made(s),
           \A t \in Rows : Exists(t) => batch'[t].kind # "none"
    PROVE  Shape(s)'
BY DEF IInv, Shape, Exists

LEMMA SoundKept ==
    ASSUME IInv, NEW s \in Rows \ crossed,
           batch'[s] = batch[s], order'[s] = order[s], books'[s] = books[s],
           Kept(s)' => Kept(s), Room(s)', Syncs(s)' = Syncs(s),
           \A c \in Syncs(s) : call'[c].amount = call[c].amount
    PROVE  Sound(s)'
BY DEF IInv, Sound

LEMMA RoomKept ==
    ASSUME TypeOK, TypeOK', NEW s \in Rows, Room(s),
           batch'[s] = batch[s], Kept(s)' => Kept(s), Pending(s)' <= Pending(s)
    PROVE  Room(s)'
<1>1. SUFFICES ASSUME batch'[s].kind # "transit", Kept(s)'
               PROVE  batch'[s].quantity - Pending(s)' >= Floor
  BY DEF Room, Floor
<1>2. batch[s].quantity - Pending(s) >= Floor
  BY <1>1 DEF Room
<1>3. Pending(s) \in Nat /\ Pending(s)' \in Nat
  <2>1. Pending(s) \in Nat
    BY PendingInt
  <2>2. Pending(s)' \in Nat
    <3>1. \A c \in Calls : Draws(s)'[c] \in Nat
      <4>1. SUFFICES ASSUME NEW c \in Calls PROVE Draws(s)'[c] \in Nat
        OBVIOUS
      <4>2. call'[c] \in CallStates
        BY DEF TypeOK
      <4>3. Draw(call'[c], s) \in Nat
        BY <4>2, DrawInt
      <4>4. Draws(s)'[c] = Draw(call'[c], s)
        BY DEF Draws, Draw
      <4>5. QED BY <4>3, <4>4
    <3> DEFINE f == Draws(s)'
    <3>2. IsFiniteSet(Calls) /\ Calls \in SUBSET Calls /\ \A c \in Calls : f[c] \in Nat
      BY <3>1, FilmStockAssumption
    <3> HIDE DEF f
    <3>3. SumFunctionOnSet(f, Calls) \in Nat
      BY <3>2, SumNat
    <3>4. QED BY <3>3 DEF Pending, f
  <2>3. QED BY <2>1, <2>2
<1>4. batch[s].quantity \in Int /\ Floor \in Int
  BY Limits DEF TypeOK, BatchStates
<1>5. QED BY <1>2, <1>3, <1>4

\* Then, a request that is not the one that moves: if it was to write over row r,
\* which changes, it is outdated.
LEMMA InformedKept ==
    ASSUME IInv, NEW d \in Calls, NEW r,
           call'[d].op = call[d].op, call'[d].row = call[d].row, call'[d].read = call[d].read,
           call'[d].amount = call[d].amount, call'[d].step = call[d].step,
           call[d].outdated => call'[d].outdated,
           call[d].row = r /\ call[d].op \notin {"none", "output"} /\ call[d].step = "read"
               => call'[d].outdated,
           \A s \in Rows : Exists(s) => batch'[s].kind = batch[s].kind,
           \A s \in Rows : order[s].status # "none" => order'[s].status # "none",
           \A s \in Rows \ {r} : Exists(s) => /\ batch'[s].quantity = batch[s].quantity
                                             /\ order'[s].status = order[s].status
    PROVE  Informed(call[d])'
<1> DEFINE s == call[d].row
<1>1. Informed(call[d]) /\ call[d] \in CallStates
  BY DEF IInv, TypeOK
<1>2. CASE call[d].op = "none"
  BY <1>1, <1>2 DEF Informed
<1>3. CASE call[d].op # "none"
  <2>1. s \in Rows /\ Exists(s)
    BY <1>1, <1>3 DEF Informed
  <2>2. batch'[s].kind = batch[s].kind /\ Exists(s)'
    BY <2>1 DEF Exists
  <2>3. call[d].step \in {"read", "holding", "sync"}
    BY <1>1 DEF CallStates
  <2>4. s # r => batch'[s].quantity = batch[s].quantity /\ order'[s].status = order[s].status
    BY <2>1
  <2>5. order[s].status # "none" => order'[s].status # "none"
    BY <2>1
  <2> HIDE DEF s
  <2>6. QED BY <1>1, <1>3, <2>1, <2>2, <2>3, <2>4, <2>5 DEF Informed, s
<1>4. QED BY <1>2, <1>3

\* The rows that were made from others, while no row changes what it is.
LEMMA SameTree ==
    ASSUME \A s \in Rows : /\ batch'[s].kind = batch[s].kind
                          /\ batch'[s].parent = batch[s].parent
                          /\ batch'[s].packed = batch[s].packed
    PROVE  \A r \in Rows : (Kept(r)' <=> Kept(r)) /\ Made(r)' = Made(r)
<1> SUFFICES ASSUME NEW r \in Rows PROVE (Kept(r)' <=> Kept(r)) /\ Made(r)' = Made(r)
  OBVIOUS
<1>1. Kept(r)' <=> Kept(r)
  BY DEF Kept
<1>2. OutputsOf(r)' = OutputsOf(r)
  BY DEF OutputsOf
<1>3. [s \in Rows |-> batch[s].packed]' = [s \in Rows |-> batch[s].packed]
  OBVIOUS
<1>4. Made(r)' = Made(r)
  BY <1>2, <1>3 DEF Made, Total
<1>5. QED BY <1>1, <1>4

\* One more row: the batch it was taken from has one more output, or has not been
\* kept.
LEMMA NewRow ==
    ASSUME IInv, NEW f \in Rows, ~Exists(f), batch'[f].packed \in Nat,
           \A s \in Rows \ {f} : /\ batch'[s].kind = batch[s].kind
                                /\ batch'[s].parent = batch[s].parent
                                /\ batch'[s].packed = batch[s].packed
    PROVE  \A r \in Rows :
              /\ Kept(r)' <=> Kept(r) /\ ~(batch'[f].kind = "transit" /\ batch'[f].parent = r)
              /\ Made(r)' = IF batch'[f].kind = "output" /\ batch'[f].parent = r
                            THEN Made(r) + batch'[f].packed ELSE Made(r)
<1> SUFFICES ASSUME NEW r \in Rows
             PROVE  /\ Kept(r)' <=> Kept(r) /\ ~(batch'[f].kind = "transit" /\ batch'[f].parent = r)
                    /\ Made(r)' = IF batch'[f].kind = "output" /\ batch'[f].parent = r
                                  THEN Made(r) + batch'[f].packed ELSE Made(r)
  OBVIOUS
<1>1. Kept(r)' <=> Kept(r) /\ ~(batch'[f].kind = "transit" /\ batch'[f].parent = r)
  BY DEF Kept, Exists
<1> DEFINE S == OutputsOf(r)
           T == OutputsOf(r)'
           g == [s \in Rows |-> batch[s].packed]
           h == [s \in Rows |-> batch[s].packed]'
<1>2. S \subseteq Rows /\ f \notin S /\ IsFiniteSet(S)
  <2>1. S \subseteq Rows /\ f \notin S
    BY DEF OutputsOf, Exists
  <2>2. QED BY <2>1, RowsFinite, FS_Subset
<1>3. Made(r) = SumFunctionOnSet(g, S) /\ Made(r)' = SumFunctionOnSet(h, T)
  BY DEF Made, Total
<1>4. \A s \in S : h[s] = g[s]
  BY <1>2
<1>5. \A s \in S \cup {f} : h[s] \in Int
  BY <1>2, <1>4 DEF IInv, TypeOK, BatchStates
<1>6. h[f] = batch'[f].packed
  OBVIOUS
<1>7. T = IF batch'[f].kind = "output" /\ batch'[f].parent = r THEN S \cup {f} ELSE S
  BY DEF OutputsOf, Exists
<1> HIDE DEF S, T, g, h
<1>8. SumFunctionOnSet(h, S) = SumFunctionOnSet(g, S)
  <2>1. S \in SUBSET S
    OBVIOUS
  <2>2. QED BY <1>2, <1>4, <2>1, SumSame
<1>9. SumFunctionOnSet(h, S \cup {f}) = SumFunctionOnSet(h, S) + h[f]
  BY <1>2, <1>5, SumAdd
<1>10. QED BY <1>1, <1>3, <1>6, <1>7, <1>8, <1>9

-----------------------------------------------------------------------------
\* A request that does not move, of which those about to write row r are outdated.
Notified(x, k, r) ==
    /\ x.op = k.op /\ x.row = k.row /\ x.read = k.read /\ x.amount = k.amount /\ x.step = k.step
    /\ k.outdated => x.outdated
    /\ k.row = r /\ k.op \notin {"none", "output"} /\ k.step = "read" => x.outdated

LEMMA OutdateAllIs ==
    ASSUME TypeOK, NEW r
    PROVE  /\ OutdateAll(r) \in [Calls -> CallStates]
           /\ \A d \in Calls : Notified(OutdateAll(r)[d], call[d], r)
<1> SUFFICES ASSUME NEW d \in Calls
             PROVE  /\ OutdateAll(r)[d] \in CallStates
                    /\ Notified(OutdateAll(r)[d], call[d], r)
  BY DEF OutdateAll
<1> DEFINE k == call[d]
           x == [k EXCEPT !.outdated = TRUE]
<1>1. k \in CallStates
  BY DEF TypeOK
<1>2. OutdateAll(r)[d] = IF k.row = r /\ k.op # "output" /\ k.step = "read" THEN x ELSE k
  BY DEF OutdateAll
<1> HIDE DEF k
<1>3. /\ x \in CallStates /\ x.op = k.op /\ x.row = k.row /\ x.read = k.read
      /\ x.amount = k.amount /\ x.step = k.step /\ x.outdated = TRUE
  BY <1>1 DEF CallStates
<1> HIDE DEF x
<1>4. QED BY <1>1, <1>2, <1>3 DEF Notified, k

LEMMA NoCallIs == NoCall \in CallStates /\ \A r \in Rows : Draw(NoCall, r) = 0
BY DEF NoCall, CallStates, Draw

LEMMA OutdateIs ==
    ASSUME TypeOK, NEW r, NEW c \in Calls
    PROVE  /\ Outdate(c, r) \in [Calls -> CallStates] /\ Outdate(c, r)[c] = NoCall
           /\ \A d \in Calls \ {c} : Notified(Outdate(c, r)[d], call[d], r)
<1>1. /\ OutdateAll(r) \in [Calls -> CallStates]
      /\ \A d \in Calls : Notified(OutdateAll(r)[d], call[d], r)
  BY OutdateAllIs
<1>2. Outdate(c, r) = [OutdateAll(r) EXCEPT ![c] = NoCall]
  BY DEF Outdate
<1>3. \A d \in Calls \ {c} : Outdate(c, r)[d] = OutdateAll(r)[d]
  BY <1>1, <1>2
<1>4. Outdate(c, r) \in [Calls -> CallStates] /\ Outdate(c, r)[c] = NoCall
  BY <1>1, <1>2, NoCallIs
<1>5. QED BY <1>1, <1>3, <1>4

\* A step of request c that writes the rows W: they must come out right, and the
\* rest follows.
LEMMA Written ==
    ASSUME IInv, TypeOK', NEW c \in Calls, NEW r, NEW W \in SUBSET Rows, crossed \subseteq crossed',
           \A d \in Calls \ {c} : Notified(call'[d], call[d], r),
           Informed(call[c])',
           call[c].step = "sync" => call[c].row \in W \cup crossed',
           call'[c].step = "sync" => call'[c].row \in W,
           \A s \in Rows \ W : Draw(call'[c], s) <= Draw(call[c], s),
           \A s \in Rows : Exists(s) => batch'[s].kind = batch[s].kind,
           \A s \in Rows : order[s].status # "none" => order'[s].status # "none",
           \A s \in Rows \ {r} : Exists(s) => /\ batch'[s].quantity = batch[s].quantity
                                             /\ order'[s].status = order[s].status,
           \A s \in Rows \ W : /\ batch'[s] = batch[s] /\ order'[s] = order[s]
                               /\ books'[s] = books[s]
                               /\ Kept(s)' => Kept(s)
                               /\ Made(s)' = Made(s),
           \A s \in W : Shape(s)', \A s \in W \ crossed' : Sound(s)'
    PROVE  IInv'
<1>1. ASSUME NEW d \in Calls PROVE Informed(call[d])'
  <2>1. CASE d = c
    BY <2>1
  <2>2. CASE d # c
    <3>1. Notified(call'[d], call[d], r)
      BY <2>2
    <3>2. QED BY <3>1, InformedKept DEF Notified
  <2>3. QED BY <2>1, <2>2
<1>2. ASSUME NEW s \in Rows \ W PROVE Shape(s)'
  <2>1. \A t \in Rows : Exists(t) => batch'[t].kind # "none"
    BY DEF Exists
  <2>2. Kept(s)' => Kept(s)
    OBVIOUS
  <2>3. Made(s)' = Made(s)
    OBVIOUS
  <2>4. batch'[s] = batch[s] /\ order'[s] = order[s] /\ books'[s] = books[s] /\ s \in Rows
    OBVIOUS
  <2>5. QED BY <2>1, <2>2, <2>3, <2>4, ShapeKept
<1>3. ASSUME NEW s \in Rows \ W, s \notin crossed' PROVE Sound(s)'
  <2>1. s \in Rows \ crossed /\ Room(s)
    BY <1>3 DEF IInv, Sound
  <2>2. Kept(s)' => Kept(s)
    OBVIOUS
  <2>3. batch'[s] = batch[s] /\ order'[s] = order[s] /\ books'[s] = books[s]
    OBVIOUS
  <2>4. \A d \in Calls \ {c} : /\ call'[d].op = call[d].op /\ call'[d].row = call[d].row
                               /\ call'[d].amount = call[d].amount
                               /\ call'[d].step = call[d].step
    BY DEF Notified
  <2>5. c \notin Syncs(s) /\ c \notin Syncs(s)'
    BY <1>3 DEF Syncs
  <2>6. Syncs(s)' = Syncs(s) /\ \A d \in Syncs(s) : call'[d].amount = call[d].amount
    BY <2>4, <2>5 DEF Syncs
  <2>7. Room(s)'
    <3>1. \A d \in Calls \ {c} : Draw(call[d], s)' = Draw(call[d], s)
      BY <2>4 DEF Draw
    <3>2. TypeOK /\ s \in Rows
      BY DEF IInv
    <3>3. Pending(s)' = Pending(s) + (Draw(call[c], s)' - Draw(call[c], s))
      BY <3>1, <3>2, PendingChange
    <3>4. Draw(call[c], s)' = Draw(call'[c], s)
      BY DEF Draw
    <3>5. Draw(call'[c], s) <= Draw(call[c], s)
      OBVIOUS
    <3>6. Draw(call'[c], s) \in Nat /\ Draw(call[c], s) \in Nat /\ Pending(s) \in Nat
      <4>1. call'[c] \in CallStates /\ call[c] \in CallStates
        BY <3>2 DEF TypeOK
      <4>2. QED BY <3>2, <4>1, DrawInt, PendingInt
    <3>7. Pending(s)' <= Pending(s)
      BY <3>3, <3>4, <3>5, <3>6
    <3>8. QED BY <2>1, <2>2, <2>3, <3>2, <3>7, RoomKept
  <2>8. QED BY <2>1, <2>2, <2>3, <2>6, <2>7, SoundKept
<1>4. \A s \in Rows : Shape(s)'
  BY <1>2
<1>5. \A s \in Rows \ crossed' : Sound(s)'
  BY <1>3
<1>6. QED BY <1>1, <1>4, <1>5 DEF IInv

-----------------------------------------------------------------------------
\* A request reads, or ends, and writes no row.
LEMMA NothingWritten ==
    ASSUME IInv, NEW c \in Calls, NEW k \in CallStates, Informed(k),
           call' = [call EXCEPT ![c] = k], UNCHANGED <<batch, order, books>>,
           crossed \subseteq crossed', crossed' \subseteq Rows, edits' \in 0..MaxEdits,
           k.step # "sync", call[c].step = "sync" => call[c].row \in crossed',
           \A s \in Rows : Draw(k, s) <= Draw(call[c], s)
    PROVE  IInv'
<1>1. TypeOK /\ TypeOK'
  BY DEF IInv, TypeOK
<1>2. call'[c] = k /\ \A d \in Calls \ {c} : call'[d] = call[d]
  BY <1>1 DEF TypeOK
<1>3. \A d \in Calls \ {c} : Notified(call'[d], call[d], NoRow)
  <2>1. SUFFICES ASSUME NEW d \in Calls \ {c} PROVE Notified(call[d], call[d], NoRow)
    BY <1>2
  <2>2. call[d].op # "none" => call[d].row \in Rows
    BY DEF IInv, Informed
  <2>3. QED BY <2>2, RowsFinite DEF Notified
<1>4. Informed(call[c])'
  BY <1>2 DEF Informed, Exists
<1>5. ASSUME NEW s \in Rows PROVE (Kept(s)' => Kept(s)) /\ Made(s)' = Made(s)
  <2>1. \A t \in Rows : /\ batch'[t].kind = batch[t].kind
                       /\ batch'[t].parent = batch[t].parent
                       /\ batch'[t].packed = batch[t].packed
    OBVIOUS
  <2>2. (Kept(s)' <=> Kept(s)) /\ Made(s)' = Made(s)
    BY <2>1, SameTree
  <2>3. QED BY <2>2
<1> DEFINE W == {}
<1>6. W \in SUBSET Rows /\ \A s : s \notin W
  OBVIOUS
<1> HIDE DEF W
<1>7. QED BY <1>1, <1>2, <1>3, <1>4, <1>5, <1>6, Written

\* The calls of a request that is under way.
LEMMA UnderWay ==
    ASSUME IInv, NEW c \in Calls
    PROVE  /\ call[c] \in CallStates /\ Informed(call[c])
           /\ call[c].op # "none" => call[c].row \in Rows /\ Exists(call[c].row)
           /\ \A s \in Rows : Draw(call[c], s) \in Nat
BY DrawInt DEF IInv, TypeOK, Informed

LEMMA BeginStep ==
    ASSUME IInv, NEW c \in Calls, NEW k \in CallStates, Informed(k), k.op # "output",
           k.step = "read", call[c].op = "none", call' = [call EXCEPT ![c] = k],
           UNCHANGED <<batch, order, books, crossed>>, edits' \in 0..MaxEdits
    PROVE  IInv'
<1>1. call[c].step = "read" /\ \A s \in Rows : Draw(k, s) = 0 /\ Draw(call[c], s) \in Nat
  BY UnderWay DEF Informed, Draw
<1>2. crossed \subseteq crossed' /\ crossed' \subseteq Rows
  BY DEF IInv, TypeOK
<1>3. \A s \in Rows : Draw(k, s) <= Draw(call[c], s)
  BY <1>1
<1>4. QED BY <1>1, <1>2, <1>3, NothingWritten

LEMMA ReadForFinalizeStep ==
    ASSUME IInv, NEW c \in Calls, NEW r \in Rows, ReadForFinalize(c, r)
    PROVE  IInv'
<1> DEFINE k == [op |-> "finalize", row |-> r, read |-> batch[r].quantity, amount |-> 0,
                 step |-> "read", outdated |-> FALSE]
<1>1. /\ call[c].op = "none" /\ call' = [call EXCEPT ![c] = k]
      /\ UNCHANGED <<batch, order, books, crossed>> /\ edits' \in 0..MaxEdits
      /\ order[r].status \in {"OPEN", "IN_PROGRESS"}
  BY DEF ReadForFinalize, Begin, IInv, TypeOK
<1>2. k \in CallStates
  BY DEF CallStates, IInv, TypeOK, BatchStates
<1>3. Exists(r)
  BY <1>1 DEF IInv, Shape, Exists
<1>4. Informed(k)
  BY <1>1, <1>3 DEF Informed
<1>5. k.op # "output" /\ k.step = "read"
  OBVIOUS
<1> HIDE DEF k
<1>6. QED BY <1>1, <1>2, <1>4, <1>5, BeginStep

LEMMA ReadForUpdateStep ==
    ASSUME IInv, NEW c \in Calls, NEW r \in Rows, NEW n \in Quantities \cup {0},
           ReadForUpdate(c, r, n)
    PROVE  IInv'
<1> DEFINE k == [op |-> "update", row |-> r, amount |-> n,
                 read |-> IF n = 0 THEN batch[r].quantity ELSE 0,
                 step |-> "read", outdated |-> FALSE]
<1>1. /\ call[c].op = "none" /\ call' = [call EXCEPT ![c] = k] /\ Exists(r)
      /\ UNCHANGED <<batch, order, books, crossed>> /\ edits < MaxEdits /\ edits' = edits + 1
  BY DEF ReadForUpdate
<1>2. n \in Nat
  BY Limits
<1>3. k \in CallStates
  BY <1>2 DEF CallStates, IInv, TypeOK, BatchStates
<1>4. Informed(k)
  BY <1>1 DEF Informed
<1>5. k.op # "output" /\ k.step = "read"
  OBVIOUS
<1>6. edits' \in 0..MaxEdits
  BY <1>1, FilmStockAssumption DEF IInv, TypeOK
<1> HIDE DEF k
<1>7. QED BY <1>1, <1>3, <1>4, <1>5, <1>6, BeginStep

LEMMA ReadForReceiveStep ==
    ASSUME IInv, NEW c \in Calls, NEW r \in Rows, NEW n \in Quantities \cup {0},
           ReadForReceive(c, r, n)
    PROVE  IInv'
<1> DEFINE k == [op |-> "receive", row |-> r, read |-> 0, amount |-> n,
                 step |-> "read", outdated |-> FALSE]
<1>1. /\ call[c].op = "none" /\ call' = [call EXCEPT ![c] = k]
      /\ UNCHANGED <<batch, order, books, crossed>> /\ edits' \in 0..MaxEdits
      /\ batch[r].dispatch \in {"outward", "return"}
  BY DEF ReadForReceive, Begin, IInv, TypeOK
<1>2. n \in Nat
  BY Limits
<1>3. k \in CallStates
  BY <1>2 DEF CallStates
<1>4. batch[r].kind = "transit" /\ Exists(r)
  BY <1>1 DEF IInv, Shape, Exists
<1>5. Informed(k)
  BY <1>1, <1>4 DEF Informed
<1>6. k.op # "output" /\ k.step = "read"
  OBVIOUS
<1> HIDE DEF k
<1>7. QED BY <1>1, <1>3, <1>5, <1>6, BeginStep

LEMMA HoldSourceStep ==
    ASSUME IInv, NEW c \in Calls, HoldSource(c)
    PROVE  IInv'
<1> DEFINE q == call[c]
           k == [q EXCEPT !.step = "holding"]
<1>1. /\ q.op = "output" /\ q.step = "read" /\ call' = [call EXCEPT ![c] = k]
      /\ UNCHANGED <<batch, order, books, crossed, edits>>
  BY DEF HoldSource, At
<1>2. q \in CallStates /\ Informed(q) /\ \A s \in Rows : Draw(q, s) \in Nat
  BY UnderWay
<1> HIDE DEF q
<1>3. /\ k \in CallStates /\ k.op = q.op /\ k.row = q.row /\ k.amount = q.amount
      /\ k.step = "holding"
  BY <1>2 DEF CallStates
<1> HIDE DEF k
<1>4. Informed(k)
  BY <1>1, <1>2, <1>3 DEF Informed
<1>5. \A s \in Rows : Draw(k, s) <= Draw(q, s)
  BY <1>2, <1>3 DEF Draw
<1>6. crossed \subseteq crossed' /\ crossed' \subseteq Rows /\ edits' \in 0..MaxEdits
  BY <1>1 DEF IInv, TypeOK
<1>7. QED BY <1>1, <1>3, <1>4, <1>5, <1>6, NothingWritten DEF q

LEMMA LoseStep ==
    ASSUME IInv, NEW c \in Calls, Lose(c)
    PROVE  IInv'
<1>1. /\ call' = [call EXCEPT ![c] = NoCall] /\ UNCHANGED <<batch, order, books, edits>>
      /\ call[c].op # "none"
      /\ crossed' = IF call[c].step = "sync" THEN crossed \cup {call[c].row} ELSE crossed
  BY DEF Lose
<1>2. call[c].row \in Rows /\ \A s \in Rows : Draw(NoCall, s) = 0 /\ Draw(call[c], s) \in Nat
  BY <1>1, UnderWay, NoCallIs
<1>3. crossed \subseteq crossed' /\ crossed' \subseteq Rows /\ edits' \in 0..MaxEdits
  BY <1>1, <1>2 DEF IInv, TypeOK
<1>4. call[c].step = "sync" => call[c].row \in crossed'
  BY <1>1
<1>5. NoCall \in CallStates /\ Informed(NoCall) /\ NoCall.step # "sync"
  BY NoCallIs DEF NoCall, Informed
<1>6. \A s \in Rows : Draw(NoCall, s) <= Draw(call[c], s)
  BY <1>2
<1>7. QED BY <1>1, <1>3, <1>4, <1>5, <1>6, NothingWritten

-----------------------------------------------------------------------------
\* What is pending when one request moves.
LEMMA PendingMoves ==
    ASSUME TypeOK, TypeOK', NEW s \in Rows, NEW c \in Calls, NEW r,
           \A d \in Calls \ {c} : Notified(call'[d], call[d], r)
    PROVE  /\ Pending(s)' = Pending(s) + (Draw(call'[c], s) - Draw(call[c], s))
           /\ Pending(s) \in Nat /\ Draw(call'[c], s) \in Nat /\ Draw(call[c], s) \in Nat
<1>1. \A d \in Calls \ {c} : Draw(call[d], s)' = Draw(call[d], s)
  BY DEF Notified, Draw
<1>2. Pending(s)' = Pending(s) + (Draw(call[c], s)' - Draw(call[c], s))
  BY <1>1, PendingChange
<1>3. Draw(call[c], s)' = Draw(call'[c], s)
  BY DEF Draw
<1>4. call'[c] \in CallStates /\ call[c] \in CallStates
  BY DEF TypeOK
<1>5. QED BY <1>2, <1>3, <1>4, DrawInt, PendingInt

\* A row that holds no less than nothing when a request has written it that draws
\* nothing: the others have looked.
LEMMA RoomFilled ==
    ASSUME IInv, TypeOK', NEW s \in Rows, NEW c \in Calls, NEW r,
           \A d \in Calls \ {c} : Notified(call'[d], call[d], r),
           Draw(call[c], s) = 0, Draw(call'[c], s) = 0, batch'[s].quantity >= 0
    PROVE  Room(s)'
<1>1. TypeOK /\ \A d \in Calls : Informed(call[d])
  BY DEF IInv
<1>2. Pending(s)' = Pending(s) + (Draw(call'[c], s) - Draw(call[c], s)) /\ Pending(s) \in Nat
  BY <1>1, PendingMoves
<1>3. Pending(s)' = Pending(s)
  BY <1>2
<1>4. -Pending(s) >= Floor
  BY <1>1, PendingBound
<1>5. batch'[s].quantity \in Int
  BY DEF TypeOK, BatchStates
<1>6. batch'[s].quantity - Pending(s)' >= Floor
  BY <1>2, <1>3, <1>4, <1>5, Limits
<1>7. QED BY <1>6 DEF Room, Floor

\* A request that neither has nor gets the second half of an edit to do.
LEMMA SyncsKept ==
    ASSUME NEW s \in Rows, NEW c \in Calls, NEW r,
           \A d \in Calls \ {c} : Notified(call'[d], call[d], r),
           c \notin Syncs(s), c \notin Syncs(s)'
    PROVE  Syncs(s)' = Syncs(s) /\ \A d \in Syncs(s) : call'[d].amount = call[d].amount
BY DEF Syncs, Notified

\* Nobody deals with a row that is not there, and nothing came of it.
LEMMA NobodyOn ==
    ASSUME IInv, NEW f \in Rows, ~Exists(f)
    PROVE  /\ \A d \in Calls : call[d].row # f
           /\ Syncs(f) = {} /\ \A d \in Calls : Draw(call[d], f) = 0
           /\ Made(f) = 0 /\ order[f].status = "none" /\ order[f].outputQuantity = 0
           /\ batch[f].kind = "none" /\ batch[f].dispatch = "none"
<1>1. \A d \in Calls : call[d].row # f
  <2>1. SUFFICES ASSUME NEW d \in Calls PROVE call[d].row # f
    OBVIOUS
  <2>2. Informed(call[d])
    BY DEF IInv
  <2>3. QED BY <2>2, RowsFinite DEF Informed
<1>2. Shape(f) /\ batch[f].kind = "none"
  BY DEF IInv, Exists
<1>3. OutputsOf(f) = {}
  BY DEF IInv, Shape, OutputsOf
<1>4. Made(f) = 0
  BY <1>3, SumEmpty DEF Made, Total
<1>5. QED BY <1>1, <1>2, <1>4 DEF Shape, Syncs, Draw

-----------------------------------------------------------------------------
\* A request that is to record outputs looks at what the source holds: with all
\* the others it takes at most what Floor allows.
LEMMA ReadForOutputStep ==
    ASSUME IInv, NEW c \in Calls, NEW r \in Rows, NEW n \in Quantities \cup {0},
           ReadForOutput(c, r, n)
    PROVE  IInv'
<1> DEFINE k == [op |-> "output", row |-> r, read |-> order[r].outputQuantity, amount |-> n,
                 step |-> "read", outdated |-> FALSE]
<1>1. /\ call[c].op = "none" /\ call' = [call EXCEPT ![c] = k]
      /\ UNCHANGED <<batch, order, books, crossed, edits>>
      /\ order[r].status \in {"OPEN", "IN_PROGRESS"} /\ batch[r].quantity >= n
  BY DEF ReadForOutput, Begin
<1>2. n \in Nat
  BY Limits
<1>3. k \in CallStates
  BY <1>2 DEF CallStates, IInv, TypeOK, OrderStates
<1>4. Exists(r)
  BY <1>1 DEF IInv, Shape, Exists
<1>5. /\ k.op = "output" /\ k.row = r /\ k.amount = n /\ k.step = "read"
      /\ Informed(k)
  BY <1>1, <1>4 DEF Informed
<1> HIDE DEF k
<1>6. TypeOK /\ TypeOK'
  BY <1>1, <1>3 DEF IInv, TypeOK
<1>7. call'[c] = k /\ \A d \in Calls \ {c} : call'[d] = call[d]
  BY <1>1, <1>6 DEF TypeOK
<1>8. \A d \in Calls \ {c} : Notified(call'[d], call[d], NoRow)
  <2>1. SUFFICES ASSUME NEW d \in Calls \ {c} PROVE Notified(call[d], call[d], NoRow)
    BY <1>7
  <2>2. call[d].op # "none" => call[d].row \in Rows
    BY DEF IInv, Informed
  <2>3. QED BY <2>2, RowsFinite DEF Notified
<1>9. /\ Informed(call[c])' /\ crossed \subseteq crossed' /\ call[c].step = "read"
      /\ call'[c].step = "read"
  <2>1. Informed(call[c])
    BY DEF IInv
  <2>2. QED BY <1>1, <1>5, <1>7, <2>1 DEF Informed, Exists
<1>10. ASSUME NEW s \in Rows PROVE (Kept(s)' => Kept(s)) /\ Made(s)' = Made(s)
  <2>1. \A t \in Rows : /\ batch'[t].kind = batch[t].kind
                       /\ batch'[t].parent = batch[t].parent
                       /\ batch'[t].packed = batch[t].packed
    BY <1>1
  <2>2. (Kept(s)' <=> Kept(s)) /\ Made(s)' = Made(s)
    BY <2>1, SameTree
  <2>3. QED BY <2>2
<1>11. Draw(k, r) = n /\ \A s \in Rows : Draw(call[c], s) = 0 /\ (s # r => Draw(k, s) = 0)
  BY <1>1, <1>5 DEF Draw
<1>12. Shape(r)'
  <2>1. \A t \in Rows : Exists(t) => batch'[t].kind # "none"
    BY <1>1 DEF Exists
  <2>2. QED BY <1>1, <1>10, <2>1, ShapeKept
<1>13. ASSUME r \notin crossed' PROVE Sound(r)'
  <2>1. c \notin Syncs(r) /\ c \notin Syncs(r)'
    BY <1>9 DEF Syncs
  <2>2. Syncs(r)' = Syncs(r) /\ \A d \in Syncs(r) : call'[d].amount = call[d].amount
    BY <1>8, <2>1, SyncsKept
  <2>3. Room(r)'
    <3>1. Pending(r)' = Pending(r) + n /\ Pending(r) \in Nat
      <4>1. Pending(r)' = Pending(r) + (Draw(call'[c], r) - Draw(call[c], r)) /\ Pending(r) \in Nat
        BY <1>6, <1>8, PendingMoves
      <4>2. Draw(call'[c], r) = n /\ Draw(call[c], r) = 0
        BY <1>7, <1>11
      <4>3. QED BY <1>2, <4>1, <4>2
    <3>2. -Pending(r) >= Floor
      BY <1>6, <1>11, PendingBound DEF IInv
    <3>3. batch[r].quantity \in Int /\ batch'[r] = batch[r]
      BY <1>1, <1>6 DEF TypeOK, BatchStates
    <3>4. batch'[r].quantity - Pending(r)' >= Floor
      BY <1>1, <1>2, <3>1, <3>2, <3>3, Limits
    <3>5. QED BY <3>4 DEF Room, Floor
  <2>4. r \in Rows \ crossed
    BY <1>1, <1>13
  <2>5. QED BY <1>1, <1>10, <2>2, <2>3, <2>4, SoundKept
<1> DEFINE W == {r}
<1>14. W \in SUBSET Rows /\ \A s : s \in W <=> s = r
  OBVIOUS
<1> HIDE DEF W
<1>15. \A s \in Rows \ W : Draw(call'[c], s) <= Draw(call[c], s)
  BY <1>7, <1>11, <1>14
<1>16. \A s \in W : Shape(s)'
  BY <1>12, <1>14
<1>17. \A s \in W \ crossed' : Sound(s)'
  BY <1>13, <1>14
<1>18. QED
  BY <1>1, <1>6, <1>8, <1>9, <1>10, <1>14, <1>15, <1>16, <1>17, Written

\* When a request moves and no other does, or is told of it.
LEMMA AloneMoves ==
    ASSUME IInv, NEW c \in Calls, NEW k \in CallStates, call' = [call EXCEPT ![c] = k]
    PROVE  /\ call' \in [Calls -> CallStates] /\ call'[c] = k
           /\ \A d \in Calls \ {c} : Notified(call'[d], call[d], NoRow)
<1>1. call \in [Calls -> CallStates]
  BY DEF IInv, TypeOK
<1>2. call'[c] = k /\ call' \in [Calls -> CallStates] /\ \A d \in Calls \ {c} : call'[d] = call[d]
  BY <1>1
<1>3. ASSUME NEW d \in Calls \ {c} PROVE Notified(call'[d], call[d], NoRow)
  <2>1. Notified(call[d], call[d], NoRow)
    <3>1. call[d].op # "none" => call[d].row \in Rows
      BY DEF IInv, Informed
    <3>2. QED BY <3>1, RowsFinite DEF Notified
  <2>2. QED BY <1>2, <2>1
<1>4. QED BY <1>2, <1>3

LEMMA RoomStill ==
    ASSUME IInv, TypeOK', NEW s \in Rows, NEW c \in Calls, NEW r,
           \A d \in Calls \ {c} : Notified(call'[d], call[d], r),
           Draw(call'[c], s) <= Draw(call[c], s), Room(s), batch'[s] = batch[s],
           Kept(s)' => Kept(s)
    PROVE  Room(s)'
<1>1. TypeOK
  BY DEF IInv
<1>2. /\ Pending(s)' = Pending(s) + (Draw(call'[c], s) - Draw(call[c], s))
      /\ Pending(s) \in Nat /\ Draw(call'[c], s) \in Nat /\ Draw(call[c], s) \in Nat
  BY <1>1, PendingMoves
<1>3. Pending(s)' <= Pending(s)
  BY <1>2
<1>4. QED BY <1>1, <1>3, RoomKept

\* The second half of an edit: the row's only one.
LEMMA SyncInputStep ==
    ASSUME IInv, NEW c \in Calls, SyncInput(c)
    PROVE  IInv'
<1> DEFINE q == call[c]
<1>0. PICK r : r = q.row
  OBVIOUS
<1>1. /\ q.op = "update" /\ q.step = "sync" /\ call' = [call EXCEPT ![c] = NoCall]
      /\ UNCHANGED <<batch, books, crossed, edits>>
      /\ order' = IF order[r].status = "OPEN"
                  THEN [order EXCEPT ![r].inputQuantity = q.amount] ELSE order
  BY <1>0 DEF SyncInput, At
<1>2. /\ q \in CallStates /\ Informed(q) /\ r \in Rows /\ Exists(r)
      /\ \A s \in Rows : Draw(q, s) = 0
  BY <1>0, <1>1, UnderWay DEF Draw
<1>3. /\ call' \in [Calls -> CallStates] /\ call'[c] = NoCall
      /\ \A d \in Calls \ {c} : Notified(call'[d], call[d], NoRow)
  BY <1>1, NoCallIs, AloneMoves
<1>c. q = call[c] /\ r = call[c].row
  BY <1>0
<1> HIDE DEF q
<1>4. /\ order' \in [Rows -> OrderStates] /\ \A s \in Rows \ {r} : order'[s] = order[s]
      /\ order'[r].status = order[r].status
      /\ order'[r].outputQuantity = order[r].outputQuantity
      /\ order'[r].wastageQuantity = order[r].wastageQuantity
      /\ order[r].status = "OPEN" => order'[r].inputQuantity = q.amount
  <2> DEFINE o == [order[r] EXCEPT !.inputQuantity = q.amount]
  <2>1. order \in [Rows -> OrderStates] /\ order[r] \in OrderStates /\ q.amount \in Nat
    BY <1>2 DEF IInv, TypeOK, CallStates
  <2>2. /\ o \in OrderStates /\ o.status = order[r].status /\ o.inputQuantity = q.amount
        /\ o.outputQuantity = order[r].outputQuantity
        /\ o.wastageQuantity = order[r].wastageQuantity
    BY <2>1 DEF OrderStates
  <2>3. order' = IF order[r].status = "OPEN" THEN [order EXCEPT ![r] = o] ELSE order
    BY <1>1
  <2> HIDE DEF o
  <2>4. QED BY <1>2, <2>1, <2>2, <2>3
<1>5. TypeOK'
  BY <1>1, <1>3, <1>4 DEF IInv, TypeOK
<1>6. \A s \in Rows : (Kept(s)' <=> Kept(s)) /\ Made(s)' = Made(s)
  BY <1>1, SameTree
<1>7. Informed(call[c])' /\ call'[c].step = "read"
  BY <1>3 DEF Informed, NoCall
<1>8. Shape(r)'
  <2>1. Shape(r) /\ (Kept(r)' <=> Kept(r)) /\ Made(r)' = Made(r)
    BY <1>2, <1>6 DEF IInv
  <2>2. batch' = batch /\ books' = books
    BY <1>1
  <2>3. QED BY <1>4, <2>1, <2>2 DEF Shape, Exists
<1>9. ASSUME r \notin crossed' PROVE Sound(r)'
  <2>1. Sound(r) /\ c \in Syncs(r)
    BY <1>1, <1>2, <1>9, <1>c DEF IInv, Syncs
  <2>2. Syncs(r)' = {}
    <3>1. \A d \in Calls \ {c} : d \notin Syncs(r)
      BY <2>1 DEF Sound
    <3>2. \A d \in Calls \ {c} : d \notin Syncs(r)'
      BY <1>3, <3>1 DEF Syncs, Notified
    <3>3. c \notin Syncs(r)'
      BY <1>7 DEF Syncs
    <3>4. QED BY <3>2, <3>3 DEF Syncs
  <2>3. Room(r)'
    <3>1. Draw(call'[c], r) <= Draw(call[c], r)
      BY <1>2, <1>3, <1>c, NoCallIs
    <3>2. Room(r)
      BY <2>1 DEF Sound
    <3>3. QED BY <1>1, <1>2, <1>3, <1>5, <1>6, <3>1, <3>2, RoomStill
  <2>4. Kept(r)' <=> Kept(r)
    BY <1>2, <1>6
  <2>5. order[r].status = "OPEN" /\ Kept(r) => q.amount = books[r].given
    BY <2>1, <1>c DEF Sound
  <2>6. QED BY <1>1, <1>4, <2>1, <2>2, <2>3, <2>4, <2>5 DEF Sound
<1> DEFINE W == {r}
<1>10. W \in SUBSET Rows /\ \A s : s \in W <=> s = r
  BY <1>2
<1> HIDE DEF W
<1>11. \A s \in Rows \ W : Draw(call'[c], s) <= Draw(call[c], s)
  BY <1>2, <1>3, <1>c, NoCallIs
<1>12. \A s \in Rows \ W : /\ batch'[s] = batch[s] /\ order'[s] = order[s]
                           /\ books'[s] = books[s]
                           /\ Kept(s)' => Kept(s)
                           /\ Made(s)' = Made(s)
  BY <1>1, <1>4, <1>6, <1>10
<1>13. \A s \in W : Shape(s)'
  BY <1>8, <1>10
<1>17. \A s \in W \ crossed' : Sound(s)'
  BY <1>9, <1>10
<1>14. /\ \A s \in Rows : Exists(s) => batch'[s].kind = batch[s].kind
       /\ \A s \in Rows : order[s].status # "none" => order'[s].status # "none"
       /\ \A s \in Rows \ {NoRow} : Exists(s) => /\ batch'[s].quantity = batch[s].quantity
                                                /\ order'[s].status = order[s].status
  BY <1>1, <1>4
<1>15. /\ call[c].step = "sync" => call[c].row \in W \cup crossed'
       /\ crossed \subseteq crossed'
       /\ call'[c].step = "sync" => call'[c].row \in W
  BY <1>1, <1>7, <1>10, <1>c
<1>16. QED BY <1>3, <1>5, <1>7, <1>10, <1>11, <1>12, <1>13, <1>14, <1>15, <1>17, Written

\* What was received is what the batch holds: it is in transit, so no work order
\* and no room for one depend on it.
LEMMA CommitReceiveStep ==
    ASSUME IInv, NEW c \in Calls, CommitReceive(c)
    PROVE  IInv'
<1> DEFINE q == call[c]
           n == q.amount
<1>0. PICK r : r = q.row
  OBVIOUS
<1> DEFINE st == CASE batch[r].dispatch = "return" -> "PACKAGED"
                   [] batch[r].dispatch = "outward" -> "DELIVERED"
                   [] OTHER -> batch[r].status
           b == [batch[r] EXCEPT !.quantity = n, !.dispatch = "RECEIVED", !.status = st]
           g == books[r].given + n - batch[r].quantity
           k == [books[r] EXCEPT !.given = g]
<1>1. /\ q.op = "receive" /\ q.step = "read"
      /\ batch' = [batch EXCEPT ![r] = b]
      /\ books' = IF q.outdated THEN books ELSE [books EXCEPT ![r] = k]
      /\ crossed' = (IF q.outdated THEN crossed \cup {r} ELSE crossed)
      /\ call' = Outdate(c, r) /\ UNCHANGED <<order, edits>>
  BY <1>0 DEF CommitReceive, At, CrossedBy
<1>2. /\ q \in CallStates /\ Informed(q) /\ r \in Rows /\ Exists(r) /\ batch[r].kind = "transit"
      /\ \A s \in Rows : Draw(q, s) = 0
  BY <1>0, <1>1, UnderWay DEF Draw, Informed
<1>3. Shape(r) /\ order[r].status = "none"
  BY <1>2 DEF IInv, Shape
<1>c. q = call[c] /\ r = call[c].row
  BY <1>0
<1>4. TypeOK
  BY DEF IInv
<1>5. /\ call' \in [Calls -> CallStates] /\ call'[c] = NoCall
      /\ \A d \in Calls \ {c} : Notified(call'[d], call[d], r)
  BY <1>1, <1>4, OutdateIs
<1> HIDE DEF q
<1>6. st \in {"PACKAGED", "DELIVERED", batch[r].status} /\ n \in Nat
  BY <1>2 DEF CallStates
<1> HIDE DEF st, n
<1>7. /\ b \in BatchStates /\ b.quantity = n /\ b.kind = "transit" /\ b.dispatch = "RECEIVED"
      /\ b.parent = batch[r].parent /\ b.packed = batch[r].packed
  <2>1. batch[r] \in BatchStates
    BY <1>2, <1>4 DEF TypeOK
  <2>2. st \in {"RECEIVED", "PACKAGED", "IN_TRANSIT", "DELIVERED"} /\ n \in Int
    BY <1>6, <2>1 DEF BatchStates
  <2>3. /\ b.quantity = n /\ b.kind = "transit" /\ b.dispatch = "RECEIVED"
        /\ b.parent = batch[r].parent /\ b.packed = batch[r].packed
    BY <1>2, <2>1 DEF BatchStates
  <2>4. b \in BatchStates
    BY <2>1, <2>2 DEF BatchStates
  <2>5. QED BY <2>3, <2>4
<1>8. /\ k \in [given: Int, consumed: Nat, moved: Int, wasted: Nat] /\ k.given = g
      /\ k.consumed = books[r].consumed /\ k.moved = books[r].moved /\ k.wasted = books[r].wasted
  <2>1. /\ books[r] \in [given: Int, consumed: Nat, moved: Int, wasted: Nat]
        /\ batch[r].quantity \in Int
    BY <1>2, <1>4 DEF TypeOK, BatchStates
  <2>2. g \in Int
    BY <1>6, <2>1
  <2> HIDE DEF g
  <2>3. QED BY <2>1, <2>2
<1> HIDE DEF b, k
<1>9. /\ batch' \in [Rows -> BatchStates] /\ batch'[r] = b
      /\ \A s \in Rows \ {r} : batch'[s] = batch[s]
  BY <1>1, <1>2, <1>4, <1>7 DEF TypeOK
<1>10. /\ books' \in [Rows -> [given: Int, consumed: Nat, moved: Int, wasted: Nat]]
       /\ books'[r] = (IF q.outdated THEN books[r] ELSE k)
       /\ \A s \in Rows \ {r} : books'[s] = books[s]
  BY <1>1, <1>2, <1>4, <1>8 DEF TypeOK
<1>11. TypeOK'
  BY <1>1, <1>2, <1>4, <1>5, <1>9, <1>10 DEF TypeOK
<1>12. \A s \in Rows : (Kept(s)' <=> Kept(s)) /\ Made(s)' = Made(s)
  <2>1. \A s \in Rows : /\ batch'[s].kind = batch[s].kind
                        /\ batch'[s].parent = batch[s].parent
                        /\ batch'[s].packed = batch[s].packed
    BY <1>2, <1>7, <1>9
  <2>2. QED BY <2>1, SameTree
<1>13. Informed(call[c])' /\ call'[c].step = "read"
  BY <1>5 DEF Informed, NoCall
<1>14. Shape(r)'
  <2>1. (Kept(r)' <=> Kept(r)) /\ books'[r].moved = books[r].moved
    BY <1>2, <1>8, <1>10, <1>12
  <2>2. b.parent \in Rows /\ batch'[b.parent].kind # "none"
    BY <1>2, <1>3, <1>7, <1>9 DEF Shape, Exists
  <2>3. order'[r] = order[r]
    BY <1>1
  <2>4. QED BY <1>3, <1>7, <1>9, <2>1, <2>2, <2>3 DEF Shape, Exists
<1>15. ASSUME r \notin crossed' PROVE Sound(r)'
  <2>1. Sound(r) /\ ~q.outdated
    BY <1>1, <1>2, <1>15 DEF IInv
  <2>2. Syncs(r)' = Syncs(r)
    <3>1. c \notin Syncs(r) /\ c \notin Syncs(r)'
      BY <1>1, <1>13, <1>c DEF Syncs
    <3>2. QED BY <1>2, <1>5, <3>1, SyncsKept
  <2>3. Room(r)'
    BY <1>7, <1>9 DEF Room
  <2>4. /\ batch'[r].quantity = books'[r].given - books'[r].consumed - books'[r].moved
                                  - books'[r].wasted
        /\ books'[r].wasted = books[r].wasted
    <3>1. batch[r].quantity = books[r].given - books[r].consumed - books[r].moved - books[r].wasted
      BY <2>1 DEF Sound
    <3>2. /\ batch[r].quantity \in Int /\ books[r].given \in Int /\ books[r].consumed \in Int
          /\ books[r].moved \in Int /\ books[r].wasted \in Int
      BY <1>2, <1>4 DEF TypeOK, BatchStates
    <3>3. books'[r] = k /\ batch'[r].quantity = n
      BY <1>7, <1>9, <1>10, <2>1
    <3>4. QED BY <1>6, <1>8, <3>1, <3>2, <3>3
  <2>5. order'[r].status = "none"
    BY <1>1, <1>3
  <2>6. books[r].wasted = 0 /\ \A d, e \in Syncs(r) : d = e
    BY <1>3, <2>1 DEF Sound
  <2>7. QED BY <2>2, <2>3, <2>4, <2>5, <2>6 DEF Sound
<1> DEFINE W == {r}
<1>16. W \in SUBSET Rows /\ \A s : s \in W <=> s = r
  BY <1>2
<1> HIDE DEF W
<1>17. \A s \in Rows \ W : Draw(call'[c], s) <= Draw(call[c], s)
  BY <1>2, <1>5, <1>c, NoCallIs
<1>18. \A s \in Rows \ W : /\ batch'[s] = batch[s] /\ order'[s] = order[s]
                           /\ books'[s] = books[s]
                           /\ Kept(s)' => Kept(s)
                           /\ Made(s)' = Made(s)
  BY <1>1, <1>9, <1>10, <1>12, <1>16
<1>19. \A s \in W : Shape(s)'
  BY <1>14, <1>16
<1>20. \A s \in W \ crossed' : Sound(s)'
  BY <1>15, <1>16
<1>21. /\ \A s \in Rows : Exists(s) => batch'[s].kind = batch[s].kind
       /\ \A s \in Rows : order[s].status # "none" => order'[s].status # "none"
       /\ \A s \in Rows \ {r} : Exists(s) => /\ batch'[s].quantity = batch[s].quantity
                                            /\ order'[s].status = order[s].status
  BY <1>1, <1>2, <1>7, <1>9
<1>22. /\ call[c].step = "sync" => call[c].row \in W \cup crossed'
       /\ crossed \subseteq crossed'
       /\ call'[c].step = "sync" => call'[c].row \in W
  BY <1>1, <1>13, <1>16, <1>c
<1>23. QED BY <1>5, <1>11, <1>13, <1>16, <1>17, <1>18, <1>19, <1>20, <1>21, <1>22, Written

\* A work order closes: what was left is wasted and nothing is left, or nothing
\* is wasted because no more than nothing was left.
LEMMA CommitFinalizeStep ==
    ASSUME IInv, NEW c \in Calls, CommitFinalize(c)
    PROVE  IInv'
<1> DEFINE q == call[c]
<1>0. PICK r : r = q.row
  OBVIOUS
<1>w. PICK w : w = q.read
  OBVIOUS
<1> DEFINE b == [batch[r] EXCEPT !.quantity = 0]
           g == books[r].wasted + w
           k == [books[r] EXCEPT !.wasted = g]
           o == [order[r] EXCEPT !.status = "CLOSED", !.wastageQuantity = w]
<1>1. /\ q.op = "finalize" /\ q.step = "read"
      /\ \/ /\ w > 0 /\ batch' = [batch EXCEPT ![r] = b]
            /\ books' = [books EXCEPT ![r] = k]
         \/ w <= 0 /\ batch' = batch /\ books' = books
      /\ order' = [order EXCEPT ![r] = o]
      /\ crossed' = (IF q.outdated THEN crossed \cup {r} ELSE crossed)
      /\ call' = Outdate(c, r) /\ edits' = edits
  BY <1>0, <1>w DEF CommitFinalize, At, CrossedBy
<1>2. /\ q \in CallStates /\ Informed(q) /\ r \in Rows /\ Exists(r) /\ order[r].status # "none"
      /\ \A s \in Rows : Draw(q, s) = 0
  BY <1>0, <1>1, UnderWay DEF Draw, Informed
<1>3. Shape(r)
  BY <1>2 DEF IInv
<1>c. q = call[c] /\ r = call[c].row
  BY <1>0
<1>4. TypeOK
  BY DEF IInv
<1>5. /\ call' \in [Calls -> CallStates] /\ call'[c] = NoCall
      /\ \A d \in Calls \ {c} : Notified(call'[d], call[d], r)
  BY <1>1, <1>4, OutdateIs
<1>6. w \in Int
  BY <1>2, <1>w DEF CallStates
<1> HIDE DEF q
<1>7. /\ b \in BatchStates /\ b.quantity = 0 /\ b.kind = batch[r].kind
      /\ b.dispatch = batch[r].dispatch
      /\ b.parent = batch[r].parent /\ b.packed = batch[r].packed
  <2>1. batch[r] \in BatchStates
    BY <1>2, <1>4 DEF TypeOK
  <2>2. QED BY <2>1 DEF BatchStates
<1>8. /\ w > 0 => k \in [given: Int, consumed: Nat, moved: Int, wasted: Nat]
      /\ k.wasted = g
      /\ k.consumed = books[r].consumed /\ k.moved = books[r].moved /\ k.given = books[r].given
  <2>1. books[r] \in [given: Int, consumed: Nat, moved: Int, wasted: Nat]
    BY <1>2, <1>4 DEF TypeOK
  <2>2. w > 0 => g \in Nat
    BY <1>6, <2>1
  <2> HIDE DEF g
  <2>3. QED BY <2>1, <2>2
<1>9. /\ o \in OrderStates /\ o.status = "CLOSED" /\ o.wastageQuantity = w
      /\ o.outputQuantity = order[r].outputQuantity
  <2>1. order[r] \in OrderStates
    BY <1>2, <1>4 DEF TypeOK
  <2>2. QED BY <1>6, <2>1 DEF OrderStates
<1> HIDE DEF b, k, o
<1>10. /\ batch' \in [Rows -> BatchStates]
       /\ batch'[r] = IF w > 0 THEN b ELSE batch[r]
       /\ \A s \in Rows \ {r} : batch'[s] = batch[s]
  BY <1>1, <1>2, <1>4, <1>6, <1>7 DEF TypeOK
<1>11. /\ books' \in [Rows -> [given: Int, consumed: Nat, moved: Int, wasted: Nat]]
       /\ books'[r] = IF w > 0 THEN k ELSE books[r]
       /\ \A s \in Rows \ {r} : books'[s] = books[s]
  BY <1>1, <1>2, <1>4, <1>6, <1>8 DEF TypeOK
<1>12. /\ order' \in [Rows -> OrderStates] /\ order'[r] = o
       /\ \A s \in Rows \ {r} : order'[s] = order[s]
  BY <1>1, <1>2, <1>4, <1>9 DEF TypeOK
<1>13. TypeOK'
  BY <1>1, <1>2, <1>4, <1>5, <1>10, <1>11, <1>12 DEF TypeOK
<1>14. \A s \in Rows : /\ batch'[s].kind = batch[s].kind
                       /\ batch'[s].parent = batch[s].parent
                       /\ batch'[s].packed = batch[s].packed
  BY <1>2, <1>7, <1>10
<1>15. \A s \in Rows : (Kept(s)' <=> Kept(s)) /\ Made(s)' = Made(s)
  BY <1>14, SameTree
<1>16. Informed(call[c])' /\ call'[c].step = "read"
  BY <1>5 DEF Informed, NoCall
<1>17. Shape(r)'
  <2>1. /\ Kept(r)' <=> Kept(r)
        /\ Made(r)' = Made(r) /\ books'[r].moved = books[r].moved
    BY <1>2, <1>8, <1>11, <1>15
  <2>2. \A t \in Rows : batch'[t].kind = batch[t].kind
    BY <1>14
  <2>3. /\ batch'[r].kind = "inward" /\ batch'[r].dispatch = batch[r].dispatch
        /\ batch[r].kind = "inward"
    BY <1>2, <1>3, <1>7, <1>10 DEF Shape
  <2>4. order'[r].status = "CLOSED" /\ order'[r].outputQuantity = order[r].outputQuantity
    BY <1>9, <1>12
  <2>5. QED BY <1>2, <1>3, <2>1, <2>3, <2>4 DEF Shape
<1>18. ASSUME r \notin crossed' PROVE Sound(r)'
  <2>1. Sound(r) /\ ~q.outdated
    BY <1>1, <1>2, <1>18 DEF IInv
  <2>2. Syncs(r)' = Syncs(r)
    <3>1. c \notin Syncs(r) /\ c \notin Syncs(r)'
      BY <1>1, <1>16, <1>c DEF Syncs
    <3>2. QED BY <1>2, <1>5, <3>1, SyncsKept
  <2>3. w = batch[r].quantity /\ order[r].status # "CLOSED"
    BY <1>0, <1>1, <1>2, <1>w, <2>1 DEF Informed
  <2>4. Room(r)'
    <3>1. Draw(call'[c], r) = 0 /\ Draw(call[c], r) = 0
      BY <1>2, <1>5, <1>c, NoCallIs
    <3>2. CASE w > 0
      <4>1. batch'[r].quantity >= 0
        BY <1>7, <1>10, <3>2
      <4>2. QED BY <1>2, <1>5, <1>13, <3>1, <4>1, RoomFilled
    <3>3. CASE ~(w > 0)
      <4>1. batch'[r] = batch[r] /\ (Kept(r)' => Kept(r)) /\ Room(r)
        BY <1>2, <1>10, <1>15, <2>1, <3>3 DEF Sound
      <4>2. Draw(call'[c], r) <= Draw(call[c], r)
        BY <3>1
      <4>3. QED BY <1>2, <1>5, <1>13, <4>1, <4>2, RoomStill
    <3>4. QED BY <3>2, <3>3
  <2>5. /\ batch'[r].quantity = books'[r].given - books'[r].consumed - books'[r].moved
                                  - books'[r].wasted
        /\ books'[r].wasted = IF w >= 0 THEN w ELSE 0
    <3>1. /\ batch[r].quantity = books[r].given - books[r].consumed - books[r].moved - books[r].wasted
          /\ books[r].wasted = 0
      BY <2>1, <2>3 DEF Sound
    <3>2. /\ books[r].given \in Int /\ books[r].consumed \in Int
          /\ books[r].moved \in Int /\ books[r].wasted \in Int
      BY <1>2, <1>4 DEF TypeOK
    <3>3. QED BY <1>6, <1>7, <1>8, <1>10, <1>11, <2>3, <3>1, <3>2
  <2>6. Max({w, 0}) = books'[r].wasted
    BY <1>6, <2>5, MaxZero
  <2>7. order'[r].status = "CLOSED" /\ order'[r].wastageQuantity = w
    BY <1>9, <1>12
  <2>8. \A d, e \in Syncs(r) : d = e
    BY <2>1 DEF Sound
  <2>9. QED BY <2>2, <2>4, <2>5, <2>6, <2>7, <2>8 DEF Sound
<1> DEFINE W == {r}
<1>19. W \in SUBSET Rows /\ \A s : s \in W <=> s = r
  BY <1>2
<1> HIDE DEF W
<1>20. \A s \in Rows \ W : Draw(call'[c], s) <= Draw(call[c], s)
  BY <1>2, <1>5, <1>c, NoCallIs
<1>21. \A s \in Rows \ W : /\ batch'[s] = batch[s] /\ order'[s] = order[s]
                           /\ books'[s] = books[s]
                           /\ Kept(s)' => Kept(s)
                           /\ Made(s)' = Made(s)
  BY <1>10, <1>11, <1>12, <1>15, <1>19
<1>22. \A s \in W : Shape(s)'
  BY <1>17, <1>19
<1>23. \A s \in W \ crossed' : Sound(s)'
  BY <1>18, <1>19
<1>24. /\ \A s \in Rows : Exists(s) => batch'[s].kind = batch[s].kind
       /\ \A s \in Rows : order[s].status # "none" => order'[s].status # "none"
       /\ \A s \in Rows \ {r} : Exists(s) => /\ batch'[s].quantity = batch[s].quantity
                                            /\ order'[s].status = order[s].status
  BY <1>9, <1>10, <1>12, <1>14
<1>25. /\ call[c].step = "sync" => call[c].row \in W \cup crossed'
       /\ crossed \subseteq crossed'
       /\ call'[c].step = "sync" => call'[c].row \in W
  BY <1>1, <1>16, <1>19, <1>c
<1>26. QED BY <1>5, <1>13, <1>16, <1>19, <1>20, <1>21, <1>22, <1>23, <1>24, <1>25, Written

\* A batch is written with the quantity named: unless another edit is half done,
\* this one's second half is the row's only one, and knows what was given.
LEMMA WriteNamed ==
    ASSUME IInv, NEW c \in Calls, WriteBatch(c), call[c].amount # 0
    PROVE  IInv'
<1> DEFINE q == call[c]
<1>0. PICK r : r = q.row
  OBVIOUS
<1>n. PICK n : n = q.amount
  OBVIOUS
<1> DEFINE b == [batch[r] EXCEPT !.quantity = n]
           g == books[r].given + n - batch[r].quantity
           k == [books[r] EXCEPT !.given = g]
           x == [q EXCEPT !.step = "sync", !.outdated = FALSE]
<1>1. /\ q.op = "update" /\ q.step = "read" /\ n # 0
      /\ batch' = [batch EXCEPT ![r] = b]
      /\ books' = [books EXCEPT ![r] = k]
      /\ crossed' = (IF Syncing(r) THEN crossed \cup {r} ELSE crossed)
      /\ call' = [Outdate(c, r) EXCEPT ![c] = x] /\ order' = order /\ edits' = edits
  BY <1>0, <1>n DEF WriteBatch, At
<1>2. /\ q \in CallStates /\ Informed(q) /\ r \in Rows /\ Exists(r)
      /\ \A s \in Rows : Draw(q, s) = 0
  BY <1>0, <1>1, UnderWay DEF Draw, Informed
<1>3. Shape(r)
  BY <1>2 DEF IInv
<1>c. q = call[c] /\ r = call[c].row
  BY <1>0
<1>4. TypeOK
  BY DEF IInv
<1>5. n \in Nat
  BY <1>2, <1>n DEF CallStates
<1> HIDE DEF q
<1>6. /\ x \in CallStates /\ x.op = "update" /\ x.row = r /\ x.amount = n /\ x.step = "sync"
      /\ \A s \in Rows : Draw(x, s) = 0
  <2>1. x \in CallStates /\ x.op = q.op /\ x.row = q.row /\ x.amount = q.amount /\ x.step = "sync"
    BY <1>2 DEF CallStates
  <2> HIDE DEF x
  <2>2. QED BY <1>0, <1>1, <1>n, <2>1 DEF Draw
<1> HIDE DEF x
<1>7. /\ call' \in [Calls -> CallStates] /\ call'[c] = x
      /\ \A d \in Calls \ {c} : Notified(call'[d], call[d], r)
  <2>1. /\ Outdate(c, r) \in [Calls -> CallStates]
        /\ \A d \in Calls \ {c} : Notified(Outdate(c, r)[d], call[d], r)
    BY <1>4, OutdateIs
  <2>2. /\ call' \in [Calls -> CallStates] /\ call'[c] = x
        /\ \A d \in Calls \ {c} : call'[d] = Outdate(c, r)[d]
    BY <1>1, <1>6, <2>1
  <2>3. QED BY <2>1, <2>2
<1>8. /\ b \in BatchStates /\ b.quantity = n /\ b.kind = batch[r].kind
      /\ b.dispatch = batch[r].dispatch
      /\ b.parent = batch[r].parent /\ b.packed = batch[r].packed
  <2>1. batch[r] \in BatchStates
    BY <1>2, <1>4 DEF TypeOK
  <2>2. QED BY <1>5, <2>1 DEF BatchStates
<1>9. /\ k \in [given: Int, consumed: Nat, moved: Int, wasted: Nat]
      /\ k.given = g /\ k.wasted = books[r].wasted
      /\ k.consumed = books[r].consumed /\ k.moved = books[r].moved
  <2>1. /\ books[r] \in [given: Int, consumed: Nat, moved: Int, wasted: Nat]
        /\ batch[r].quantity \in Int
    BY <1>2, <1>4 DEF TypeOK, BatchStates
  <2>2. g \in Int
    BY <1>5, <2>1
  <2> HIDE DEF g
  <2>3. QED BY <2>1, <2>2
<1> HIDE DEF b, k
<1>10. /\ batch' \in [Rows -> BatchStates] /\ batch'[r] = b
       /\ \A s \in Rows \ {r} : batch'[s] = batch[s]
  BY <1>1, <1>2, <1>4, <1>8 DEF TypeOK
<1>11. /\ books' \in [Rows -> [given: Int, consumed: Nat, moved: Int, wasted: Nat]]
       /\ books'[r] = k
       /\ \A s \in Rows \ {r} : books'[s] = books[s]
  BY <1>1, <1>2, <1>4, <1>9 DEF TypeOK
<1>12. TypeOK'
  BY <1>1, <1>2, <1>4, <1>7, <1>10, <1>11 DEF TypeOK
<1>13. \A s \in Rows : /\ batch'[s].kind = batch[s].kind
                       /\ batch'[s].parent = batch[s].parent
                       /\ batch'[s].packed = batch[s].packed
  BY <1>2, <1>8, <1>10
<1>14. \A s \in Rows : (Kept(s)' <=> Kept(s)) /\ Made(s)' = Made(s)
  BY <1>13, SameTree
<1>15. Informed(call[c])'
  <2>1. batch'[r].kind # "none"
    BY <1>2, <1>13 DEF Exists
  <2>2. QED BY <1>2, <1>6, <1>7, <2>1 DEF Informed, Exists
<1>16. Shape(r)'
  <2>1. /\ Kept(r)' <=> Kept(r)
        /\ Made(r)' = Made(r) /\ books'[r].moved = books[r].moved
        /\ books'[r].consumed = books[r].consumed
    BY <1>2, <1>9, <1>11, <1>14
  <2>2. /\ batch'[r].kind = batch[r].kind /\ batch'[r].dispatch = batch[r].dispatch
        /\ batch'[r].parent = batch[r].parent /\ order'[r] = order[r]
    BY <1>1, <1>8, <1>10
  <2>3. QED BY <1>2, <1>3, <1>13, <2>1, <2>2 DEF Shape, Exists
<1>17. ASSUME r \notin crossed' PROVE Sound(r)'
  <2>1. Sound(r) /\ ~Syncing(r)
    BY <1>1, <1>2, <1>17 DEF IInv
  <2>2. Syncs(r)' = {c}
    <3>1. \A d \in Calls \ {c} : d \notin Syncs(r)'
      BY <1>7, <2>1 DEF Syncing, Syncs, Notified
    <3>2. c \in Syncs(r)'
      BY <1>6, <1>7 DEF Syncs
    <3>3. Syncs(r)' \subseteq Calls
      BY DEF Syncs
    <3>4. QED BY <3>1, <3>2, <3>3
  <2>3. Room(r)'
    <3>1. Draw(call'[c], r) = 0 /\ Draw(call[c], r) = 0
      BY <1>2, <1>6, <1>7, <1>c
    <3>2. batch'[r].quantity >= 0
      BY <1>5, <1>8, <1>10
    <3>3. QED BY <1>2, <1>7, <1>12, <3>1, <3>2, RoomFilled
  <2>4. /\ batch[r].quantity = books[r].given - books[r].consumed - books[r].moved - books[r].wasted
        /\ batch[r].quantity \in Int /\ books[r].given \in Int /\ books[r].consumed \in Int
        /\ books[r].moved \in Int /\ books[r].wasted \in Int
    BY <1>2, <1>4, <2>1 DEF TypeOK, BatchStates, Sound
  <2>5. /\ batch'[r].quantity = books'[r].given - books'[r].consumed - books'[r].moved
                                  - books'[r].wasted
        /\ books'[r].wasted = books[r].wasted
    BY <1>5, <1>8, <1>9, <1>10, <1>11, <2>4
  <2>6. order[r].status = "OPEN" /\ Kept(r) => books'[r].given = n
    <3>1. SUFFICES ASSUME order[r].status = "OPEN", Kept(r) PROVE books'[r].given = n
      OBVIOUS
    <3>2. books[r].consumed = 0 /\ books[r].moved = 0 /\ books[r].wasted = 0
      BY <1>3, <2>1, <3>1 DEF Shape, Sound
    <3>3. QED BY <1>5, <1>9, <1>11, <2>4, <3>2
  <2>7. order'[r] = order[r] /\ (Kept(r)' <=> Kept(r)) /\ call'[c].amount = n
    BY <1>1, <1>2, <1>6, <1>7, <1>14
  <2>8. /\ order[r].status # "CLOSED" => books[r].wasted = 0
        /\ order[r].status = "CLOSED" => Max({order[r].wastageQuantity, 0}) = books[r].wasted
    BY <2>1 DEF Sound
  <2>9. QED BY <2>2, <2>3, <2>5, <2>6, <2>7, <2>8 DEF Sound
<1> DEFINE W == {r}
<1>18. W \in SUBSET Rows /\ \A s : s \in W <=> s = r
  BY <1>2
<1> HIDE DEF W
<1>19. \A s \in Rows \ W : Draw(call'[c], s) <= Draw(call[c], s)
  BY <1>2, <1>6, <1>7, <1>c
<1>20. \A s \in Rows \ W : /\ batch'[s] = batch[s] /\ order'[s] = order[s]
                           /\ books'[s] = books[s]
                           /\ Kept(s)' => Kept(s)
                           /\ Made(s)' = Made(s)
  BY <1>1, <1>10, <1>11, <1>14, <1>18
<1>21. \A s \in W : Shape(s)'
  BY <1>16, <1>18
<1>22. \A s \in W \ crossed' : Sound(s)'
  BY <1>17, <1>18
<1>23. /\ \A s \in Rows : Exists(s) => batch'[s].kind = batch[s].kind
       /\ \A s \in Rows : order[s].status # "none" => order'[s].status # "none"
       /\ \A s \in Rows \ {r} : Exists(s) => /\ batch'[s].quantity = batch[s].quantity
                                            /\ order'[s].status = order[s].status
  BY <1>1, <1>10, <1>13
<1>24. /\ call[c].step = "sync" => call[c].row \in W \cup crossed'
       /\ crossed \subseteq crossed'
       /\ call'[c].step = "sync" => call'[c].row \in W
  BY <1>1, <1>6, <1>7, <1>18, <1>c
<1>25. QED BY <1>7, <1>12, <1>15, <1>18, <1>19, <1>20, <1>21, <1>22, <1>23, <1>24, Written

\* A batch is written with the quantity that was read: nothing changes, unless
\* the row did since.
LEMMA WriteRead ==
    ASSUME IInv, NEW c \in Calls, WriteBatch(c), call[c].amount = 0
    PROVE  IInv'
<1> DEFINE q == call[c]
<1>0. PICK r : r = q.row
  OBVIOUS
<1>n. PICK n : n = q.read
  OBVIOUS
<1> DEFINE b == [batch[r] EXCEPT !.quantity = n]
<1>1. /\ q.op = "update" /\ q.step = "read" /\ q.amount = 0
      /\ batch' = [batch EXCEPT ![r] = b]
      /\ crossed' = (IF q.outdated THEN crossed \cup {r} ELSE crossed)
      /\ call' = Outdate(c, r) /\ order' = order /\ books' = books /\ edits' = edits
  BY <1>0, <1>n DEF WriteBatch, At, CrossedBy
<1>2. /\ q \in CallStates /\ Informed(q) /\ r \in Rows /\ Exists(r)
      /\ \A s \in Rows : Draw(q, s) = 0
  BY <1>0, <1>1, UnderWay DEF Draw, Informed
<1>3. Shape(r)
  BY <1>2 DEF IInv
<1>c. q = call[c] /\ r = call[c].row
  BY <1>0
<1>4. TypeOK
  BY DEF IInv
<1>5. n \in Int
  BY <1>2, <1>n DEF CallStates
<1>6. /\ call' \in [Calls -> CallStates] /\ call'[c] = NoCall
      /\ \A d \in Calls \ {c} : Notified(call'[d], call[d], r)
  BY <1>1, <1>4, OutdateIs
<1> HIDE DEF q
<1>7. /\ b \in BatchStates /\ b.quantity = n /\ b.kind = batch[r].kind
      /\ b.dispatch = batch[r].dispatch
      /\ b.parent = batch[r].parent /\ b.packed = batch[r].packed
      /\ n = batch[r].quantity => b = batch[r]
  <2>1. batch[r] \in BatchStates
    BY <1>2, <1>4 DEF TypeOK
  <2>2. QED BY <1>5, <2>1 DEF BatchStates
<1> HIDE DEF b
<1>8. /\ batch' \in [Rows -> BatchStates] /\ batch'[r] = b
      /\ \A s \in Rows \ {r} : batch'[s] = batch[s]
  BY <1>1, <1>2, <1>4, <1>7 DEF TypeOK
<1>9. TypeOK'
  BY <1>1, <1>2, <1>4, <1>6, <1>8 DEF TypeOK
<1>10. \A s \in Rows : /\ batch'[s].kind = batch[s].kind
                       /\ batch'[s].parent = batch[s].parent
                       /\ batch'[s].packed = batch[s].packed
  BY <1>2, <1>7, <1>8
<1>11. \A s \in Rows : (Kept(s)' <=> Kept(s)) /\ Made(s)' = Made(s)
  BY <1>10, SameTree
<1>12. Informed(call[c])' /\ call'[c].step = "read"
  BY <1>6 DEF Informed, NoCall
<1>13. Shape(r)'
  <2>1. /\ Kept(r)' <=> Kept(r)
        /\ Made(r)' = Made(r)
    BY <1>2, <1>11
  <2>2. /\ batch'[r].kind = batch[r].kind /\ batch'[r].dispatch = batch[r].dispatch
        /\ batch'[r].parent = batch[r].parent /\ order'[r] = order[r] /\ books'[r] = books[r]
    BY <1>1, <1>7, <1>8
  <2>3. QED BY <1>2, <1>3, <1>10, <2>1, <2>2 DEF Shape, Exists
<1>14. ASSUME r \notin crossed' PROVE Sound(r)'
  <2>1. Sound(r) /\ ~q.outdated /\ r \in Rows \ crossed
    BY <1>1, <1>2, <1>14 DEF IInv
  <2>2. batch'[r] = batch[r]
    BY <1>0, <1>1, <1>2, <1>7, <1>8, <1>n, <2>1 DEF Informed
  <2>3. Syncs(r)' = Syncs(r) /\ \A d \in Syncs(r) : call'[d].amount = call[d].amount
    <3>1. c \notin Syncs(r) /\ c \notin Syncs(r)'
      BY <1>1, <1>12, <1>c DEF Syncs
    <3>2. QED BY <1>2, <1>6, <3>1, SyncsKept
  <2>4. Kept(r)' <=> Kept(r)
    BY <1>2, <1>11
  <2>5. Room(r)'
    <3>1. Draw(call'[c], r) <= Draw(call[c], r)
      BY <1>2, <1>6, <1>c, NoCallIs
    <3>2. Room(r)
      BY <2>1 DEF Sound
    <3>3. QED BY <1>2, <1>6, <1>9, <2>2, <2>4, <3>1, <3>2, RoomStill
  <2>6. QED BY <1>1, <2>1, <2>2, <2>3, <2>4, <2>5, SoundKept
<1> DEFINE W == {r}
<1>15. W \in SUBSET Rows /\ \A s : s \in W <=> s = r
  BY <1>2
<1> HIDE DEF W
<1>16. \A s \in Rows \ W : Draw(call'[c], s) <= Draw(call[c], s)
  BY <1>2, <1>6, <1>c, NoCallIs
<1>17. \A s \in Rows \ W : /\ batch'[s] = batch[s] /\ order'[s] = order[s]
                           /\ books'[s] = books[s]
                           /\ Kept(s)' => Kept(s)
                           /\ Made(s)' = Made(s)
  BY <1>1, <1>8, <1>11, <1>15
<1>18. \A s \in W : Shape(s)'
  BY <1>13, <1>15
<1>19. \A s \in W \ crossed' : Sound(s)'
  BY <1>14, <1>15
<1>20. /\ \A s \in Rows : Exists(s) => batch'[s].kind = batch[s].kind
       /\ \A s \in Rows : order[s].status # "none" => order'[s].status # "none"
       /\ \A s \in Rows \ {r} : Exists(s) => /\ batch'[s].quantity = batch[s].quantity
                                            /\ order'[s].status = order[s].status
  BY <1>1, <1>8, <1>10
<1>21. /\ call[c].step = "sync" => call[c].row \in W \cup crossed'
       /\ crossed \subseteq crossed'
       /\ call'[c].step = "sync" => call'[c].row \in W
  BY <1>1, <1>12, <1>15, <1>c
<1>22. QED BY <1>6, <1>9, <1>12, <1>15, <1>16, <1>17, <1>18, <1>19, <1>20, <1>21, Written

\* A step of no request that is under way: all of them go on, and those about to
\* write row r are outdated.
LEMMA GoOn ==
    ASSUME IInv, TypeOK', NEW s \in Rows, NEW r,
           \A d \in Calls : Notified(call'[d], call[d], r)
    PROVE  /\ Syncs(s)' = Syncs(s) /\ \A d \in Syncs(s) : call'[d].amount = call[d].amount
           /\ Pending(s)' = Pending(s) /\ Pending(s) \in Nat
           /\ \A d \in Calls : Draw(call'[d], s) = Draw(call[d], s)
<1>1. Syncs(s)' = Syncs(s) /\ \A d \in Syncs(s) : call'[d].amount = call[d].amount
  BY DEF Syncs, Notified
<1>2. \A d \in Calls : Draw(call'[d], s) = Draw(call[d], s)
  BY DEF Notified, Draw
<1>3. Pending(s)' = Pending(s)
  <2>1. \A d \in Calls : Draw(call[d], s)' = Draw(call[d], s)
    BY <1>2 DEF Draw
  <2>2. QED BY <2>1, PendingSame
<1>4. Pending(s) \in Nat
  BY PendingInt DEF IInv
<1>5. QED BY <1>1, <1>2, <1>3, <1>4

LEMMA WrittenByNone ==
    ASSUME IInv, TypeOK', NEW r, NEW W \in SUBSET Rows, crossed' = crossed,
           \A d \in Calls : Notified(call'[d], call[d], r),
           \A s \in Rows : Exists(s) => batch'[s].kind = batch[s].kind,
           \A s \in Rows : order[s].status # "none" => order'[s].status # "none",
           \A s \in Rows \ {r} : Exists(s) => /\ batch'[s].quantity = batch[s].quantity
                                             /\ order'[s].status = order[s].status,
           \A s \in Rows \ W : /\ batch'[s] = batch[s] /\ order'[s] = order[s]
                               /\ books'[s] = books[s]
                               /\ Kept(s)' => Kept(s)
                               /\ Made(s)' = Made(s),
           \A s \in W : Shape(s)', \A s \in W \ crossed : Sound(s)'
    PROVE  IInv'
<1>1. ASSUME NEW d \in Calls PROVE Informed(call[d])'
  <2>1. Notified(call'[d], call[d], r)
    OBVIOUS
  <2>2. QED BY <2>1, InformedKept DEF Notified
<1>2. ASSUME NEW s \in Rows \ W PROVE Shape(s)'
  <2>1. \A t \in Rows : Exists(t) => batch'[t].kind # "none"
    BY DEF Exists
  <2>2. Kept(s)' => Kept(s)
    OBVIOUS
  <2>3. Made(s)' = Made(s)
    OBVIOUS
  <2>4. batch'[s] = batch[s] /\ order'[s] = order[s] /\ books'[s] = books[s] /\ s \in Rows
    OBVIOUS
  <2>5. QED BY <2>1, <2>2, <2>3, <2>4, ShapeKept
<1>3. ASSUME NEW s \in Rows \ W, s \notin crossed PROVE Sound(s)'
  <2>1. s \in Rows \ crossed /\ Room(s)
    BY <1>3 DEF IInv, Sound
  <2>2. Kept(s)' => Kept(s)
    OBVIOUS
  <2>3. batch'[s] = batch[s] /\ order'[s] = order[s] /\ books'[s] = books[s]
    OBVIOUS
  <2>4. /\ Syncs(s)' = Syncs(s) /\ \A d \in Syncs(s) : call'[d].amount = call[d].amount
        /\ Pending(s)' = Pending(s) /\ Pending(s) \in Nat
    BY <2>1, GoOn
  <2>5. Room(s)'
    <3>1. TypeOK /\ s \in Rows
      BY DEF IInv
    <3>2. Pending(s)' <= Pending(s)
      BY <2>4
    <3>3. QED BY <2>1, <2>2, <2>3, <3>1, <3>2, RoomKept
  <2>6. QED BY <2>1, <2>2, <2>3, <2>4, <2>5, SoundKept
<1>4. \A s \in Rows : Shape(s)'
  BY <1>2
<1>5. \A s \in Rows \ crossed' : Sound(s)'
  BY <1>3
<1>6. QED BY <1>1, <1>4, <1>5 DEF IInv

\* A batch is received: its work order starts from it.
LEMMA InwardStep ==
    ASSUME IInv, Inward
    PROVE  IInv'
<1>0. PICK f : f = Fresh
  OBVIOUS
<1> DEFINE b == [batch[f] EXCEPT !.kind = "inward", !.quantity = Delivery]
           o == [order[f] EXCEPT !.status = "OPEN", !.inputQuantity = Delivery]
           k == Given(Delivery)
<1>1. /\ batch' = [batch EXCEPT ![f] = b] /\ order' = [order EXCEPT ![f] = o]
      /\ books' = [books EXCEPT ![f] = k]
      /\ call' = call /\ crossed' = crossed /\ edits' = edits /\ Free # {}
  BY <1>0 DEF Inward
<1>2. f \in Rows /\ ~Exists(f)
  BY <1>0, <1>1, FreshIsFree
<1>3. /\ \A d \in Calls : call[d].row # f
      /\ Syncs(f) = {} /\ \A d \in Calls : Draw(call[d], f) = 0
      /\ Made(f) = 0 /\ order[f].status = "none" /\ order[f].outputQuantity = 0
      /\ batch[f].kind = "none" /\ batch[f].dispatch = "none"
  BY <1>2, NobodyOn
<1>4. TypeOK /\ Delivery \in Nat
  BY FilmStockAssumption DEF IInv
<1>5. /\ b \in BatchStates /\ b.kind = "inward" /\ b.quantity = Delivery /\ b.dispatch = "none"
      /\ b.packed \in Nat
  <2>1. batch[f] \in BatchStates
    BY <1>2, <1>4 DEF TypeOK
  <2>2. b \in BatchStates
    <3>1. Delivery \in Int /\ "inward" \in {"none", "inward", "output", "transit"}
      BY <1>4
    <3>2. QED BY <2>1, <3>1 DEF BatchStates
  <2>3. b.kind = "inward" /\ b.quantity = Delivery /\ b.dispatch = batch[f].dispatch
    BY <2>1 DEF BatchStates
  <2> HIDE DEF b
  <2>4. b.packed \in Nat
    BY <2>2 DEF BatchStates
  <2>5. QED BY <1>3, <2>2, <2>3, <2>4
<1>6. /\ o \in OrderStates /\ o.status = "OPEN" /\ o.inputQuantity = Delivery
      /\ o.outputQuantity = 0
  <2>1. order[f] \in OrderStates
    BY <1>2, <1>4 DEF TypeOK
  <2>2. QED BY <1>3, <1>4, <2>1 DEF OrderStates
<1>7. /\ k \in [given: Int, consumed: Nat, moved: Int, wasted: Nat]
      /\ k.given = Delivery /\ k.consumed = 0 /\ k.moved = 0 /\ k.wasted = 0
  BY <1>4 DEF Given
<1> HIDE DEF b, o, k
<1>8. /\ batch' \in [Rows -> BatchStates] /\ batch'[f] = b
      /\ order' \in [Rows -> OrderStates] /\ order'[f] = o
      /\ books' \in [Rows -> [given: Int, consumed: Nat, moved: Int, wasted: Nat]]
      /\ books'[f] = k
  BY <1>1, <1>2, <1>4, <1>5, <1>6, <1>7 DEF TypeOK
<1>9. \A s \in Rows \ {f} : batch'[s] = batch[s] /\ order'[s] = order[s] /\ books'[s] = books[s]
  BY <1>1, <1>4 DEF TypeOK
<1>10. TypeOK'
  BY <1>1, <1>4, <1>8 DEF TypeOK
<1>11. \A d \in Calls : Notified(call'[d], call[d], NoRow)
  <2>1. SUFFICES ASSUME NEW d \in Calls PROVE Notified(call[d], call[d], NoRow)
    BY <1>1
  <2>2. call[d].op # "none" => call[d].row \in Rows
    BY UnderWay
  <2>3. QED BY <2>2, RowsFinite DEF Notified
<1>12. \A s \in Rows : (Kept(s)' <=> Kept(s)) /\ Made(s)' = Made(s)
  <2>1. \A s \in Rows \ {f} : /\ batch'[s].kind = batch[s].kind
                             /\ batch'[s].parent = batch[s].parent
                             /\ batch'[s].packed = batch[s].packed
    BY <1>9
  <2>2. batch'[f].packed \in Nat /\ batch'[f].kind = "inward"
    BY <1>5, <1>8
  <2>3. QED BY <1>2, <2>1, <2>2, NewRow
<1>13. Shape(f)'
  <2>1. Made(f)' = 0
    BY <1>2, <1>3, <1>12
  <2>2. QED BY <1>5, <1>6, <1>7, <1>8, <2>1 DEF Shape
<1>14. Sound(f)'
  <2>1. Syncs(f)' = {} /\ Pending(f)' = Pending(f)
    BY <1>2, <1>3, <1>10, <1>11, GoOn
  <2>2. PICK c \in Calls : TRUE
    BY FilmStockAssumption
  <2>3. Room(f)'
    <3>1. Draw(call[c], f) = 0 /\ Draw(call'[c], f) = 0
      BY <1>1, <1>3
    <3>2. batch'[f].quantity >= 0
      BY <1>4, <1>5, <1>8
    <3>3. \A d \in Calls \ {c} : Notified(call'[d], call[d], NoRow)
      BY <1>11
    <3>4. QED BY <1>2, <1>10, <3>1, <3>2, <3>3, RoomFilled
  <2>4. Delivery = Delivery - 0 - 0 - 0
    BY <1>4
  <2>5. QED BY <1>5, <1>6, <1>7, <1>8, <2>1, <2>3, <2>4 DEF Sound
<1> DEFINE W == {f}
<1>15. W \in SUBSET Rows /\ \A s : s \in W <=> s = f
  BY <1>2
<1> HIDE DEF W
<1>16. \A s \in Rows \ W : /\ batch'[s] = batch[s] /\ order'[s] = order[s]
                           /\ books'[s] = books[s]
                           /\ Kept(s)' => Kept(s)
                           /\ Made(s)' = Made(s)
  BY <1>9, <1>12, <1>15
<1>17. \A s \in W : Shape(s)'
  BY <1>13, <1>15
<1>18. \A s \in W \ crossed : Sound(s)'
  BY <1>14, <1>15
<1>19. \A s \in Rows : Exists(s) => s # f
  BY <1>2
<1>20. /\ \A s \in Rows : Exists(s) => batch'[s].kind = batch[s].kind
       /\ \A s \in Rows : order[s].status # "none" => order'[s].status # "none"
       /\ \A s \in Rows \ {NoRow} : Exists(s) => /\ batch'[s].quantity = batch[s].quantity
                                                /\ order'[s].status = order[s].status
  BY <1>3, <1>9, <1>19
<1>21. QED BY <1>1, <1>10, <1>11, <1>15, <1>16, <1>17, <1>18, <1>20, WrittenByNone

\* What leaves becomes a batch in transit: its source is no longer kept.
LEMMA DispatchStep ==
    ASSUME IInv, NEW r \in Rows, NEW n \in Int, NEW way \in {"outward", "return"},
           Dispatch(r, n, way)
    PROVE  IInv'
<1>0. PICK f : f = Fresh
  OBVIOUS
<1> DEFINE m == batch[r].quantity - n
           b == [batch[r] EXCEPT !.quantity = m]
           t == [Child("transit", "IN_TRANSIT", r, n) EXCEPT !.dispatch = way]
           g == books[r].moved + n
           h == [books[r] EXCEPT !.moved = g]
           k == Given(n)
<1>1. /\ batch' = [batch EXCEPT ![r].quantity = m, ![f] = t]
      /\ books' = [books EXCEPT ![r].moved = g, ![f] = k]
      /\ call' = OutdateAll(r) /\ crossed' = crossed /\ edits' = edits /\ order' = order
      /\ Free # {} /\ Exists(r)
  BY <1>0 DEF Dispatch
<1>2. f \in Rows /\ ~Exists(f) /\ f # r
  BY <1>0, <1>1, FreshIsFree
<1>3. /\ \A d \in Calls : call[d].row # f
      /\ Syncs(f) = {} /\ \A d \in Calls : Draw(call[d], f) = 0
      /\ Made(f) = 0 /\ order[f].status = "none" /\ order[f].outputQuantity = 0
      /\ batch[f].kind = "none" /\ batch[f].dispatch = "none"
  BY <1>2, NobodyOn
<1>4. TypeOK
  BY DEF IInv
<1>5. /\ b \in BatchStates /\ b.quantity = m /\ b.kind = batch[r].kind
      /\ b.dispatch = batch[r].dispatch
      /\ b.parent = batch[r].parent /\ b.packed = batch[r].packed
  <2>1. batch[r] \in BatchStates
    BY <1>4 DEF TypeOK
  <2>2. m \in Int
    BY <2>1 DEF BatchStates
  <2> HIDE DEF m
  <2>3. QED BY <2>1, <2>2 DEF BatchStates
<1>6. /\ t \in BatchStates /\ t.kind = "transit" /\ t.quantity = n /\ t.parent = r
      /\ t.dispatch = way /\ t.packed = 0
  BY DEF Child, NoBatch, BatchStates
<1>7. /\ h \in [given: Int, consumed: Nat, moved: Int, wasted: Nat]
      /\ h.moved = g /\ h.given = books[r].given /\ h.consumed = books[r].consumed
      /\ h.wasted = books[r].wasted
  <2>1. books[r] \in [given: Int, consumed: Nat, moved: Int, wasted: Nat]
    BY <1>4 DEF TypeOK
  <2>2. g \in Int
    BY <2>1
  <2> HIDE DEF g
  <2>3. QED BY <2>1, <2>2
<1>8. /\ k \in [given: Int, consumed: Nat, moved: Int, wasted: Nat]
      /\ k.given = n /\ k.consumed = 0 /\ k.moved = 0 /\ k.wasted = 0
  BY DEF Given
<1>9. /\ batch' = [batch EXCEPT ![r] = b, ![f] = t]
      /\ books' = [books EXCEPT ![r] = h, ![f] = k]
  BY <1>1, <1>2, <1>4 DEF TypeOK
<1> HIDE DEF b, t, h, k
<1>10. /\ batch' \in [Rows -> BatchStates] /\ batch'[r] = b /\ batch'[f] = t
       /\ books' \in [Rows -> [given: Int, consumed: Nat, moved: Int, wasted: Nat]]
       /\ books'[r] = h /\ books'[f] = k
  BY <1>2, <1>4, <1>5, <1>6, <1>7, <1>8, <1>9 DEF TypeOK
<1>11. \A s \in Rows \ {r, f} : batch'[s] = batch[s] /\ books'[s] = books[s]
  BY <1>4, <1>9 DEF TypeOK
<1>12. /\ call' \in [Calls -> CallStates]
       /\ \A d \in Calls : Notified(call'[d], call[d], r)
  BY <1>1, <1>4, OutdateAllIs
<1>13. TypeOK'
  BY <1>1, <1>4, <1>10, <1>12 DEF TypeOK
<1>14. \A s \in Rows \ {f} : /\ batch'[s].kind = batch[s].kind
                             /\ batch'[s].parent = batch[s].parent
                             /\ batch'[s].packed = batch[s].packed
  BY <1>5, <1>10, <1>11
<1>15. \A s \in Rows : (Kept(s)' <=> Kept(s) /\ s # r) /\ Made(s)' = Made(s)
  <2>1. batch'[f].packed \in Nat /\ batch'[f].kind = "transit" /\ batch'[f].parent = r
    BY <1>6, <1>10
  <2>2. QED BY <1>2, <1>14, <2>1, NewRow
<1>16. Shape(r)'
  <2>1. /\ ~Kept(r)'
        /\ Made(r)' = Made(r)
        /\ books'[r].consumed = books[r].consumed /\ order'[r] = order[r]
    BY <1>1, <1>7, <1>10, <1>15
  <2>2. /\ batch'[r].kind = batch[r].kind /\ batch'[r].dispatch = batch[r].dispatch
        /\ batch'[r].parent = batch[r].parent
    BY <1>2, <1>5, <1>10
  <2>3. Exists(batch[r].parent) /\ batch[r].parent \in Rows => batch'[batch[r].parent].kind # "none"
    BY <1>2, <1>14 DEF Exists
  <2>4. Shape(r)
    BY DEF IInv
  <2>5. QED BY <1>1, <2>1, <2>2, <2>3, <2>4 DEF Shape, Exists
<1>17. Shape(f)'
  <2>1. Made(f)' = 0 /\ order'[f] = order[f]
    BY <1>1, <1>2, <1>3, <1>15
  <2>2. batch'[r].kind # "none"
    BY <1>1, <1>5, <1>10 DEF Exists
  <2>3. QED BY <1>3, <1>6, <1>8, <1>10, <2>1, <2>2 DEF Shape, Exists
<1>18. ASSUME r \notin crossed PROVE Sound(r)'
  <2>1. Sound(r)
    BY <1>18 DEF IInv
  <2>2. Syncs(r)' = Syncs(r)
    BY <1>12, <1>13, GoOn
  <2>3. ~Kept(r)'
    BY <1>15
  <2>4. Room(r)'
    BY <2>3 DEF Room
  <2>5. /\ batch[r].quantity = books[r].given - books[r].consumed - books[r].moved - books[r].wasted
        /\ batch[r].quantity \in Int /\ books[r].given \in Int /\ books[r].consumed \in Int
        /\ books[r].moved \in Int /\ books[r].wasted \in Int
    BY <1>4, <2>1 DEF TypeOK, BatchStates, Sound
  <2>6. /\ batch'[r].quantity = books'[r].given - books'[r].consumed - books'[r].moved
                                  - books'[r].wasted
        /\ books'[r].wasted = books[r].wasted
    BY <1>5, <1>7, <1>10, <2>5
  <2>7. order'[r] = order[r]
    BY <1>1
  <2>8. /\ order[r].status # "CLOSED" => books[r].wasted = 0
        /\ order[r].status = "CLOSED" => Max({order[r].wastageQuantity, 0}) = books[r].wasted
        /\ \A d, e \in Syncs(r) : d = e
    BY <2>1 DEF Sound
  <2>9. QED BY <2>2, <2>3, <2>4, <2>6, <2>7, <2>8 DEF Sound
<1>19. Sound(f)'
  <2>1. Syncs(f)' = {}
    BY <1>2, <1>3, <1>12, <1>13, GoOn
  <2>2. Room(f)'
    BY <1>6, <1>10 DEF Room
  <2>3. n = n - 0 - 0 - 0 /\ order'[f] = order[f]
    BY <1>1
  <2>4. QED BY <1>3, <1>6, <1>8, <1>10, <2>1, <2>2, <2>3 DEF Sound
<1> DEFINE W == {r, f}
<1>20. W \in SUBSET Rows /\ \A s : s \in W <=> s = r \/ s = f
  BY <1>2
<1> HIDE DEF W
<1>21. \A s \in Rows \ W : /\ batch'[s] = batch[s] /\ order'[s] = order[s]
                           /\ books'[s] = books[s]
                           /\ Kept(s)' => Kept(s)
                           /\ Made(s)' = Made(s)
  BY <1>1, <1>11, <1>15, <1>20
<1>22. \A s \in W : Shape(s)'
  BY <1>16, <1>17, <1>20
<1>23. \A s \in W \ crossed : Sound(s)'
  BY <1>18, <1>19, <1>20
<1>24. \A s \in Rows : Exists(s) => s # f
  BY <1>2
<1>25. /\ \A s \in Rows : Exists(s) => batch'[s].kind = batch[s].kind
       /\ \A s \in Rows : order[s].status # "none" => order'[s].status # "none"
       /\ \A s \in Rows \ {r} : Exists(s) => /\ batch'[s].quantity = batch[s].quantity
                                            /\ order'[s].status = order[s].status
  BY <1>1, <1>11, <1>14, <1>24
<1>26. QED BY <1>1, <1>12, <1>13, <1>20, <1>21, <1>22, <1>23, <1>25, WrittenByNone

\* An output is recorded: what the request drew is no longer pending but gone,
\* and its order has put out as much more as the new batch holds.
LEMMA CommitOutputStep ==
    ASSUME IInv, NEW c \in Calls, NEW u \in Quantities, CommitOutput(c, u)
    PROVE  IInv'
<1> DEFINE q == call[c]
<1>0. PICK r : r = q.row
  OBVIOUS
<1>n. PICK n : n = q.amount
  OBVIOUS
<1>f. PICK f : f = Fresh
  OBVIOUS
<1>m. PICK made : made = Made(r)
  OBVIOUS
<1> DEFINE m == batch[r].quantity - n
           b == [batch[r] EXCEPT !.quantity = m]
           t == Packaged(r, u)
           g == books[r].consumed + n
           h == [books[r] EXCEPT !.consumed = g]
           k == Given(u)
           out == made + u
           o == [order[r] EXCEPT !.status = "IN_PROGRESS", !.outputQuantity = out]
<1>1. /\ q.op = "output" /\ q.step = "holding" /\ Free # {}
      /\ batch' = [batch EXCEPT ![r].quantity = m, ![f] = t]
      /\ books' = [books EXCEPT ![r].consumed = g, ![f] = k]
      /\ order' = [order EXCEPT ![r] = o]
      /\ crossed' = (IF order[r].status = "CLOSED" THEN crossed \cup {r} ELSE crossed)
      /\ call' = Outdate(c, r) /\ edits' = edits
  BY <1>0, <1>n, <1>f, <1>m DEF CommitOutput, At, Made
<1>2. /\ q \in CallStates /\ Informed(q) /\ r \in Rows /\ Exists(r) /\ order[r].status # "none"
      /\ n \in Nat /\ Draw(q, r) = n
      /\ \A s \in Rows : Draw(q, s) \in Nat
  BY <1>0, <1>1, <1>n, UnderWay DEF CallStates, Informed, Draw
<1>3. f \in Rows /\ ~Exists(f) /\ f # r
  BY <1>1, <1>2, <1>f, FreshIsFree
<1>4. /\ \A d \in Calls : call[d].row # f
      /\ Syncs(f) = {} /\ \A d \in Calls : Draw(call[d], f) = 0
      /\ Made(f) = 0 /\ order[f].status = "none" /\ order[f].outputQuantity = 0
      /\ batch[f].kind = "none" /\ batch[f].dispatch = "none"
  BY <1>3, NobodyOn
<1>5. TypeOK /\ Shape(r)
  BY <1>2 DEF IInv
<1>c. q = call[c] /\ r = call[c].row
  BY <1>0
<1>6. u \in Nat /\ made \in Nat
  <2>1. made = order[r].outputQuantity
    BY <1>2, <1>5, <1>m DEF Shape
  <2>2. order[r] \in OrderStates
    BY <1>2, <1>5 DEF TypeOK
  <2>3. QED BY <2>1, <2>2, FilmStockAssumption DEF OrderStates
<1>7. /\ call' \in [Calls -> CallStates] /\ call'[c] = NoCall
      /\ \A d \in Calls \ {c} : Notified(call'[d], call[d], r)
  BY <1>1, <1>5, OutdateIs
<1> HIDE DEF q
<1>8. /\ b \in BatchStates /\ b.quantity = m /\ b.kind = batch[r].kind
      /\ b.dispatch = batch[r].dispatch
      /\ b.parent = batch[r].parent /\ b.packed = batch[r].packed
  <2>1. batch[r] \in BatchStates
    BY <1>2, <1>5 DEF TypeOK
  <2>2. m \in Int
    BY <1>2, <2>1 DEF BatchStates
  <2> HIDE DEF m
  <2>3. QED BY <2>1, <2>2 DEF BatchStates
<1>9. /\ t \in BatchStates /\ t.kind = "output" /\ t.quantity = u /\ t.parent = r
      /\ t.dispatch = "none" /\ t.packed = u
  <2>1. u \in Int /\ u \in Nat
    BY <1>6
  <2>2. QED BY <1>2, <2>1 DEF Packaged, Child, NoBatch, BatchStates
<1>10. /\ h \in [given: Int, consumed: Nat, moved: Int, wasted: Nat]
       /\ h.consumed = g /\ h.given = books[r].given /\ h.moved = books[r].moved
       /\ h.wasted = books[r].wasted
  <2>1. books[r] \in [given: Int, consumed: Nat, moved: Int, wasted: Nat]
    BY <1>2, <1>5 DEF TypeOK
  <2>2. g \in Nat
    BY <1>2, <2>1
  <2> HIDE DEF g
  <2>3. QED BY <2>1, <2>2
<1>11. /\ k \in [given: Int, consumed: Nat, moved: Int, wasted: Nat]
       /\ k.given = u /\ k.consumed = 0 /\ k.moved = 0 /\ k.wasted = 0
  BY <1>6 DEF Given
<1>12. /\ o \in OrderStates /\ o.status = "IN_PROGRESS" /\ o.outputQuantity = out
  <2>1. order[r] \in OrderStates
    BY <1>2, <1>5 DEF TypeOK
  <2>2. out \in Nat
    BY <1>6
  <2> HIDE DEF out
  <2>3. QED BY <2>1, <2>2 DEF OrderStates
<1>13. /\ batch' = [batch EXCEPT ![r] = b, ![f] = t]
       /\ books' = [books EXCEPT ![r] = h, ![f] = k]
  BY <1>1, <1>2, <1>3, <1>5 DEF TypeOK
<1> HIDE DEF b, t, h, k, o
<1>14. /\ batch' \in [Rows -> BatchStates] /\ batch'[r] = b /\ batch'[f] = t
       /\ books' \in [Rows -> [given: Int, consumed: Nat, moved: Int, wasted: Nat]]
       /\ books'[r] = h /\ books'[f] = k
       /\ order' \in [Rows -> OrderStates] /\ order'[r] = o /\ order'[f] = order[f]
  BY <1>1, <1>2, <1>3, <1>5, <1>8, <1>9, <1>10, <1>11, <1>12, <1>13 DEF TypeOK
<1>15. \A s \in Rows \ {r, f} : /\ batch'[s] = batch[s] /\ books'[s] = books[s]
                                /\ order'[s] = order[s]
  BY <1>1, <1>5, <1>13 DEF TypeOK
<1>16. TypeOK'
  BY <1>1, <1>2, <1>5, <1>7, <1>14 DEF TypeOK
<1>17. \A s \in Rows \ {f} : /\ batch'[s].kind = batch[s].kind
                             /\ batch'[s].parent = batch[s].parent
                             /\ batch'[s].packed = batch[s].packed
  BY <1>8, <1>14, <1>15
<1>18. \A s \in Rows : /\ Kept(s)' <=> Kept(s)
                       /\ Made(s)' = IF s = r THEN Made(s) + u ELSE Made(s)
  <2>1. /\ batch'[f].packed = u /\ batch'[f].kind = "output" /\ batch'[f].parent = r
        /\ batch'[f].packed \in Nat
    BY <1>6, <1>9, <1>14
  <2>2. QED BY <1>3, <1>17, <2>1, NewRow
<1>19. Informed(call[c])' /\ call'[c].step = "read"
  BY <1>7 DEF Informed, NoCall
<1>20. Shape(r)'
  <2>1. /\ Kept(r)' <=> Kept(r)
        /\ Made(r)' = out /\ books'[r].moved = books[r].moved
    BY <1>2, <1>10, <1>14, <1>18, <1>m
  <2>2. /\ batch'[r].kind = "inward" /\ batch'[r].dispatch = batch[r].dispatch
        /\ batch[r].kind = "inward"
    BY <1>2, <1>5, <1>8, <1>14 DEF Shape
  <2>3. order'[r].status = "IN_PROGRESS" /\ order'[r].outputQuantity = out
    BY <1>12, <1>14
  <2> HIDE DEF out
  <2>4. QED BY <1>5, <2>1, <2>2, <2>3 DEF Shape
<1>21. Shape(f)'
  <2>1. Made(f)' = 0
    BY <1>3, <1>4, <1>18
  <2>2. batch'[r].kind # "none"
    BY <1>2, <1>8, <1>14 DEF Exists
  <2>3. QED BY <1>2, <1>4, <1>9, <1>11, <1>14, <2>1, <2>2 DEF Shape, Exists
<1>22. ASSUME r \notin crossed' PROVE Sound(r)'
  <2>1. Sound(r) /\ order[r].status # "CLOSED"
    BY <1>1, <1>2, <1>22 DEF IInv
  <2>2. Syncs(r)' = Syncs(r)
    <3>1. c \notin Syncs(r) /\ c \notin Syncs(r)'
      BY <1>1, <1>19, <1>c DEF Syncs
    <3>2. QED BY <1>2, <1>7, <3>1, SyncsKept
  <2>3. /\ batch[r].quantity = books[r].given - books[r].consumed - books[r].moved - books[r].wasted
        /\ batch[r].quantity \in Int /\ books[r].given \in Int /\ books[r].consumed \in Int
        /\ books[r].moved \in Int /\ books[r].wasted \in Int
    BY <1>2, <1>5, <2>1 DEF TypeOK, BatchStates, Sound
  <2>4. /\ batch'[r].quantity = books'[r].given - books'[r].consumed - books'[r].moved
                                  - books'[r].wasted
        /\ books'[r].wasted = books[r].wasted
    BY <1>2, <1>8, <1>10, <1>14, <2>3
  <2>5. Room(r)'
    <3>1. /\ Pending(r)' = Pending(r) + (Draw(call'[c], r) - Draw(call[c], r))
          /\ Pending(r) \in Nat
      BY <1>2, <1>5, <1>7, <1>16, PendingMoves
    <3>2. Draw(call'[c], r) = 0 /\ Draw(call[c], r) = n
      BY <1>2, <1>7, <1>c, NoCallIs
    <3>3. Pending(r)' = Pending(r) - n
      BY <1>2, <3>1, <3>2
    <3>4. SUFFICES ASSUME Kept(r)' PROVE batch'[r].quantity - Pending(r)' >= Floor
      BY DEF Room, Floor
    <3>5. batch[r].quantity - Pending(r) >= Floor
      <4>1. Kept(r) /\ batch[r].kind = "inward"
        BY <1>2, <1>5, <1>18, <3>4 DEF Shape
      <4>2. QED BY <2>1, <4>1 DEF Sound, Room
    <3>6. batch'[r].quantity - Pending(r)' = batch[r].quantity - Pending(r)
      BY <1>2, <1>8, <1>14, <2>3, <3>1, <3>3
    <3>7. QED BY <3>5, <3>6
  <2>6. order'[r].status = "IN_PROGRESS"
    BY <1>12, <1>14
  <2>7. books[r].wasted = 0 /\ \A d, e \in Syncs(r) : d = e
    BY <2>1 DEF Sound
  <2>8. QED BY <2>2, <2>4, <2>5, <2>6, <2>7 DEF Sound
<1>23. Sound(f)'
  <2>1. Syncs(f)' = {}
    <3>1. c \notin Syncs(f) /\ c \notin Syncs(f)'
      BY <1>4, <1>19 DEF Syncs
    <3>2. QED BY <1>3, <1>4, <1>7, <3>1, SyncsKept
  <2>2. Room(f)'
    <3>1. Draw(call'[c], f) = 0 /\ Draw(call[c], f) = 0 /\ batch'[f].quantity >= 0
      BY <1>3, <1>4, <1>6, <1>7, <1>9, <1>14, NoCallIs
    <3>2. QED BY <1>3, <1>7, <1>16, <3>1, RoomFilled
  <2>3. u = u - 0 - 0 - 0
    BY <1>6
  <2>4. QED BY <1>4, <1>9, <1>11, <1>14, <2>1, <2>2, <2>3 DEF Sound
<1> DEFINE W == {r, f}
<1>24. W \in SUBSET Rows /\ \A s : s \in W <=> s = r \/ s = f
  BY <1>2, <1>3
<1> HIDE DEF W
<1>25. \A s \in Rows \ W : Draw(call'[c], s) <= Draw(call[c], s)
  BY <1>2, <1>7, <1>c, NoCallIs
<1>26. \A s \in Rows \ W : /\ batch'[s] = batch[s] /\ order'[s] = order[s]
                           /\ books'[s] = books[s]
                           /\ Kept(s)' => Kept(s)
                           /\ Made(s)' = Made(s)
  BY <1>15, <1>18, <1>24
<1>27. \A s \in W : Shape(s)'
  BY <1>20, <1>21, <1>24
<1>28. \A s \in W \ crossed' : Sound(s)'
  BY <1>22, <1>23, <1>24
<1>29. \A s \in Rows : Exists(s) => s # f
  BY <1>3
<1>30. /\ \A s \in Rows : Exists(s) => batch'[s].kind = batch[s].kind
       /\ \A s \in Rows : order[s].status # "none" => order'[s].status # "none"
       /\ \A s \in Rows \ {r} : Exists(s) => /\ batch'[s].quantity = batch[s].quantity
                                            /\ order'[s].status = order[s].status
  BY <1>12, <1>14, <1>15, <1>17, <1>29
<1>31. /\ call[c].step = "sync" => call[c].row \in W \cup crossed'
       /\ crossed \subseteq crossed'
       /\ call'[c].step = "sync" => call'[c].row \in W
  BY <1>1, <1>19, <1>24, <1>c
<1>32. QED BY <1>7, <1>16, <1>19, <1>24, <1>25, <1>26, <1>27, <1>28, <1>30, <1>31, Written

-----------------------------------------------------------------------------
\* No batch, no request: everything adds up.
LEMMA InitIInv == Init => IInv
<1> SUFFICES ASSUME Init PROVE IInv
  OBVIOUS
<1>1. TypeOK
  BY FilmStockAssumption DEF Init, TypeOK, BatchStates, OrderStates, CallStates,
                            NoBatch, NoOrder, NoCall, Given
<1>2. /\ \A r \in Rows : batch[r] = NoBatch /\ order[r] = NoOrder /\ books[r] = Given(0)
      /\ \A c \in Calls : call[c] = NoCall
  BY DEF Init
<1>3. ASSUME NEW c \in Calls PROVE Informed(call[c])
  BY <1>2 DEF Informed, NoCall
<1>4. ASSUME NEW r \in Rows PROVE Shape(r)
  <2>1. OutputsOf(r) = {}
    BY <1>2 DEF OutputsOf, NoBatch
  <2>2. Made(r) = 0
    BY <2>1, SumEmpty DEF Made, Total
  <2>3. QED BY <1>2, <2>2 DEF Shape, NoBatch, NoOrder, Given
<1>5. ASSUME NEW r \in Rows PROVE Sound(r)
  <2>1. Syncs(r) = {}
    BY <1>2 DEF Syncs, NoCall
  <2>2. PICK c \in Calls : TRUE
    BY FilmStockAssumption
  <2>3. -Pending(r) >= Floor
    <3>1. Draw(call[c], r) = 0
      BY <1>2, NoCallIs
    <3>2. QED BY <1>1, <1>3, <3>1, PendingBound
  <2>4. Pending(r) \in Nat
    BY <1>1, PendingInt
  <2>5. Room(r)
    <3>1. batch[r].quantity = 0
      BY <1>2 DEF NoBatch
    <3>2. QED BY <2>3, <2>4, <3>1, Limits DEF Room
  <2>6. QED BY <1>2, <2>1, <2>5 DEF Sound, NoBatch, NoOrder, Given
<1>6. QED BY <1>1, <1>3, <1>4, <1>5 DEF IInv

LEMMA UnchangedIInv ==
    ASSUME IInv, UNCHANGED vars
    PROVE  IInv'
<1>1. /\ batch' = batch /\ order' = order /\ call' = call /\ books' = books
      /\ crossed' = crossed /\ edits' = edits
  BY DEF vars
<1>2. PICK c \in Calls : TRUE
  BY FilmStockAssumption
<1>3. TypeOK /\ TypeOK'
  BY <1>1 DEF IInv, TypeOK
<1>4. \A d \in Calls : Notified(call'[d], call[d], NoRow)
  <2>1. SUFFICES ASSUME NEW d \in Calls PROVE Notified(call[d], call[d], NoRow)
    BY <1>1
  <2>2. call[d].op # "none" => call[d].row \in Rows
    BY UnderWay
  <2>3. QED BY <2>2, RowsFinite DEF Notified
<1>5. \A s \in Rows : (Kept(s)' <=> Kept(s)) /\ Made(s)' = Made(s)
  BY <1>1, SameTree
<1> DEFINE W == {}
<1>6. W \in SUBSET Rows /\ \A s : s \notin W
  OBVIOUS
<1> HIDE DEF W
<1>7. \A s \in Rows \ W : /\ batch'[s] = batch[s] /\ order'[s] = order[s]
                          /\ books'[s] = books[s]
                          /\ Kept(s)' => Kept(s)
                          /\ Made(s)' = Made(s)
  BY <1>1, <1>5
<1>8. (\A s \in W : Shape(s)') /\ (\A s \in W \ crossed : Sound(s)')
  BY <1>6
<1>9. /\ \A s \in Rows : Exists(s) => batch'[s].kind = batch[s].kind
      /\ \A s \in Rows : order[s].status # "none" => order'[s].status # "none"
      /\ \A s \in Rows \ {NoRow} : Exists(s) => /\ batch'[s].quantity = batch[s].quantity
                                               /\ order'[s].status = order[s].status
  BY <1>1
<1>10. QED BY <1>1, <1>3, <1>4, <1>6, <1>7, <1>8, <1>9, WrittenByNone

\* Every step, of whichever request, preserves the invariant.
LEMMA NextIInv == IInv /\ [Next]_vars => IInv'
<1> SUFFICES ASSUME IInv, [Next]_vars PROVE IInv'
  OBVIOUS
<1>1. CASE Inward
  BY <1>1, InwardStep
<1>2. ASSUME NEW r \in Rows, NEW n \in Amounts(r), NEW way \in {"outward", "return"},
             Dispatch(r, n, way)
      PROVE  IInv'
  <2>1. batch[r].quantity \in Int
    BY DEF IInv, TypeOK, BatchStates
  <2>2. n \in Int
    BY <2>1, FilmStockAssumption DEF Amounts
  <2>3. QED BY <1>2, <2>2, DispatchStep
<1>3. ASSUME NEW c \in Calls, NEW r \in Rows, NEW n \in Quantities \cup {0},
             ReadForOutput(c, r, n) \/ ReadForUpdate(c, r, n) \/ ReadForReceive(c, r, n)
      PROVE  IInv'
  BY <1>3, ReadForOutputStep, ReadForUpdateStep, ReadForReceiveStep
<1>4. ASSUME NEW c \in Calls, NEW r \in Rows, ReadForFinalize(c, r) PROVE IInv'
  BY <1>4, ReadForFinalizeStep
<1>5. ASSUME NEW c \in Calls, NEW u \in Quantities, CommitOutput(c, u) PROVE IInv'
  BY <1>5, CommitOutputStep
<1>6. ASSUME NEW c \in Calls,
             \/ HoldSource(c) \/ CommitFinalize(c) \/ WriteBatch(c) \/ SyncInput(c)
             \/ CommitReceive(c) \/ Lose(c)
      PROVE  IInv'
  BY <1>6, HoldSourceStep, CommitFinalizeStep, WriteNamed, WriteRead, SyncInputStep,
     CommitReceiveStep, LoseStep
<1>7. CASE UNCHANGED vars
  BY <1>7, UnchangedIInv
<1>8. QED BY <1>1, <1>2, <1>3, <1>4, <1>5, <1>6, <1>7 DEF Next

LEMMA InvariantHolds == Spec => []IInv
<1>1. QED BY InitIInv, NextIInv, PTL DEF Spec

\* Types: the program's rows and requests stay what TypeOK says, quantities below
\* zero included.
THEOREM TypesHold == Spec => []TypeOK
<1>1. IInv => TypeOK
  BY DEF IInv
<1>2. QED BY <1>1, InvariantHolds, PTL

\* No stock appears or vanishes, however many requests receive, turn into output,
\* finalize, edit and dispatch batches at once, as long as none wrote over what
\* had changed since it was read.
THEOREM StockHolds == Spec => []StockConserved
<1>1. IInv => StockConserved
  BY DEF IInv, Sound, StockConserved
<1>2. QED BY <1>1, InvariantHolds, PTL

\* A work order adds up: its input is what its batch was given, its output is the
\* sum of the outputs recorded, its wastage what finalizing took.
THEOREM OrdersHold == Spec => []OrdersAddUp
<1>1. ASSUME IInv PROVE InputFollows
  <2>1. SUFFICES ASSUME NEW r \in Rows \ crossed, order[r].status = "OPEN", ~Syncing(r), Kept(r)
                 PROVE  order[r].inputQuantity = books[r].given
    BY DEF InputFollows
  <2>2. Syncs(r) = {}
    BY <2>1 DEF Syncs, Syncing
  <2>3. QED BY <1>1, <2>1, <2>2 DEF IInv, Sound
<1>2. IInv => OutputsTotalled
  BY DEF IInv, Shape, OutputsTotalled, Made
<1>3. IInv => WastageRecorded
  BY DEF IInv, Sound, WastageRecorded
<1>4. IInv => OrdersAddUp
  BY <1>1, <1>2, <1>3 DEF OrdersAddUp
<1>5. QED BY <1>4, InvariantHolds, PTL

\* Requests that all looked at the same remaining quantity overdraw a batch by no
\* more than all of them but one can take: each looked before its decrement.
THEOREM OverdrawHolds == Spec => []OverdrawBounded
<1>1. ASSUME IInv, NEW r \in Rows \ crossed, batch[r].kind # "transit" /\ Kept(r)
      PROVE  batch[r].quantity >= Floor
  <2>1. batch[r].quantity - Pending(r) >= Floor
    BY <1>1 DEF IInv, Sound, Room
  <2>2. Pending(r) \in Nat /\ batch[r].quantity \in Int /\ Floor \in Int
    BY <1>1, PendingInt, Limits DEF IInv, TypeOK, BatchStates
  <2>3. QED BY <2>1, <2>2
<1>2. IInv => OverdrawBounded
  BY <1>1 DEF OverdrawBounded, Floor
<1>3. QED BY <1>2, InvariantHolds, PTL
=============================================================================
