------------------------------ MODULE FilmStock ------------------------------
(***************************************************************************)
(* Film stock: batches are received, turned by work orders into packaged   *)
(* batches, edited, deleted and dispatched to other organizations.  Every  *)
(* operation first reads the rows it decides on and later writes, in a     *)
(* transaction of its own, either a difference (decrement) or an absolute  *)
(* quantity.  The books are history: what went into and out of each batch. *)
(***************************************************************************)
EXTENDS Integers, FiniteSets, FiniteSetsExt

CONSTANTS
    MaxRows,     \* bound: FilmBatch rows
    MaxInward,   \* bound: batches received from outside (they do not interact)
    Calls,       \* requests under way
    Delivery,    \* quantity of a batch received from outside
    Quantities,  \* quantities a request may name
    MaxEdits     \* bound: updateBatch requests

ASSUME FilmStockAssumption ==
    /\ MaxRows \in Nat \ {0} /\ MaxInward \in Nat /\ MaxEdits \in Nat
    /\ Delivery \in Nat \ {0}
    /\ IsFiniteSet(Calls) /\ Calls # {}
    /\ IsFiniteSet(Quantities) /\ Quantities # {} /\ Quantities \subseteq Nat \ {0}

VARIABLES
    batch,    \* FilmBatch rows, with the dispatch order of a batch in transit
    order,    \* the work order of each received batch
    call,     \* running requests, with what they have read
    books,    \* history: what each batch was given, and what left it
    crossed,  \* history: batches written over what had changed since it was read
    edits

vars == <<batch, order, call, books, crossed, edits>>

Rows == 1..MaxRows
NoRow == 0

\* kind: how the batch came about.  packed: the quantity of the WorkOrderOutput
\* row that names it.  dispatch: the order that carries it, DISPATCHED outward
\* or as a return to HQ, or RECEIVED.
BatchStates == [kind: {"none", "inward", "output", "transit"},
                status: {"RECEIVED", "PACKAGED", "IN_TRANSIT", "DELIVERED"},
                quantity: Int, parent: Rows \union {NoRow}, packed: Nat,
                dispatch: {"none", "outward", "return", "RECEIVED"}]
OrderStates == [status: {"none", "OPEN", "IN_PROGRESS", "CLOSED"},
                inputQuantity: Nat, outputQuantity: Nat, wastageQuantity: Int]
CallStates == [op: {"none", "output", "finalize", "update", "receive"},
               row: Rows \union {NoRow}, read: Int, amount: Nat,
               step: {"read", "holding", "sync"}, outdated: BOOLEAN]

TypeOK ==
    /\ batch \in [Rows -> BatchStates]
    /\ order \in [Rows -> OrderStates]
    /\ call \in [Calls -> CallStates]
    /\ books \in [Rows -> [given: Int, consumed: Nat, moved: Int, wasted: Nat]]
    /\ crossed \subseteq Rows
    /\ edits \in 0..MaxEdits

NoBatch == [kind |-> "none", status |-> "RECEIVED", quantity |-> 0, parent |-> NoRow,
            packed |-> 0, dispatch |-> "none"]
NoOrder == [status |-> "none", inputQuantity |-> 0, outputQuantity |-> 0, wastageQuantity |-> 0]
NoCall == [op |-> "none", row |-> NoRow, read |-> 0, amount |-> 0, step |-> "read",
           outdated |-> FALSE]
Given(n) == [given |-> n, consumed |-> 0, moved |-> 0, wasted |-> 0]

Init ==
    /\ batch = [r \in Rows |-> NoBatch]
    /\ order = [r \in Rows |-> NoOrder]
    /\ call = [c \in Calls |-> NoCall]
    /\ books = [r \in Rows |-> Given(0)]
    /\ crossed = {} /\ edits = 0

Exists(r) == batch[r].kind # "none"
Free == {r \in Rows : ~Exists(r)}
Fresh == Min(Free)
Held == {call[c].row : c \in {d \in Calls : call[d].step = "holding"}}

\* Requests that will write over row r have read what is no longer so.
OutdateAll(r) ==
    [d \in Calls |-> IF call[d].row = r /\ call[d].op # "output" /\ call[d].step = "read"
                     THEN [call[d] EXCEPT !.outdated = TRUE] ELSE call[d]]
Outdate(c, r) == [OutdateAll(r) EXCEPT ![c] = NoCall]

\* A request that overwrites what has changed since it was read crosses r.
CrossedBy(c) == IF call[c].outdated THEN crossed \union {call[c].row} ELSE crossed

Begin(c, op, r, read, n) ==
    /\ call[c].op = "none"
    /\ call' = [call EXCEPT ![c] = [op |-> op, row |-> r, read |-> read, amount |-> n,
                                    step |-> "read", outdated |-> FALSE]]
    /\ UNCHANGED <<batch, order, books, crossed, edits>>
At(c, op, step) == call[c].op = op /\ call[c].step = step

\* A new batch taken from batch r.
Child(kind, status, r, n) ==
    [NoBatch EXCEPT !.kind = kind, !.status = status, !.quantity = n, !.parent = r]
Packaged(r, q) == [Child("output", "PACKAGED", r, q) EXCEPT !.packed = q]

-----------------------------------------------------------------------------
\* createInwardProcurement, for one item: the batch and its OPEN work order.
\* (createRawInward does the same for raw material.)
Inward ==
    /\ Free # {} /\ Cardinality({r \in Rows : batch[r].kind = "inward"}) < MaxInward
    /\ batch' = [batch EXCEPT ![Fresh].kind = "inward", ![Fresh].quantity = Delivery]
    /\ order' = [order EXCEPT ![Fresh].status = "OPEN", ![Fresh].inputQuantity = Delivery]
    /\ books' = [books EXCEPT ![Fresh] = Given(Delivery)]
    /\ UNCHANGED <<call, crossed, edits>>

-----------------------------------------------------------------------------
\* Fault: what the source still holds is not looked at.
ReadForOutputUnchecked(c, r, n) ==
    /\ order[r].status \in {"OPEN", "IN_PROGRESS"}
    /\ Begin(c, "output", r, order[r].outputQuantity, n)

\* addWorkOrderOutput, before its transaction: the order is not CLOSED, and the
\* source holds the n units the request says, or is computed, to consume.
ReadForOutput(c, r, n) ==
    /\ order[r].status \in {"OPEN", "IN_PROGRESS"}
    /\ batch[r].quantity >= n
    /\ Begin(c, "output", r, order[r].outputQuantity, n)

\* The transaction's first statement decrements the source; it holds that row
\* until it commits.
HoldSource(c) ==
    /\ At(c, "output", "read") /\ call[c].row \notin Held
    /\ call' = [call EXCEPT ![c].step = "holding"]
    /\ UNCHANGED <<batch, order, books, crossed, edits>>

OutputsOf(r) == {s \in Rows : batch[s].kind = "output" /\ batch[s].parent = r}
Total(S) == SumFunctionOnSet([s \in Rows |-> batch[s].packed], S)

\* Fault: the new total is the one the request read, and the new output.
CommitOutputOverRead(c, q) ==
    LET r == call[c].row  n == call[c].amount IN
    /\ At(c, "output", "holding") /\ Free # {}
    /\ batch' = [batch EXCEPT ![r].quantity = @ - n, ![Fresh] = Packaged(r, q)]
    /\ books' = [books EXCEPT ![r].consumed = @ + n, ![Fresh] = Given(q)]
    /\ order' = [order EXCEPT ![r].status = "IN_PROGRESS", ![r].outputQuantity = call[c].read + q]
    /\ crossed' = IF order[r].status = "CLOSED" THEN crossed \union {r} ELSE crossed
    /\ call' = Outdate(c, r)
    /\ UNCHANGED edits

\* Its commit: the packaged batch of q units and its output row are created, the
\* outputs of the order are added up, and the order is IN_PROGRESS, whatever it
\* was.
CommitOutput(c, q) ==
    LET r == call[c].row  n == call[c].amount IN
    /\ At(c, "output", "holding") /\ Free # {}
    /\ batch' = [batch EXCEPT ![r].quantity = @ - n, ![Fresh] = Packaged(r, q)]
    /\ books' = [books EXCEPT ![r].consumed = @ + n, ![Fresh] = Given(q)]
    /\ order' = [order EXCEPT ![r].status = "IN_PROGRESS",
                              ![r].outputQuantity = Total(OutputsOf(r)) + q]
    /\ crossed' = IF order[r].status = "CLOSED" THEN crossed \union {r} ELSE crossed
    /\ call' = Outdate(c, r)
    /\ UNCHANGED edits

-----------------------------------------------------------------------------
\* finalizeWorkOrder, before its transaction: the order is not CLOSED and has
\* outputs; what the source still holds will be the wastage.
ReadForFinalize(c, r) ==
    /\ order[r].status \in {"OPEN", "IN_PROGRESS"}
    /\ order[r].outputQuantity # 0
    /\ Begin(c, "finalize", r, batch[r].quantity, 0)

\* Fault: the source is emptied whatever it holds, below zero too.
CommitFinalizeAnyway(c) ==
    LET r == call[c].row  wastage == call[c].read IN
    /\ At(c, "finalize", "read") /\ r \notin Held
    /\ batch' = [batch EXCEPT ![r].quantity = 0]
    /\ books' = [books EXCEPT ![r].wasted = @ + wastage]
    /\ order' = [order EXCEPT ![r].status = "CLOSED", ![r].wastageQuantity = wastage]
    /\ crossed' = CrossedBy(c)
    /\ call' = Outdate(c, r)
    /\ UNCHANGED edits

\* Its transaction: a wastage above zero empties the source; the order closes.
CommitFinalize(c) ==
    LET r == call[c].row  wastage == call[c].read IN
    /\ At(c, "finalize", "read")
    /\ \/ /\ wastage > 0 /\ r \notin Held
          /\ batch' = [batch EXCEPT ![r].quantity = 0]
          /\ books' = [books EXCEPT ![r].wasted = @ + wastage]
       \/ wastage <= 0 /\ UNCHANGED <<batch, books>>
    /\ order' = [order EXCEPT ![r].status = "CLOSED", ![r].wastageQuantity = wastage]
    /\ crossed' = CrossedBy(c)
    /\ call' = Outdate(c, r)
    /\ UNCHANGED edits

-----------------------------------------------------------------------------
\* updateBatch reads the batch; a request names a new quantity n, or none (0).
ReadForUpdate(c, r, n) ==
    /\ Exists(r) /\ edits < MaxEdits
    /\ edits' = edits + 1
    /\ call[c].op = "none"
    /\ call' = [call EXCEPT ![c] = [op |-> "update", row |-> r, amount |-> n,
                                    read |-> IF n = 0 THEN batch[r].quantity ELSE 0,
                                    step |-> "read", outdated |-> FALSE]]
    /\ UNCHANGED <<batch, order, books, crossed>>

Syncing(r) == \E c \in Calls : call[c].row = r /\ call[c].step = "sync"

\* The row is written with the quantity named, an adjustment of the books, or
\* with the one that was read.
WriteBatch(c) ==
    LET r == call[c].row  n == call[c].amount IN
    /\ At(c, "update", "read") /\ r \notin Held
    /\ \/ /\ n # 0
          /\ batch' = [batch EXCEPT ![r].quantity = n]
          /\ books' = [books EXCEPT ![r].given = @ + n - batch[r].quantity]
          /\ crossed' = IF Syncing(r) THEN crossed \union {r} ELSE crossed
          /\ call' = [Outdate(c, r) EXCEPT ![c] = [call[c] EXCEPT !.step = "sync", !.outdated = FALSE]]
       \/ /\ n = 0
          /\ batch' = [batch EXCEPT ![r].quantity = call[c].read]
          /\ crossed' = CrossedBy(c)
          /\ call' = Outdate(c, r)
          /\ UNCHANGED books
    /\ UNCHANGED <<order, edits>>

\* Then, with a statement of its own, an OPEN work order's input quantity.
SyncInput(c) ==
    LET r == call[c].row IN
    /\ At(c, "update", "sync")
    /\ order' = IF order[r].status = "OPEN"
                THEN [order EXCEPT ![r].inputQuantity = call[c].amount] ELSE order
    /\ call' = [call EXCEPT ![c] = NoCall]
    /\ UNCHANGED <<batch, books, crossed, edits>>

\* A request dies: its transaction, if it has begun one, is rolled back.  What an
\* update had written before stays.
Lose(c) ==
    /\ call[c].op # "none"
    /\ crossed' = IF call[c].step = "sync" THEN crossed \union {call[c].row} ELSE crossed
    /\ call' = [call EXCEPT ![c] = NoCall]
    /\ UNCHANGED <<batch, order, books, edits>>

-----------------------------------------------------------------------------
\* Fault: what leaves is not taken from the batch it comes from.
DispatchCopy(r, n, way) ==
    /\ Exists(r) /\ Free # {} /\ r \notin Held
    /\ way = "return" => batch[r].status # "PACKAGED"
    /\ batch' = [batch EXCEPT ![Fresh] = [Child("transit", "IN_TRANSIT", r, n) EXCEPT
                                            !.dispatch = way]]
    /\ books' = [books EXCEPT ![r].moved = @ + n, ![Fresh] = Given(n)]
    /\ call' = OutdateAll(r)
    /\ UNCHANGED <<order, crossed, edits>>

\* createDispatch of batches: what leaves is decremented, whatever there is, and
\* becomes a batch in transit; only a return to HQ looks at the status.
Dispatch(r, n, way) ==
    /\ Exists(r) /\ Free # {} /\ r \notin Held
    /\ way = "return" => batch[r].status # "PACKAGED"
    /\ batch' = [batch EXCEPT ![r].quantity = @ - n,
                              ![Fresh] = [Child("transit", "IN_TRANSIT", r, n) EXCEPT
                                            !.dispatch = way]]
    /\ books' = [books EXCEPT ![r].moved = @ + n, ![Fresh] = Given(n)]
    /\ call' = OutdateAll(r)
    /\ UNCHANGED <<order, crossed, edits>>

\* A quantity the request does not name is that of the batch, or 1 if it has none.
Amounts(r) == Quantities \union {IF batch[r].quantity = 0 THEN 1 ELSE batch[r].quantity}

\* receiveDispatch, before its transaction: the order is not yet RECEIVED.
ReadForReceive(c, r, n) ==
    /\ batch[r].dispatch \in {"outward", "return"}
    /\ Begin(c, "receive", r, 0, n)

\* Its transaction: the batch is what was actually received; the books are
\* adjusted by the discrepancy.
CommitReceive(c) ==
    LET r == call[c].row  n == call[c].amount IN
    /\ At(c, "receive", "read") /\ r \notin Held
    /\ batch' = [batch EXCEPT ![r].quantity = n, ![r].dispatch = "RECEIVED",
                              ![r].status = CASE batch[r].dispatch = "return" -> "PACKAGED"
                                              [] batch[r].dispatch = "outward" -> "DELIVERED"
                                              [] OTHER -> @]
    /\ books' = IF call[c].outdated THEN books
                ELSE [books EXCEPT ![r].given = @ + n - batch[r].quantity]
    /\ crossed' = CrossedBy(c)
    /\ call' = Outdate(c, r)
    /\ UNCHANGED <<order, edits>>

-----------------------------------------------------------------------------
Next ==
    \/ Inward
    \/ \E r \in Rows : \E n \in Amounts(r), way \in {"outward", "return"} : Dispatch(r, n, way)
    \/ \E c \in Calls :
        \/ \E r \in Rows, n \in Quantities \union {0} :
              \/ ReadForOutput(c, r, n) \/ ReadForUpdate(c, r, n) \/ ReadForReceive(c, r, n)
        \/ \E r \in Rows : ReadForFinalize(c, r)
        \/ \E q \in Quantities : CommitOutput(c, q)
        \/ HoldSource(c) \/ CommitFinalize(c) \/ WriteBatch(c) \/ SyncInput(c)
        \/ CommitReceive(c) \/ Lose(c)

Spec == Init /\ [][Next]_vars

-----------------------------------------------------------------------------
\* No stock appears or vanishes: a batch holds what it was given, less what work
\* orders consumed, dispatches moved and finalizing wasted, as long as no
\* request overwrote what had changed since it read it.
StockConserved ==
    \A r \in Rows \ crossed :
        batch[r].quantity = books[r].given - books[r].consumed - books[r].moved - books[r].wasted

\* A work order's output quantity is the sum of its outputs, however many
\* requests record outputs at once: each holds the source batch while it adds up.
OutputsTotalled ==
    \A r \in Rows : order[r].status # "none" =>
        order[r].outputQuantity = Total(OutputsOf(r))

\* A CLOSED work order states the whole wastage of its batch, or below zero what
\* was overdrawn, unless requests crossed or an output reopened it.
WastageRecorded ==
    \A r \in Rows \ crossed :
        order[r].status = "CLOSED" => Max({order[r].wastageQuantity, 0}) = books[r].wasted

\* Nothing was dispatched from batch r.
Kept(r) == \A s \in Rows : batch[s].kind = "transit" => batch[s].parent # r

\* Requests that read the same remaining quantity can consume more than there
\* is, but by no more than all of them but one: each looked before its decrement.
\* (What is in transit holds whatever its dispatch took, below zero too.)
OverdrawBounded ==
    \A r \in Rows \ crossed :
        batch[r].kind # "transit" /\ Kept(r)
            => batch[r].quantity >= (1 - Cardinality(Calls)) * Max(Quantities)

\* An OPEN work order starts from what its batch was last given, once the second
\* statement of an edit is done.
InputFollows ==
    \A r \in Rows \ crossed :
        order[r].status = "OPEN" /\ ~Syncing(r) /\ Kept(r)
            => order[r].inputQuantity = books[r].given

\* A work order adds up: its input, its outputs and its wastage.
OrdersAddUp == InputFollows /\ OutputsTotalled /\ WastageRecorded
=============================================================================
