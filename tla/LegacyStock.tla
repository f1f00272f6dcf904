----------------------------- MODULE LegacyStock -----------------------------
(***************************************************************************)
(* The stock migration copies five tables of the legacy database, a page   *)
(* at a time, each table after the one it refers to.  It runs as a         *)
(* background job and from the schedule, which does not look at the job;   *)
(* the tables can be cleaned while it runs.  Runs that overlap share the   *)
(* driver's one pool of connections, which the end of any closes.  A       *)
(* statement of the new database that raises an error may have taken       *)
(* effect (its answer was lost) or not.  In every legacy table the         *)
(* rows are 1, 2, ...: line n belongs to header n, and assign line n to    *)
(* assign header n.  A page is one row.                                    *)
(***************************************************************************)
EXTENDS Integers, FiniteSets, FiniteSetsExt

CONSTANTS
    Runs,        \* runs that may overlap: the background job, the schedule
    Lookback,    \* those that look at the last days only
    MaxRows,     \* bound: rows of a legacy table
    MaxStarts,   \* bound: runs started
    MaxTroubles  \* bound: all that Trouble counts

ASSUME LegacyStockAssumption ==
    /\ IsFiniteSet(Runs) /\ Runs # {} /\ Lookback \subseteq Runs
    /\ MaxRows \in Nat \ {0}
    /\ MaxStarts \in Nat /\ MaxTroubles \in Nat

VARIABLES
    legacy,   \* rows the legacy tables have
    old,      \* headers outside the lookback window
    up,       \* the legacy database answers
    batches,  \* headers that have a FilmBatch row
    codes,    \* QRCode rows of each line, by the batch they are attached to
    orders,   \* DispatchOrder rows of each assign header
    items,    \* DispatchOrderItem rows of each assign line
    returns,  \* DispatchOrder rows of each reversal
    run,
    pool,     \* the pool sql.connect gives, by its number; 0 if it would make one
    conn,     \* the pool of each run; 0 if it is closed
    missed,   \* history: headers some run went past without a batch for them
    again,    \* history: inserts of each line that raised an error
    starts, troubles

targets == <<batches, codes, orders, items, returns>>
pools == <<pool, conn>>
bounds == <<again, starts, troubles>>
vars == <<legacy, old, up, targets, run, pools, missed, bounds>>

Rows == 1..MaxRows
Present == 1..legacy
OwnBatch == 0     \* a batch the new system made itself
NoBatch == -1
Batches == 0..MaxRows

\* map and ordersMap: the rows found in the database, by legacy id.  gone: the
\* tables were cleaned since.  clear, from: history, whether everything was
\* answered and how many legacy rows there were at the start.
RunStates == [pc: {"idle", "headers", "refresh", "lines", "orders", "items", "reversals"},
              last: 0..MaxRows, map: SUBSET Rows,
              fallback: Batches \union {NoBatch}, ordersMap: SUBSET Rows, gone: BOOLEAN,
              clear: BOOLEAN, from: 0..MaxRows]
NoRun == [pc |-> "idle", last |-> 0, map |-> {}, fallback |-> NoBatch,
          ordersMap |-> {}, gone |-> FALSE, clear |-> TRUE, from |-> 0]

TypeOK ==
    /\ legacy \in 0..MaxRows /\ old \subseteq Rows /\ up \in BOOLEAN
    /\ batches \subseteq Rows
    /\ codes \in [Rows -> [Batches -> Nat]]
    /\ orders \in [Rows -> Nat] /\ items \in [Rows -> Nat] /\ returns \in [Rows -> Nat]
    /\ run \in [Runs -> RunStates]
    /\ missed \subseteq Rows
    /\ pool \in 0..MaxStarts /\ conn \in [Runs -> 0..MaxStarts]
    /\ again \in [Rows -> Nat]
    /\ starts \in 0..MaxStarts /\ troubles \in 0..MaxTroubles

None == [n \in Rows |-> 0]
NoCodes == [n \in Rows |-> [h \in Batches |-> 0]]

Init ==
    /\ legacy = 1 /\ old = {} /\ up = TRUE
    /\ batches = {} /\ codes = NoCodes /\ orders = None /\ items = None /\ returns = None
    /\ run = [r \in Runs |-> NoRun]
    /\ pool = 0 /\ conn = [r \in Runs |-> 0]
    /\ missed = {} /\ again = None
    /\ starts = 0 /\ troubles = 0

Copies(n) == SumFunctionOnSet(codes[n], Batches)
OneMore(copies, S) == [n \in Rows |-> IF n \in S THEN copies[n] + 1 ELSE copies[n]]
Running(r) == run[r].pc # "idle"
Goto(r, pc) == run' = [run EXCEPT ![r].pc = pc, ![r].last = 0]
GiveUp(r, pc) == run' = [run EXCEPT ![r].pc = pc, ![r].last = 0, ![r].clear = FALSE]
Reach(r, n) == run' = [run EXCEPT ![r].last = n]

\* The legacy database answers this run.
Answers(r) == up /\ conn[r] # 0

\* An outage, an error raised by a statement of the new database, a clean, a pool
\* closed from outside, or a restart: counted, for the bound.
Trouble == troubles < MaxTroubles /\ troubles' = troubles + 1

\* A pool is closed, for all that use it; sql.connect will make a new one, even if
\* the one it would give is another.
Close(p) ==
    /\ pool' = 0
    /\ conn' = [r \in Runs |-> IF conn[r] = p THEN 0 ELSE conn[r]]

\* The end of a run, successful or not.
End(r) == run' = [run EXCEPT ![r] = NoRun] /\ Close(conn[r])

-----------------------------------------------------------------------------
\* startStockMigrationBackground, refused while its job runs, and the schedule's
\* call.  It takes the pool there is, or makes one; if the database does not
\* answer then, the run fails before it begins.  The batches that have a legacy id
\* are loaded.
Start(r) ==
    /\ ~Running(r) /\ starts < MaxStarts
    /\ starts' = starts + 1
    /\ up \/ pool # 0
    /\ pool' = IF pool = 0 THEN starts' ELSE pool
    /\ conn' = [conn EXCEPT ![r] = pool']
    /\ run' = [run EXCEPT ![r] = [NoRun EXCEPT !.pc = "headers", !.map = batches, !.from = legacy]]
    /\ UNCHANGED <<legacy, old, up, targets, missed, again, troubles>>

\* A statement of the new database between the steps raises an error: the run ends.
RunFails(r) ==
    /\ run[r].pc \in {"refresh", "items"} /\ Trouble
    /\ End(r)
    /\ UNCHANGED <<legacy, old, up, targets, missed, again, starts>>

Ahead(r) == run[r].last + 1 .. legacy

\* The headers ahead, less those the lookback window hides.
Seen(r) == {n \in Ahead(r) : r \notin Lookback \/ n \notin old}

\* Step 1, a page of headers: a header whose batch code another batch has, and a
\* batch that is there already, are skipped.
HeaderPage(r) ==
    /\ run[r].pc = "headers" /\ Answers(r)
    /\ \/ /\ Seen(r) # {}
          /\ batches' \in {batches, batches \union {Min(Seen(r))}}
          /\ missed' = missed \union (run[r].last + 1 .. Min(Seen(r)) \ batches')
          /\ Reach(r, Min(Seen(r)))
       \/ /\ Seen(r) = {}
          /\ missed' = missed \union (Ahead(r) \ batches)
          /\ Goto(r, "refresh")
          /\ UNCHANGED batches
    /\ UNCHANGED <<legacy, old, up, codes, orders, items, returns, pools, bounds>>

\* Fault: a page of headers that fails after the first is tried again.
HeaderPageRetries(r) ==
    /\ run[r].pc = "headers" /\ ~Answers(r) /\ run[r].last = 0
    /\ missed' = missed \union (Present \ batches)
    /\ GiveUp(r, "refresh")
    /\ UNCHANGED <<legacy, old, up, targets, pools, bounds>>

\* A page that fails, or its insert, ends the step; the migration goes on without
\* the rest.
HeaderPageFails(r) ==
    /\ run[r].pc = "headers"
    /\ \/ ~Answers(r) /\ UNCHANGED <<batches, troubles>>
       \/ /\ Answers(r) /\ Trouble /\ Seen(r) # {}
          /\ batches' \in {batches, batches \union {Min(Seen(r))}}
    /\ missed' = missed \union (Ahead(r) \ batches')
    /\ GiveUp(r, "refresh")
    /\ UNCHANGED <<legacy, old, up, codes, orders, items, returns, pools, again, starts>>

\* Some batch, for the lines whose header has none.
Fallbacks == IF batches = {} THEN {OwnBatch, NoBatch} ELSE batches

\* Fault: the map is the one loaded at the start.
RefreshNothing(r, fallback) ==
    /\ run[r].pc = "refresh"
    /\ run' = [run EXCEPT ![r].pc = "lines", ![r].last = 0, ![r].fallback = fallback]
    /\ UNCHANGED <<legacy, old, up, targets, pools, missed, bounds>>

\* The map is loaded again, with the batches just made.
Refresh(r, fallback) ==
    /\ run[r].pc = "refresh"
    /\ run' = [run EXCEPT ![r].pc = "lines", ![r].last = 0,
                          ![r].map = batches, ![r].fallback = fallback]
    /\ UNCHANGED <<legacy, old, up, targets, pools, missed, bounds>>

-----------------------------------------------------------------------------
\* Where line n goes: to its header's batch, or else to the fallback.
Target(r, n) == IF n \in run[r].map THEN n ELSE run[r].fallback

\* Fault: the page that is not full ends the step, its rows unread.
LinePageShort(r) ==
    LET n == run[r].last + 1 IN
    /\ run[r].pc = "lines" /\ Answers(r)
    /\ \/ /\ n < legacy
          /\ codes' = IF run[r].gone \/ Target(r, n) = NoBatch THEN codes
                      ELSE [codes EXCEPT ![n][Target(r, n)] = @ + 1]
          /\ Reach(r, n)
       \/ n >= legacy /\ Goto(r, "orders") /\ UNCHANGED codes
    /\ UNCHANGED <<legacy, old, up, batches, orders, items, returns, pools, missed, bounds>>

\* Fault: the loop goes on for one line more than there is.
LinePageTooFar(r) ==
    LET n == run[r].last + 1 IN
    /\ run[r].pc = "lines" /\ Answers(r)
    /\ n <= legacy + 1 /\ Reach(r, n)
    /\ UNCHANGED <<legacy, old, up, targets, pools, missed, bounds>>

\* Step 2, a page of lines: one more QRCode row of each, skipped only when there
\* is no batch to attach it to, or no longer.
LinePage(r) ==
    LET n == run[r].last + 1 IN
    /\ run[r].pc = "lines" /\ Answers(r)
    /\ \/ /\ n <= legacy
          /\ codes' = IF run[r].gone \/ Target(r, n) = NoBatch THEN codes
                      ELSE [codes EXCEPT ![n][Target(r, n)] = @ + 1]
          /\ Reach(r, n)
       \/ n > legacy /\ Goto(r, "orders") /\ UNCHANGED codes
    /\ UNCHANGED <<legacy, old, up, batches, orders, items, returns, pools, missed, bounds>>

\* The bulk insert raises an error, and the rows are inserted again one by one,
\* passing over those that raise an error, too: up to two new rows of the line.
LineInsertFails(r) ==
    LET n == run[r].last + 1
        h == Target(r, n)
    IN
    /\ run[r].pc = "lines" /\ Answers(r) /\ n <= legacy
    /\ h # NoBatch /\ ~run[r].gone /\ Trouble
    /\ again' = [again EXCEPT ![n] = @ + 1]
    /\ \E rows \in 0..2 :
          /\ codes' = [codes EXCEPT ![n][h] = @ + rows]
          /\ run' = [run EXCEPT ![r].last = n, ![r].clear = @ /\ rows > 0]
    /\ UNCHANGED <<legacy, old, up, batches, orders, items, returns, pools, missed, starts>>

\* Fault: after a failure the lines are read from the first one again.
LinePageRestarts(r) ==
    /\ run[r].pc = "lines" /\ ~Answers(r)
    /\ Reach(r, 0)
    /\ UNCHANGED <<legacy, old, up, targets, pools, missed, bounds>>

\* A page that fails ends the step only if it is the first one; after that the
\* run asks for the same page again, until it is answered.
LinePageFails(r) ==
    /\ run[r].pc = "lines" /\ ~Answers(r) /\ run[r].last = 0
    /\ GiveUp(r, "orders")
    /\ UNCHANGED <<legacy, old, up, targets, pools, missed, bounds>>

-----------------------------------------------------------------------------
\* Step 3, the assign headers, or none.  Then the dispatch orders that have a
\* legacy id are loaded.
ToItems(r, clear) ==
    run' = [run EXCEPT ![r].pc = "items", ![r].clear = clear,
                       ![r].ordersMap = {n \in Rows : orders'[n] > 0}]

OrderPage(r) ==
    /\ run[r].pc = "orders" /\ Answers(r)
    /\ orders' = OneMore(orders, Present)
    /\ ToItems(r, run[r].clear)
    /\ UNCHANGED <<legacy, old, up, batches, codes, items, returns, pools, missed, bounds>>

OrderPageFails(r) ==
    /\ run[r].pc = "orders"
    /\ \/ ~Answers(r) /\ UNCHANGED <<orders, troubles>>
       \/ Answers(r) /\ Trouble /\ orders' \in {orders, OneMore(orders, Present)}
    /\ ToItems(r, FALSE)
    /\ UNCHANGED <<legacy, old, up, batches, codes, items, returns, pools, missed, again, starts>>

Known(r) == IF run[r].fallback = NoBatch THEN {} ELSE Present \intersect run[r].ordersMap

\* Step 4, the assign lines: an item for those whose order is known, all of the
\* fallback batch.  If that or an order is gone, the insert fails.
ItemPage(r) ==
    /\ run[r].pc = "items" /\ Answers(r)
    /\ \/ /\ Known(r) = {} \/ ~run[r].gone
          /\ items' = OneMore(items, Known(r))
          /\ Goto(r, "reversals")
       \/ Known(r) # {} /\ run[r].gone /\ GiveUp(r, "reversals") /\ UNCHANGED items
    /\ UNCHANGED <<legacy, old, up, batches, codes, orders, returns, pools, missed, bounds>>

ItemPageFails(r) ==
    /\ run[r].pc = "items"
    /\ \/ ~Answers(r) /\ UNCHANGED <<items, troubles>>
       \/ /\ Answers(r) /\ Trouble /\ Known(r) # {} /\ ~run[r].gone
          /\ items' \in {items, OneMore(items, Known(r))}
    /\ GiveUp(r, "reversals")
    /\ UNCHANGED <<legacy, old, up, batches, codes, orders, returns, pools, missed, again, starts>>

\* Step 5, all reversals at once, or none; then the run is logged as SUCCESS.
Reversals(r) ==
    /\ run[r].pc = "reversals"
    /\ \/ Answers(r) /\ returns' = OneMore(returns, Present) /\ UNCHANGED troubles
       \/ ~Answers(r) /\ UNCHANGED <<returns, troubles>>
       \/ Answers(r) /\ Trouble /\ UNCHANGED returns
    /\ End(r)
    /\ UNCHANGED <<legacy, old, up, batches, codes, orders, items, missed, again, starts>>

-----------------------------------------------------------------------------
\* cleanData("stock") truncates the tables in one statement.  Runs under way keep
\* the ids they have loaded.
Clean ==
    /\ Trouble
    /\ batches' = {} /\ codes' = NoCodes /\ orders' = None /\ items' = None /\ returns' = None
    /\ missed' = missed \union
           UNION {IF run[r].pc = "headers" THEN 1..run[r].last
                  ELSE IF run[r].pc = "refresh" THEN Present ELSE {} : r \in Runs}
    /\ run' = [r \in Runs |->
                  IF run[r].pc \in {"idle", "headers", "refresh"}
                  THEN [run[r] EXCEPT !.clear = FALSE]
                  ELSE [run[r] EXCEPT !.clear = FALSE, !.gone = TRUE]]
    /\ UNCHANGED <<legacy, old, up, pools, again, starts>>

\* The server restarts: the runs are gone, and nothing resumes them.
Crash ==
    /\ \E r \in Runs : Running(r)
    /\ Trouble
    /\ run' = [r \in Runs |-> NoRun]
    /\ pool' = 0 /\ conn' = [r \in Runs |-> 0]
    /\ UNCHANGED <<legacy, old, up, targets, missed, again, starts>>

\* Another migration, or a test of the connection, ends: it closes its pool, which
\* is the one the runs use or one closed before.
PoolClosed ==
    /\ pool # 0 /\ Trouble
    /\ \/ Close(pool)
       \/ pool' = 0 /\ UNCHANGED conn
    /\ UNCHANGED <<legacy, old, up, targets, run, missed, again, starts>>

\* The legacy system goes on: a new header with its line and its assignment.
\* The older ones may have left the lookback window by then.  A run that is past
\* the headers will still read the line.
LegacyGrows ==
    /\ legacy < MaxRows
    /\ legacy' = legacy + 1
    /\ old' \in {old, Present}
    /\ missed' = IF \E r \in Runs : run[r].pc \in {"refresh", "lines"}
                 THEN missed \union {legacy + 1} ELSE missed
    /\ UNCHANGED <<up, targets, run, pools, bounds>>

LegacyFails ==
    /\ up /\ Trouble
    /\ up' = FALSE
    /\ UNCHANGED <<legacy, old, targets, run, pools, missed, again, starts>>

LegacyRecovers ==
    /\ ~up /\ up' = TRUE
    /\ UNCHANGED <<legacy, old, targets, run, pools, missed, bounds>>

-----------------------------------------------------------------------------
\* What a run does by itself.
Progress(r) ==
    \/ HeaderPage(r) \/ HeaderPageFails(r)
    \/ \E f \in Fallbacks : Refresh(r, f)
    \/ LinePage(r) \/ LineInsertFails(r) \/ LinePageFails(r)
    \/ OrderPage(r) \/ OrderPageFails(r)
    \/ ItemPage(r) \/ ItemPageFails(r)
    \/ Reversals(r) \/ RunFails(r)

Next ==
    \/ \E r \in Runs : Start(r) \/ Progress(r)
    \/ Clean \/ Crash \/ PoolClosed
    \/ LegacyGrows \/ LegacyFails \/ LegacyRecovers

Spec == Init /\ [][Next]_vars /\ \A r \in Runs : WF_vars(Progress(r))

-----------------------------------------------------------------------------
\* A QRCode row is attached to the batch of its own header, unless some run went
\* past that header without a batch for it: a page failed, the lookback window
\* hid it, another batch had its code, the line came after the headers were read,
\* or a clean removed it.
CodesFollowHeaders ==
    \A n \in Rows, h \in Batches : codes[n][h] > 0 /\ h # n => n \in missed

\* A run copies a row at most once, whatever pages fail and are asked for again,
\* except that an insert of lines that raised an error may have made the rows that
\* are then inserted one by one.  From run to run the copies add up.
CopiesBounded ==
    \A n \in Rows :
        /\ Copies(n) <= starts + again[n]
        /\ orders[n] <= starts /\ items[n] <= starts /\ returns[n] <= starts

\* A run that reports its success after everything was answered has copied each
\* line, assign header and assign line there was when it started, as long as
\* there was a batch to attach them to.
CompleteWhenClear ==
    [][\A r \in Runs :
          run[r].pc = "reversals" /\ run'[r].pc = "idle"
              /\ run[r].clear /\ run[r].fallback # NoBatch
          => \A n \in 1..run[r].from : Copies(n) > 0 /\ orders[n] > 0 /\ items[n] > 0]_vars

\* A run ends, and with it the job that refuses others: neither an outage of the
\* legacy database nor a pool closed under it can hold it, except among the lines.
RunsEnd ==
    \A r \in Runs : Running(r) ~> ~Running(r) \/ (run[r].pc = "lines" /\ ~Answers(r))
=============================================================================
