# FlashgardPro CRM: a verification project

FlashgardPro is a distributor CRM for protective-film cutting: a NestJS/Prisma/PostgreSQL backend
(`src/backend`), a Flutter application that drives plotters over USB and Bluetooth (`src/mobile`), and a React
front end (`src/flashgard-monorepo/apps/frontend`). Organizations form a tree of dealers; each holds licenses and a
wallet of *cut credits*, buys credits through a payment gateway, moves them to other organizations, and pays one
credit per film cut on a plotter. This directory holds TLA+ models of the parts where state is shared,
the TLC configurations that check them, and TLAPS proofs about them.

## 1. Inventory

| Part | State | Operations | What is hard |
|---|---|---|---|
| Machine cuts (`machine-cuts.service.ts`) | `MachineCutLog` rows; the wallet; signed cut tokens | `validateCut`, `logCut`, queries | token outlives what it says; balance checked and decremented in two statements; log and charge must stay together |
| Recharge (`recharge.service.ts`) | `RechargePackage`, `PaymentTransaction`; wallet, `CutCredit`, `CreditTransaction` | `createOrder`, `verifyPayment`, `handleWebhook`, package and gateway administration | client and gateway call back for the same order, in parallel, repeatedly or never; packages edited meanwhile |
| Cut credits (`cut-credits.service.ts`) | the same rows | `issueCutCredits`, `dispatch`, queries | three tables change together; checks before the lock |
| Licenses (`licenses.service.ts`, `background-tasks.service.ts`, `plotter-devices.service.ts`) | `OrgLicense`, `LicensingTransfer`, `SecurityAlert` | issue, activate, dispatch, `updateStatus`, restart reset, nightly expiry, `bindDevice`, first login; accept/reject/recall of a transfer, always refused because no code writes a `PENDING` transfer | every request reads a license with one statement and overwrites it by id with another; a restart overwrites statuses |
| Inventory (`inventory.service.ts`) | `FilmBatch`, `WorkOrder`, `WorkOrderOutput`, `DispatchOrder`, QR codes, returns | about 40 handlers; those that move quantities are inward, `addWorkOrderOutput`, `finalizeWorkOrder`, `updateBatch`, `createDispatch`, `receiveDispatch` | the batch is read before the transaction that writes it; some writes are increments, some absolute; sequence numbers counted, then allocated |
| Organizations (`organizations.service.ts`) | the organization tree | create, `update` (moves), remove, `onboardRetailer`, `getDescendantOrgIds`, `canAccessOrg` | moves that make cycles; access computed from the tree |
| Migration schedule (`migration-schedule.service.ts`) | two JSON files, the settings with `lastStatus` and the log, and both in memory | update settings, run now, cron tick, background run | a crash between "RUNNING" and the outcome; errors of the writes, which are only logged |
| Legacy migration (`migration.service.ts`) | copies a legacy SQL Server database; two in-memory jobs (`stockMigrationJob`, `dbMigrationJob`) | `migrateStockFromSqlServer`, `migrateCutCredits`, `migrateUsers` and other `migrate…` steps, `dbRun`, `cleanData` | hours of single statements that fail one by one; repeated over what earlier runs made; two entries that do not see each other |
| Mobile plotter service (`plotter_service.dart`) and the two cut screens | connection type, cut timer, cancel flag, the screen's cut token | connect, disconnect, `cutFile`, `reset`; validate, commit and abort of a token | one service for all screens: awaits that a second cut or a reset leaves hanging |
| Android host (`MainActivity.kt`) | sockets, streams, USB device, connection type | connect, disconnect, `cutFile` and `reset`, each on a thread of its own | threads are not stopped by a reset, a disconnect or the back button; one reconnect in mid-drawing |
| Auth, roles, permissions | users, roles, permissions | login, refresh, role update, permission guard | role update is not a transaction |
| Catalogue and master data, users, contacts, addresses, audit log, plotter registry, mobile home | one table each | create, read, update, delete | nothing shared beyond single rows |
| Vendored Bluetooth SDK, web front end, scripts | none of their own | | a binary; presentation |

How they interact: the services share tables, not calls. `recharge`, `machine-cuts`, `cut-credits`, `licenses`,
`plotter-devices`, `auth` and `migration` all write `EntityWallet` rows; `recharge`, `cut-credits`, `organizations` and `migration`
write `CutCredit` rows; license status gates `validateCut` and `createOrder`. The database runs READ COMMITTED:
every statement of a Prisma transaction sees what is committed when it runs, an `{ increment }` applies to the
committed row and holds its lock to the end of the transaction. The phone talks to the backend with cut tokens
(`validateCut`, `logCut`) and to the plotter through one method channel between `PlotterService` and `MainActivity`.
The schedule calls the stock migration and the database job in process; all migrations use `mssql`'s one global pool
of connections, and each closes it at its end.

What makes each part correct:

- *Machine cuts*: what is logged as due is charged and nothing else; simultaneous cuts overdraw a wallet by a known
  amount at most.
- *Recharge*: captured money reaches wallet, order and `CutCredit` rows together, once per order if calls do not overlap,
  and eventually even if calls die.
- *Cut credits*: the three counters of a wallet agree with its `CreditTransaction` rows; rows never go negative;
  transfers conserve credits.
- *Licenses*: a license is held by the last receiver; its transfers form a line; it changes device only with an alert.
- *Organizations*: what a user may see is exactly the user's subtree; downward and upward walks agree; they end.
- *Migration schedule*: one run at a time, due runs take place, and what the file brings back after a restart does not stop them.
- *Inventory*: what is in the batches is what was received less what was consumed, wasted and dispatched, unless a
  request wrote over what it had not seen; a work order adds up to its outputs; sequence numbers are unique.
- *Plotter*: a credit is taken only for a drawing that was written in full; a cut stopped in its countdown is not paid
  for; every `cutFile` is answered, and its token settled.
- *Legacy migration*: a grant is credited once however often it is imported; a row is copied once per run, failed inserts aside; a
  run that reports success has reached everything; a run ends.
- *Roles*: a role is never seen without its permissions.

## 2. Plan

Done, in this order, the most important behaviour (credits and money) first:

1. `OrgAccounts`: the rows every credit service shares.
2. `Recharge` with the abstract `PaymentPromise` and the refinement `RechargePromise`.
3. `MachineCuts`, and `CutCredits`; `CreditLedger` composes 2 and 3.
4. `MigrationSchedule` and `MigrationScheduleProofs`.
5. `Licenses` and `LicensesProofs`.
6. `OrgTree` and `OrgTreeProofs`.
7. `PlotterCut`: the two cut screens, the plotter service and the Android threads, with the cut token they settle.
8. `SumLemmas`: sums over finite sets, which the quantities of all that follows are.
9. `CreditLedgerProofs`: each credit service alone, then all of them together, and the phone that spends the credits.
10. `FilmStock` and `FilmStockProofs`: film batches, work orders and dispatch orders.
11. `LegacyStock` and `LegacyCredits` with `LegacyStockProofs` and `LegacyCreditsProofs`: the two migrations that are
    repeated, overlap and can be cleaned away.

Left, in this order: `QrSequence` (`generateQRCodes`: count, then allocate, with its limit of 1,000,000); the QR paths of
`createDispatch` and `receiveDispatch`; the uploaded stock files of the migration; `Roles` (a role update outside a
transaction and what a guard reads meanwhile); `onboardRetailer` as an action of `CreditLedger`. Of the proofs:
`FilmStock` implementing an abstract stock account with one atomic step per request where no requests cross, and
`LegacyCredits` implementing a ledger that credits each grant once, so that the books they keep as history become
refinements.

## 3. Modules and code

One TLA+ action is one atomic step of the code: for a Prisma transaction each read that later steps depend on is an
action that stores what it saw in a record of the request, and the commit is one action that applies all its writes; for
the Node-only scheduler it is a handler up to its next `await`; on the phone it is what runs on one thread between two
things another thread or the user can see. A request can die at any point before its commit
(`LoseCall`, `LoseCut`, `LoseCredit`, `Drop`), which leaves nothing behind.

| Module | Code | State and actions |
|---|---|---|
| `OrgAccounts` | `schema.prisma` and the steps of other services | `wallet`, `journal` (`CreditTransaction` rows summed by kind), `lots` (`CutCredit` rows of an owner, with and without a license), `license`, `plan`, `locked` (row locks). `ActivateLicense`, `BindDevice`, `SetLicenseStatus`, `PlanEnds` |
| `Recharge` | `recharge.service.ts` | `package`, `order`, `call`. `CreateOrder`, `UpdatePackage`, `Pay` (the gateway), and for `verifyPayment` and the webhook, which run the same transaction: `ReadOrder`, `UpdateStatus` (takes the order's row lock, reads wallet and license), `CreditOrder`, `LoseCall` |
| `PaymentPromise`, `RechargePromise` | what verifying a payment promises | an order for a package is opened and paid; what the package is worth is put down for it once it is paid (`Quote`), may be given up (`GiveUp`), and is added to the buyer's wallet in the step that settles it, once; packages are edited at any time. The mapping from `Recharge`: an order is quoted while a transaction runs for it, and its quote is the `credits` that transaction read |
| `MachineCuts` | `machine-cuts.service.ts` | `token`, `cutCall`, `logs`. `CheckLicenseAndWallet` and `IssueToken` are `validateCut`; `LogFree`, `ReadBalance`, `ChargeCut` are `logCut` |
| `CutCredits` | `cut-credits.service.ts` | `creditCall`. `IssueCutCredits`; `dispatch` is `CheckBalance`, `CheckUnassigned`, `TakeWallet` (lock, then read rows), `CommitDispatch` |
| `CreditLedger` | the three services on one database | no state of its own: the steps of the three interleave |
| `MigrationSchedule` | `migration-schedule.service.ts`, `SettingsPage.tsx` | `settings`, `disk`, `logs`, `logDisk`, `run`, `page`, and `stale`: the settings were last written with an error. `SavePage`, `Tick`, `TriggerMigration`, `StockDone`, `DesignsDone`, `RunFails`, `Restart…` |
| `Licenses` | `licenses.service.ts`, `background-tasks.service.ts`, `plotter-devices.service.ts`, `auth.service.ts` | `license`, `trail` (transfers), `alerts`, `call`. `Issue`, `Dispatch`/`CommitDispatch`, `Activate` and `Bind` with `CommitBind`, `Login`/`FindLicense`/`Enter`, `UpdateStatus`, `CheckExpiries`, `Restart` |
| `OrgTree` | `organizations.service.ts`, `hierarchy.util.ts` | `made`, `parent`, `treeCall`. `StartList`/`ListLevel` (`getDescendantOrgIds`), `StartClimb`/`ClimbParent` (`canAccessOrg`), `StartRoute`/`RouteParent` (`resolveTransferPath`), `MoveOrg`, `CreateOrg`, `UpdateListed`, `CreateListed` |
| `PlotterCut` | `plotter_service.dart`, `cut_selection_screen.dart`, `diy_designer_screen.dart`, `MainActivity.kt` | `pc` of each cut, `dartType`, `cancelled`, `timers` and `timerRef` of the service, `link`, `stream` and `nativeType` of the host, `received` and `doubt` of the drawing, `settled` of the token. `StartCut`, `Validate`, `Download`, `BeginCut`, `SendChunk`, `ReconnectClassic`, `SendFails`, `SendDone`, `Tick`, `Commit`, `Abort`; `Reset`/`FinishReset`, `LeaveScreen`, `Connect…`, `Disconnect`, `LinkBreaks`, `PlugIn` |
| `FilmStock` | `inventory.service.ts` | `batch`, `order`, `call`. `Inward`; `ReadForOutput`/`HoldSource`/`CommitOutput`, `ReadForFinalize`/`CommitFinalize`, `ReadForUpdate`/`WriteBatch`/`SyncInput`, `ReadForReceive`/`CommitReceive`; `Dispatch`; `Lose` |
| `LegacyStock` | `migration.service.ts` | rows of five tables, `run`, the shared `pool` and what each run has of it (`conn`), `again`: the inserts of a line that raised an error. `Start`, then per step a page and its failure: `HeaderPage`, `Refresh`, `LinePage` and `LineInsertFails`, `OrderPage`, `ItemPage`, `Reversals`, `RunFails`; `Clean`, `Crash`, `PoolClosed`, and the legacy database that grows, fails and recovers |
| `LegacyCredits` | `migration.service.ts` | `owner` and `backed` (rows), `wallet`, `credited` and `deducted` (transactions), `run`, `clean`. `Start`, `FindGrant`, `ImportGrant`, `LoseGrant`, `UpdateGrant`, `Finish`; the four statements of a clean; `ImportDealer`, `Crash` |

Definitions whose comment begins with *Fault:* are not part of any specification: they are plausible mistakes in the
definition that follows them, kept to show which property notices each.

What the models abstract:

- Amounts are whole and positive. `dispatch` refuses others; `issueCutCredits` checks nothing, and the models grant what
  the front end's form sends, not negative or missing amounts.
- `journal` keeps sums, not rows. `lots` keeps, per owner, the sum of rows with and without a license; how `dispatch`
  spreads a deduction over several rows is abstracted to what they give together.
- `dispatch` reads the sender's rows, and whether the receiver has a wallet, after it has locked the sender's wallet; the
  model reads the rows at the lock and finds the receiver's wallet at the commit.
- Verification of gateway signatures is abstracted to `paid`: only a captured payment can be verified.
- `OrgAccounts` sees of a license only what the credit services test; `REVOKED`, `SUSPENDED`, `EXPIRED` and `IN_TRANSIT`
  are "barred", and activation and `bindDevice` are single steps. `Licenses` has the statuses (`IN_TRANSIT`, which no
  code writes but an administrator can set, stands with `SUSPENDED`) and both statements; the wallets that activation
  creates are in `OrgAccounts` only. A binding writes back what it read of the device for whatever its request does not
  send, so one without a hash can take the license back to an older device or to none; an activation without a hash
  leaves the stored one (Prisma skips `undefined`).
- A license transfer is recorded in `Licenses` end to end; through which organizations it is recorded is `RouteExact`
  of `OrgTree`.
- `remove` of an organization only marks its row, so rows do not disappear from the tree.
- In the scheduler, the twelve modules a run lists and does not migrate are left out, `IDLE` stands for the statuses
  treated alike (`IDLE`, `SUCCESS`, `FAILED`; the log keeps them apart), and the frequency and time of day are whether
  `nextRunAt` is null, in the future or past. A file torn by a crash or by an error of the write loads as the defaults;
  an error may also leave it as it was. The settings page posts the whole object it loaded; all but `lastStatus` is
  replaced by the edits or by the handler, so the status is what the model keeps of it. A run logs `SUCCESS` as soon as `dbRun("designs")` has started its job, or was refused.
- In `PlotterCut` a drawing is its number of chunks, and a countdown its last tick. The host gets no acknowledgement, so
  a chunk that was written is either on a Bluetooth connection that still holds (`received`) or in `doubt`: written to a
  connection that was broken, or broke or was closed while the cut was under way, or over USB, where the count a
  transfer returns is not read (`MainActivity.kt:1370`). Writes to a broken socket may go well for a while. What becomes
  of chunks in doubt is left open; after the token is settled it is not followed. `CutTransactionService`, which
  passes the token to the backend, is not in the repository; the model takes from its callers that a token is validated,
  committed or aborted, and that a validation can fail. The two cut screens do the same things and are one.
- In `FilmStock` units are whole, a work order consumes one source unit per output unit, and a batch is a row with its
  work order in it. A return to headquarters is a dispatch that a batch just inward or packaged is refused. QR codes are
  left out: the branch for batches without them is modelled.
- In `LegacyStock` a page is one row, except where the rows of a table are read after everything they refer to is known
  (orders, items, reversals), where it is the table. Line *n* belongs to header *n*. Whether another batch has a
  header's `PackOfQRNo` is chosen freely, page by page. A statement of the new database that raises an error may have
  taken effect or not; after one that inserts lines, the rows inserted one by one may each be there once more or not.
  `mssql`'s pool is external: `sql.connect` gives the one there is, closing any makes the next call make a new one, and
  a query on a closed pool fails.
- In `LegacyCredits` every grant has the same allocation and every dealer the same usage; rows of zero credits, which
  touch no wallet, are left out, as is what the new system spends meanwhile.

## 4. Runs

| Run | Module | What it shows |
|---|---|---|
| `recharge_safety` | `Recharge` | Two orders, two simultaneous calls, package edits, one death: wallet, order and rows are credited together (`RechargesAccounted`), over-crediting is bounded by the overlap (`OvercreditBounded`), captured money is credited in the end (`PaidIsCredited`) |
| `recharge_serial` | `RechargePromise` | With one call at a time, repeated and dying, recharge implements `PaymentPromise`: an order is settled once, with what its own package was worth when the settling transaction read it, also when the package is edited meanwhile |
| `cuts_safety` | `MachineCuts` | Three simultaneous `logCut` calls under two tokens: logged and charged together (`CutsChargedExactly`), overdraft bounded (`OverdraftBounded`) |
| `credits_safety` | `MCCutCredits` | Two overlapping transfers with grants and cuts: rows stay covered (`RowsCovered`), transfers conserve credits (`TransfersConserved`), and a dispatch takes what it sends out of the sender's rows, or all that overlapping ones have left there, so that no organization's rows back less than its wallet was given (`RowsTakenInFull`) |
| `ledger` | `CreditLedger` | All services on the same rows: counters and journal agree (`LedgerBalanced`), joint overdraft is bounded (`JointOverdraftBounded`) |
| `schedule_safety` | `MigrationSchedule` | Overlap of runs bounded by page saves (`OverlapBounded`), a log entry tells what its run asked for (`LogTellsRun`), `RUNNING` is left without a run only by a page that writes it back, or by a restart during a run or after a failed write (`WedgedOnlyBySavesAndRestarts`), due runs take place unless that has happened or a stock migration never ends (`DueRunsUnlessWedged`) |
| `licenses` | `MCLicenses` | Overlapping dispatches, activations, bindings, logins, with administrators, expiry and a restart: `HeldByLastReceiver`, `TrailUnbroken`; a device changes only with an alert, and is never forgotten, unless the alert could not be written or another request bound the license meanwhile (`MovesAlerted`); and a revocation undone only by those who may or by a request that had read the license before (`RevocationUndone`) |
| `org_tree` | `OrgTree` | The walks over a tree that is changed meanwhile: `ListExact`, `ClimbExact`, `RouteExact`, and `ReadsEnd` under fairness |
| `plotter` | `PlotterCut` | Two cuts, by Bluetooth or USB, with a reset, a broken link, a pulled cable, the back button: a token is committed only if every chunk was written without an error, so that none is skipped by a reconnect, and only chunks in doubt can be missing on the plotter (`ChargedIsCut`); each cut is settled unless its timer was taken, which only a reset or another cut does (`CutsReported`); a cut that a reset met while it was sent or counted down is not committed (`StoppedNotCharged`), except two kinds the code does charge: cuts without a countdown (USB, SDK, or a type the service has forgotten), and cuts that had not looked at the flag when a later `cutFile` cleared it |
| `film_stock` | `MCFilmStock` | Two requests that overlap each other and dispatches: quantities are what was given less what was consumed, moved and wasted, unless a stale absolute write crossed them (`StockConserved`); the input, total of outputs and wastage of a work order (`OrdersAddUp`); how far outputs can overdraw a batch nothing was dispatched from (`OverdrawBounded`) |
| `legacy_stock` | `LegacyStock` | Two runs that share a pool, new rows, taken batch codes, and an outage, a failed insert, a clean, a pool closed from outside or a restart: where codes end up (`CodesFollowHeaders`), copies per run (`CopiesBounded`), what a success means (`CompleteWhenClear`), and that a run ends unless it is among the lines and gets no answers (`RunsEnd`) |
| `legacy_credits` | `MCLegacyCredits` | Three runs of which two overlap, a lost transaction, a clean that is interrupted or meets an import: each grant is credited once, wallets match their transactions and usage is deducted once per run at most (`CreditsAddUp`); what moves rows without credits (`RowsFollowCredits`); what a run reaches (`RunsCoverGrants`) |

The type invariants of `Recharge`, `MachineCuts`, `CutCredits`, `Licenses`, `OrgTree` and `PlotterCut` are proved and in
no run. `OverdraftBounded` is the bound for simultaneous cuts in `cuts_safety`, `JointOverdraftBounded` the one
of cuts and transfers together in `ledger`.

No run checks for deadlock: users, administrators and the gateway are not obliged to do anything, so a state in which
every bound is reached and every request is answered has no successor and is a proper end.

Bounds, and why they are enough:

- *Organizations*: two (a top-level one that is also the distributor, and a shop) give sender and receiver, buyer and
  owner of rows, and transfers to oneself. `cuts_*` need one, because `MachineCuts` relates nothing across organizations.
  `org_tree` has four: a root, two on a line below it and one beside, and cycles of length one to four.
- *Calls in flight*: two for recharge, transfers and licenses: every race in the code is between a pair. Three for cuts,
  where the bound depends on the number. One in `recharge_serial`, by its question, and one of each kind in `ledger`,
  whose question is the interleaving of different services. One in `org_tree`: requests do not read what other requests
  keep, and moves by others are actions without a request.
- `MaxTotal` bounds what a wallet is ever credited. It is 9 in `recharge_safety`, more than all overlapping credits of two
  orders of at most two credits together with a starting balance can reach, so the bound never stands in the way of
  `PaidIsCredited`. It is 1 in `ledger`, where one credit that several services race for is the interesting case, and 2
  or 3 in the runs that spend and move credits.
- `MaxLost`, `MaxCrashes`, `MaxRestarts` are 1: a second death finds the same states as the first, because a death leaves
  only what was committed.
- `MaxFree` bounds the rows logged without charge, which nothing else depends on; `KeptLogs` is 1 where the code keeps
  100, so that the cut is met; `MaxEdits` is 1 and there are two slots for runs, one more than pages can let in.
- One license with two device hashes and two transfers: nothing in the code relates two licenses except `dispatch` and
  `issue`, which treat a set of them alike. `MCLicenses` declares requests and hashes symmetric: no definition
  distinguishes them, and the run checks no liveness.
- `plotter`: two cuts, because everything they share is shared by two; two chunks, so that a link can break before,
  between and after; one broken link, because the code reconnects once per cut and the second break ends it; one
  reset. The vendor SDK is modelled as a third transport but left out of the run: it has no state the others lack,
  and with the two the run has a million states.
- `film_stock`: three rows hold a source, an output and what is in transit from either; two requests, for pairs; a
  delivery of two, so that outputs of one can share it and outputs of two cannot.
- `legacy_stock`: two rows make a first page and a later one, between which the code distinguishes; two runs, one of which
  looks back only some days. `MaxTroubles` is 1: one outage, error, clean, closed pool or restart in a behaviour, at any
  point; what the end of one run does to the pool of the other is not counted. With two troubles the run has 8.7 million
  states and takes longer than its share; the safety properties are proved for any number.
- `legacy_credits`: two dealers with two grants, of one dealer or of both; three starts, so that a run can follow two
  that overlapped. Usage exceeds an allocation, so that wallets below zero are met.
- `MaxClimb` is 3 where the code has 20, so that the path of four organizations meets it; `MaxChanges` of 5 builds a tree
  of four and moves twice.

Fairness is assumed only where the code's own machinery acts. In `Recharge`: a transaction that has begun goes on or is
rolled back, and the gateway delivers its webhook for a paid order until it is acknowledged; a webhook whose transaction
dies throws and is not acknowledged, so it comes again. In `MigrationSchedule`: the interval timer fires, time passes, and the
migration of designs returns or fails; the migration of the stock need not, because it asks for a page of lines again
for as long as it fails (`migration.service.ts:4648`). In `OrgTree`: a handler that has begun executes its next statement.
In `PlotterCut`: a thread goes on writing or fails, a timer ticks, an awaited call is answered. In `LegacyStock`: a run goes
on after each statement, answered or not; neither that the legacy database recovers nor that a closed pool is replaced is
assumed.
Administrators, customers and devices are never obliged to act.

Seen while modelling, where code and words part or a reviewer may want to look:

- Two overlapping calls for one order both read `PENDING` and both credit it (`recharge.service.ts:200`); the runs bound
  by how much (`OvercreditBounded`).
- Two cuts can both see the last credit (`machine-cuts.service.ts:127`), and the balance turns negative
  (`OverdraftBounded`).
- A restart sets every license without a machine to `AVAILABLE` or `ACTIVE`, a revoked one too (`licenses.service.ts:35`).
- A restart during a scheduled run restores `RUNNING` from the file, and no run is started any more
  (`migration-schedule.service.ts:276`; `WedgedOnlyBySavesAndRestarts`); so does a restart after the end of a run could not be written. The log lists twelve modules as synced that
  a run does not touch, and `designs` before its job has done anything.
- An `update` of an organization that names no `parentId` writes null, although the comment at
  `organizations.service.ts:193` says that only super admins may move an organization to the root. Moves that make a
  cycle are accepted, which is the exception in `ReadsEnd`.
- `reset` during the countdown of a Bluetooth cut cancels the timer that the cut's `await` depends on: the cut never
  returns, and its token is neither committed nor aborted; so does a second cut. `cutFile` clears the cancel flag, so a
  cancelled first cut comes alive again. `reset` does not stop the thread that writes, nor does the back button, after
  which two threads can write to one plotter. A cut whose user has disconnected reconnects by itself, and
  goes on with the chunk that failed: what it had written before, and the plotter had not yet got, is missing from a
  drawing that is charged. So it is when the link breaks, for nothing is acknowledged, and when a USB transfer is
  short. A cut over USB has no countdown, and a reset while it is sent does not keep it from being charged. After a
  failed connect the host may keep a type the service has forgotten, and a Bluetooth cut then has no countdown. A cut
  of several passes can outlast the 15 minutes of its token.
- `closeWorkOrder` passes `output` where `addWorkOrderOutput` reads `outputs`, and is always refused. `purgeBatch` names a
  field the schema does not have. An output that overlaps a finalization reopens the `CLOSED` order. A batch drawn below
  zero is finalized with negative wastage. `createDispatch` checks neither who owns a batch nor what is in it: one that
  takes an overdrawn batch puts a negative quantity in transit, which is why `OverdrawBounded` leaves out what is in
  transit and the batches it came from (without this exception it could not be proved, for it is false).
- The tables the stock migration fills have no unique key on what it copies, so `skipDuplicates` skips nothing: every run
  adds all lines, orders and items again, although the comment at `migration.service.ts:4638` speaks of skipping
  duplicates. The lookback the settings page announces (`SettingsPage.tsx:4295`) filters headers only; the lines of older
  headers, of those whose batch code is taken, and of a page that failed, are attached to some other batch, and the run
  is logged as a success. Among the lines a failing page is asked for again at once and without end. `sql.connect`
  gives all migrations one pool, and each closes it when it ends (`migration.service.ts:4835`, `3937`, and `3383` after
  a mere test of the connection): a run that is among its lines then asks a closed pool for ever, although the legacy
  database is up. An insert of lines whose answer is lost is repeated row by row (`migration.service.ts:4634`), which
  doubles them.
- "Apply aggregated used credits once per dealer" (`migration.service.ts:2531`) is once per run: a later run that imports
  one more grant deducts all of the dealer's usage again. A row rolled back after the mark loses the deduction. A second
  run moves a row's owner, but not its credits. A clean interrupted after its first statement leaves rows that no later
  run can update, and one interrupted before its last leaves rows whose wallet is never rebuilt.

## 5. Proofs

The theorems hold for every value of the constants that satisfies the named `ASSUME`s: any organizations, any number of
calls, tokens, runs, pages, cuts and restarts (finite where something is counted or summed), any bound, any amount.
Every safety invariant and action property of the runs is proved.

| Theorem | Statement | Argument |
|---|---|---|
| `SumLemmas` | `SumRemove`, `SumSame`, `SumChange`, `SumAdd`, `SumBounded`, ...; `FewerLeft`, `OneMoreLeft` | `SumFunctionOnSet` is a recursion over subsets; that it defines a function is shown by `SetInduction` (see below). From then on: what one changed summand does to a sum, that sums add, what bounds them. The last two are the budget used by both migrations: done plus still to do does not exceed what was started |
| `CreditLedgerProofs!RechargesAddUp`, `OvercreditHolds`, `SettledHolds`, `RechargeLedgerHolds`, `RechargeTypesHold` | `RechargesAccounted`, `OvercreditBounded`, `SuccessAdmitsNoNewCredit`, `LedgerBalanced`, types | The bound is inductive with `CreditedSettled`: an order with a row is `SUCCESS`, so a call that joins finds no row; a commit turns one call into one row. The three sums of `RechargesAccounted` change by the same credits in the same step (`AccountedCredit`), and no other step changes any (`AccountedQuiet`) |
| `CreditLedgerProofs!PromiseKept` | `KeepsPromise`, if no two calls overlap | `PromiseInv` adds what a call may rely on: its order is still paid and `PENDING`, which is false with two calls; and only opened orders are paid. Then each action is mapped: `CreateOrder` to `Open` or nothing, `Pay` to `Pay` or nothing, `ReadOrder` to `Quote`, `LoseCall` to `GiveUp`, `CreditOrder` to `Settle`, `UpdatePackage` to `Edit`, all others to nothing |
| `CreditLedgerProofs!OverdraftHolds`, `ChargedExactly`, `CutsLedgerHolds`, `CutsTypesHold` | `OverdraftBounded`, `CutsChargedExactly`, `LedgerBalanced`, types | An organization that is being charged has a wallet, without which creating it later would break the counters. The overdraft: a call that joins finds a positive balance while at most all the others are charging; a charge lowers balance and pending calls together |
| `CreditLedgerProofs!RowsHold`, `TransfersHold`, `RowsTakenHolds`, `CreditsLedgerHolds`, `CreditsTypesHold` | `RowsCovered`, `TransfersConserved`, `RowsTakenInFull`, `LedgerBalanced`, types | `RowsCovered` is inductive because of its own parts: the lock is held by exactly one mover, so nobody else deducts from the rows it read, and its deduction stays covered. A commit adds to `sent` and `received` the same amount, to one organization in a transfer to oneself (`CommitConserves`). `DeductsAllThereIs` says that while the lock is held nothing of this module touches the sender's rows (a grant and an incoming transfer need the same lock), so a commit finds them as they were read |
| `CreditLedgerProofs!JointLedgerHolds`, `JointOverdraftHolds`, `ServicesCompose` | of `CreditLedger`: `LedgerBalanced`, `JointOverdraftBounded`, and what each service establishes alone | Each service states what it relies on and what its steps guarantee the others: `RechargeKept`, `CutsKept` and `CreditsKept` say that a step which only adds wallets, rows and balance keeps a service's invariant; `RechargeEffect`, `CutsEffect` and `CreditsEffect` say that the others' steps are such, or take only what their own pending calls had looked at. The overdraft is a joint budget: what is pending, summed over transfers, is still within the balance plus one call's worth (`CreditsRoom`, `JointRoom`) |
| `CreditLedgerProofs!ChargedHolds`, `CancelHolds`, `StrandedHolds`, `NoTokenDropped`, `PlotterTypesHold` | of `PlotterCut`: `ChargedIsCut`, `StoppedNotCharged`, and the safety half of `CutsReported`: a token is never dropped, a cut is stranded only by a reset or another cut | `Written`: a thread starts at the first chunk, and each chunk up to the last it has written is received or in doubt, which no other cut, reset or broken link changes (`NoneForgotten`); `StoppedStay`: whoever a reset has stopped has no commit, and while its thread or timer has still to look, the flag is up |
| `MigrationScheduleProofs!OverlapHolds`, `WedgedHolds`, `NextHolds`, `TypesHold`, `LogHolds` | `OverlapBounded`, `WedgedOnlyBySavesAndRestarts`, `EnabledHasNext`, `TypeOK`, `LogTellsRun` | Together inductive, with `FilesFollow`: unless the settings were last written with an error, the file is what is in memory, and it never holds an enabled schedule without a next run. A start needs a status other than `RUNNING`, and sets it; only a page save can take it back, and is counted. The log needs `RunsTell`: what a run holds of the settings is what it looked at, unless they were saved since |
| `OrgTreeProofs!ListHolds`, `ClimbHolds`, `RouteHolds`, `TypesHold` | `ListExact`, `ClimbExact`, `RouteExact`, `TypeOK` | `Listing`: what is seen is below home, and the children of all but the last level are seen; when a level has no children the set is closed, so it contains all that is below home. `Climbing`: everything climbed through has its parent among what is seen, home is not; at a root, the rest is closed and contains home but not the target. Cycles need no special case. A route is the line of ancestors as far as the climb has got (`Routing`); that `Ancestor`, a recursive function, satisfies its equation is shown by induction (`AncestorIs`) |
| `LicensesProofs!HolderHolds`, `TrailHolds`, `AlertsHold`, `RevocationHolds`, `TypesHold` | `HeldByLastReceiver`, `TrailUnbroken`, `MovesAlerted`, `RevocationUndone`, `TypeOK` | `Knows` says what a request may still believe of a license it has read, while no other request crossed it: a dispatch, its owner; a binding, the device it read and will write back, or the alert for the new one; any, that a revocation since is noted. Most steps keep rows and requests (`KeptStep`); the three that do not cross the requests they harm |
| `FilmStockProofs!StockHolds`, `OrdersHold`, `OverdrawHolds`, `TypesHold` | `StockConserved`, `OrdersAddUp`, `OverdrawBounded`, `TypeOK` | `Shape` holds of every row: which rows have work orders, parents and dispatches, and that an order's output quantity is the sum of its outputs. `Sound` holds unless requests crossed: the equations of the books, and that what all pending outputs would take (`Pending`) leaves no less than `Floor`. `Informed` says what a request that is not outdated knows of the row it read. An edit is two statements; between them it alone holds the input the order will get (`Syncs`) |
| `LegacyStockProofs!CodesHold`, `CopiesHold`, `CompleteHolds`, `TypesHold` | `CodesFollowHeaders`, `CopiesBounded`, `CompleteWhenClear`, `TypeOK` | `Budget`: the copies there are and those that running runs may still make are of different runs or of inserts that raised an error, and are no more than these were. `Past`: a header a run has gone past has a batch or is missed. `Copied`: what a run that was always answered has copied, table by table in the order it visits them |
| `LegacyCreditsProofs!CreditsHold`, `RowsHold`, `CoverHolds`, `TypesHold` | `CreditsAddUp`, `RowsFollowCredits`, `RunsCoverGrants`, `TypeOK` | While the tables agree (`Agreed`): a grant with a row has one credit, in the wallet of the row's organization unless its dealer was imported late (`RowsCredited`); a wallet is what its transactions sum to (`WalletsKept`); a dealer with a row is deducted or forgiven (`Deducted`). `Cleaning` follows the four statements of a clean, so that one nobody met ends in agreement. `Budget` bounds deductions by runs; `Follows` says which grants a run has left behind, and why |

Assumed of the constants: that some sets are not empty (`Orgs`, `Packages`, `Orders`, `Amounts`, calls), that what is
counted or summed over is finite (`Orgs`, `Orders`, `Amounts`, `Quantities`, `Dealers`, `Runs`, calls), that bounds are
natural numbers and a drawing has a chunk, that the value for "no organization" is not an organization, and for
`PromiseKept` that any two calls are the same.

Sums. `SumFunctionOnSet` is defined by recursion over a set, and the library's induction theorems take a predicate as a
parameter, which the provers used here cannot instantiate. `NatSetInduction` and `SetInduction` say the same of *sets*
of numbers and of subsets (the ancestors in `OrgTree` need the first), and follow from the existence of minimal elements
(`WFMin`), so that every induction here is one over a set that is named.

What the proofs changed in the models: `OverdrawBounded` had to leave out batches in transit and those they came from
(section 4); the sums are all written with `SumFunctionOnSet`; the definitions of `PlotterCut` carry its name, because
its theorems stand beside those of the services.

Only model-checked: liveness (`PaidIsCredited`, `DueRunsUnlessWedged`, `ReadsEnd`, `CutsReported`, `RunsEnd`), which needs
fairness and `ENABLED`. Of `CutsReported` the safety half is proved, as said above.

## 6. Not modelled

- *QR codes, return requests, credit notes*: the QR part of inventory is planned, see section 2; return requests only
  change their own status.
- *The rest of the legacy migration*: `migrateDesigns`, `migrateLicenses`, `migrateMobileAppCuts` and the others copy
  fields row by row, with no counter and no second table that must agree; uploaded stock files run the same steps from
  memory.
- *Head, blade, pressure and calibration commands of the plotter*: single commands from the settings screens; emergency
  stop and head tests are called by no screen.
- *Roles*: planned.
- *Catalogue, users, contacts, addresses, audit log, plotter registry, mobile home*: create, read, update and delete of
  single rows, without a protocol between them.
- *Vendored Bluetooth SDK, web front end*: a binary, and presentation (`InventoryPage.tsx`, `SettingsPage.tsx`,
  `Organizations.tsx` and the other pages are forms and tables over the handlers modelled here); the one page whose
  behaviour matters, the migration settings, is in `MigrationSchedule`.
- *Hazards no property covers.* `createOrder` activates a license before it refuses the package
  (`recharge.service.ts:111`); the model does the same and no property calls it wrong. Rotating the gateway secret between
  order and webhook makes a signature fail (`recharge.service.ts:477`); signatures are abstract. Opposite dispatches lock two
  wallets in opposite orders (`cut-credits.service.ts:162`); the database aborts one, which is a lost call. Two first
  logins activate one license each (`auth.service.ts:221`). QR numbers are counted, then allocated
  (`inventory.service.ts:866`). A role update is not a transaction (`roles.service.ts:139`). A commit can come after its
  token has expired (`cut_selection_screen.dart:924`). After the back button two threads can write to one plotter
  (`cut_selection_screen.dart:50`).
