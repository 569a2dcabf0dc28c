# OpenAlice, specified

OpenAlice gives coding agents a trading workplace. Agents propose orders; a
person approves them; one process, the Unified Trading Account (UTA) server,
talks to the brokers. This directory holds TLA+ specifications of the part where
a mistake costs money: the approval pipeline of the UTA server
(`services/uta/src`), the connection health and risk posture that decide whether
it may trade, the tracking of what became of its orders, the history of its
accounts, and the scheduler that lets agents run unattended (`src/workspaces`).

## The system

Paths are relative to the repository; `trading/` is `services/uta/src/domain/trading/`.

| Component | State | Operations | Hard because | Correct when |
|---|---|---|---|---|
| Trading-as-Git engine (`trading/git/TradingGit.ts`, `git-persistence.ts`) | staging area, pending hash and message, commit log, head, `commit.json` | add, commit, push, reject, record* and sync commits, restore | push and reject await the broker between reading the staging area and clearing it; crash between dispatch and record | nothing lost, recorded twice or sent twice; the log is an append-only chain |
| Wallet of an account (`UnifiedTradingAccount.ts`, `order-entry.ts`, `paper-auto-push.ts`) | push guard, risk gate | stage*, commit, push, reject, one-shot orders, auto-push | three ways to start a push overlap | one execution per approval; the risk state is obeyed; the guard never leaks |
| Health (`UnifiedTradingAccount.ts:341-588`) | reach, failure count, recovering flag and timer, connecting, disabled | connect, probes, live calls, nudge, close | callbacks that outlive the timer they were armed by | recovery pursued until the target is reached |
| Risk state (`risk-state.ts`) | state, history, file | autoTighten, humanSet, evaluator, reconnect | the posture is in force before it is on file; failed writes, quarantine, a second store after a reconnect | never loosens by itself; survives restarts |
| Order sync (`UnifiedTradingAccount.ts:1039-1450`, `order-sync-poller.ts`) | poll back-off, pending scan over the log | sync, observe, reconcile, emergency stop, flatten | four callers interleave with pushes | each fill recorded once; own orders never "external" |
| UTA manager (`uta-manager.ts`, `main.ts`) | accounts by id | init, reconnect, remove | the old account may still be pushing | one writer per `commit.json` |
| Snapshots (`trading/snapshot/`) | chunk files, index, retry | take, append, delete, read | file and index written apart; reads beside writes | every snapshot found once |
| Guards (`trading/guards/`) | cool-down, high-water mark | evaluate | state kept though a later guard rejects | no forbidden operation dispatched |
| Brokers (`trading/brokers/`) | venue sessions | IBroker | pure I/O | external |
| Event log, listeners, pump (`src/core/`) | ring buffer, seq, timers | append, recover, tick | concurrent appends, re-entrancy | seq increases; ticks never stop |
| Schedules, headless tasks (`src/workspaces/`) | markers, run records | scan, dispatch, complete, reconcile | workspaces scanned side by side; crash between dispatch and mark | under the cap while Alice lives; fired when due, once, retried on refusal |
| Workspaces, server, stores, Guardian, desktop, UI | files, processes | | plumbing | not modelled |

The HTTP routes of the UTA server (`http/routes-trading.ts`) call the wallet; the
wallet calls the engine; the engine calls back into the account for
`executeOperation` (guards, then the broker) and `getGitState` (the broker, then
the risk evaluator); the poller and the snapshot service call the account on
timers. All of it is one Node process: code runs without interruption from one
`await` to the next, and any other request, timer or callback may run there.
That is the grain of every action in the models.

## Modules

| Module | Models |
|---|---|
| `ProposalLifecycle` | the abstract promise: an operation is staged, may be sent, and its batch ends once, executed or refused as a whole |
| `TradingGit` | the engine. `Add`, `Commit`: the synchronous operations. `PushBegin` (guards and copies), `PushDispatch`/`PushGuarded` (one `executeOperation`), `PushSettle` (after `getGitState`: append, clear, persist); `RejectBegin`, `RejectSettle`; `StateReadFails` (getGitState throws); `RecordSynthetic` (record* and sync); `CrashRestart` (process dies, `restore`) |
| `TradingAccount` | extends `TradingGit` with the push guard, the risk gate, the evaluator's tightening, one-shot orders and automatic pushes. Each of its actions is an action of the engine with the account's guards, or (`CommitAndPush`) the code's stage-commit-push without an await in between |
| `AccountHealth` | connect, probes, the recovery loop, live calls, nudge, close |
| `OrderSync` | what the log knows of orders and how it follows the venue: `ObserveTick`/`ObserveRecord` (observeExternalOrders), `SyncBegin`/`SyncConfirm`/`SyncRecord` (sync of the poller and of other callers), `StopBegin`/`StopCancels`/`StopRecord` (emergency stop), `Flatten`, `ReadPositions`/`Reconcile` (wallet positions), a push as its placements and its one commit, the venue and its owner, failures and restarts. The venue (`Answer`, `Outcome`, `VenueDrops`) may answer with a status the code does not know, and may take a cancellation without acting on it |
| `RiskStore` | `risk-state.ts`: `AutoTighten`, `HumanSet` queue a transition; `Drop`, `Begin`, `Quarantine`, `WriteTmp`, `Publish` are its turn in the write chain; `RenameMisses`, `WriteFails`; `Reconnect` (a second store over the file); `CrashRestart`, and `CrashUnanswered` (between the rename and the acknowledgement) |
| `Pump` | `src/core/pump.ts` by itself: start, stop, setEnabled, runNow, the timer and the tick |
| `Snapshots` | extends `Pump`, whose tick is one round of `takeAllSnapshots`: builds, the single retry, hooks; the store's write chain (`AppendLine`, `DeleteLine`, `SaveIndex`); reads that go past it; failures and restarts |
| `Schedule` | the scanner (`StartScan`, `ReadIssues`, `PassBy`, `Fire`, `EndScan`), dispatch under the cap (`DispatchRejected`, `CreateRecord`, `Launch`, which may find no credential after the record is made), the marker flush, runs and their end, `CrashRestart`, which leaves the runs under way as orphans, and `OrphanEnds` |
| `Subsequences` | `Only`, what `Array.prototype.filter` keeps of a sequence; used by `OrderSync` and `Snapshots` |
| `TradingGitProofs` | theorems about `TradingGit` under any interleaving, and for callers that wait (`SerialSpec`), among them that it implements `ProposalLifecycle` |
| `TradingAccountProofs` | theorems about `TradingAccount` |
| `AccountHealthProofs`, `OrderSyncProofs`, `RiskStoreProofs`, `SnapshotsProofs`, `ScheduleProofs` | theorems about the module each is named for; `SnapshotsProofs` also about `Pump` |
| `SubsequencesProofs` | the lemmas they share: least numbers, induction over an initial segment of the numbers, functions defined by recursion over a sequence, what `Only` keeps, sequences element by element |
| `MCTradingGit`, `MCTradingAccount`, `MCSchedule` | symmetry sets and an instance of issues for TLC |

State variables carry the names of the fields (`stagingArea`, `pendingHash`,
`commits`, `head`, `_pushInFlightHash`, ...). `calls` holds the local variables of
the push and reject invocations in flight; `disk` is `commit.json`. `pendingMessage`
is always set and cleared with `pendingHash` and goes with it. `added`, `sent`,
`faults` and `approved` are history.

What is abstracted: operations are model values; a hash is a fresh number and the
batch it was computed from (the timestamp in the digest makes it fresh; 8 hex
digits are taken not to collide); the account snapshot inside a commit is left
out; a synthetic commit has no content; an operation is risk-reducing or not once
and for all; guards answer freely; a broker answer that is lost and one that is a
refusal are the same "rejected", as in the code. A write of `commit.json` is one
step: half-written and failed writes are not modelled.

`OrderSync` keeps of the log what `getPendingOrderIds`, `getKnownOrderIds` and the
cost basis read off it: the newest status of every id, the ids whose origin is on
record, and the rows with execution data in order. It has one asset, and orders of
one unit that fill whole; `closePosition` is a sell like `placeOrder`. The venue
says of a fill, and of an end it reports, what is so, and sends execution data with fills;
it may call a live order by a status `mapOrderStatus` does not know, and acknowledge a
cancellation that has not happened. One push is in flight at a time (the
overlaps of pushes are `TradingAccount`'s), and the poller's check of the account's
health is left out. In `RiskStore` the reasons, metrics and history of a transition
are left out, and `writeFile` is one step: a crash inside it leaves a temporary file
nobody reads. The request of a crash between the rename and its acknowledgement is answered by
the next boot, which reads the new file. In `Snapshots` a snapshot is its timestamp and a chunk
file its lines;
delays and the pump's backoff have no length. In `Schedule` a cron expression is the
set of times it names; the scanner's own timer, the pruning of old run records and the
temporary name two flushes share are left out, as are `wait: true` runs
(`webui/routes/workspaces.ts:1216`), which take no slot and leave no record.

## Runs

| Run | Question | Bounds |
|---|---|---|
| `git_serial` | callers that wait for push and reject: is every operation recorded once, sent once unless a fault intervenes, never lost, and is the lifecycle implemented? | 3 operations, 2 calls, 4 hashes, 2 faults |
| `account` | everything overlapping: is the log a chain that only grows, does the push guard hold and get released, does a read-only account drain? | 2 operations, 2 calls, 3 hashes, 1 fault |
| `health` | is there always an attempt behind a refusal, and do refusals end? | the code's thresholds 3 and 6, 3 timers, 2 live calls |
| `orders` | what overlapping syncs, observations, stops, reads and a push make of the log: is nothing believed the venue did not say, no fill counted twice, no open order given up, and does the log catch up? | a buy with a bracket leg the listing hides, a sell; poller and one other sync; 1 event |
| `risk` | does the acknowledged posture survive, is it never loosened without a human, does the chain go on? | 2 stores, 2 transitions, 2 faults |
| `snapshots` | does the pump live, is the history true, findable, and read whole? | 3 snapshots in chunks of 2, 1 hook, 1 delete, 1 fault |
| `schedule` | do issues fire when due and not before, under the cap as long as Alice lives, with true records and markers? | a one-shot, a cron and a repeating issue in 2 workspaces, 1 slot, 2 events, clock 2 to 4 |
| `git_uncommitted` | (violated) is what is pushed what was committed? | as `git_serial`, smaller |
| `account_cautious` | (violated) does CAUTIOUS let only reducing operations through? | as `account`, no fault |
| `account_oneshot` | (violated) is only what somebody approved sent? | as `account`, no fault |
| `account_recommit` | (violated) is an operation in one push at a time? | as `account`, no fault |
| `health_stuck` | (violated) does an account become healthy when the venue is? | 2 timers, 1 live call |

The bounds are named constants. Two calls give every pairwise overlap; three
operations let a batch of two and a later one coexist; the hashes allow a commit,
a re-commit and a synthetic commit; two faults allow a crash during the retry of a
crash. Three timers allow an armed, a probing and a stray callback together.
In `orders` an event is an external transfer, a modification or cancellation, an answer that
is a refusal or an odd status, a request to sync or stop, a failure of a push or of the
poller, or a crash; one of them beside the
fills, the owner's orders, the poller, the reader and the push gives every pair of activities,
and the bracket leg
gives an order no listing shows. Two stores give one that serves and one that was
replaced. Three snapshots fill one chunk and begin the next, so that a delete meets
both; a fault is a failing file operation (a swallowed unlink and a failing append to the
event log included) or a crash. One slot and two workspaces make a full cap and a race for the
last slot; the
clock passes both cron times, so that a scan can come too late for the last of them, and
reaches the one-shot, which an early scan must leave alone; two events allow a crash and a
second one in the life after it.
`CHECK_DEADLOCK FALSE`: with all bounds used up the account really is idle.

Each property has a mutant, defined just before what it changes in the module
(`ClearNothing`, `NeverInFlight`, ...), under which TLC finds the property violated.

### Disagreements found

* **A second one-shot order re-sends the first** (`account_recommit`). While a push
  awaits the broker its operations are still staged; a commit made then gives them
  a new hash, which passes the guard on hashes (`UnifiedTradingAccount.ts:912`).
* **The order form pushes the agent's proposals too** (`account_oneshot`).
* **CAUTIOUS is not asked for when pushing** (`account_cautious`).
* **An operation staged after the commit is pushed under its hash** (`git_uncommitted`).
* **Recovery called off half way** (`health_stuck`): a successful live call clears the
  recovery timer (`UnifiedTradingAccount.ts:532`) though the account is still below
  its target, and only a probe could raise it.

Some properties are stated only as far as the code keeps them. What they leave out,
by a history variable or a premise, is where it does not:

* **An order the venue still works on can leave the polled list** (`doubted` in
  `TerminalIsConfirmed` and `LeavesPendingOnlyWhenDone`). `sync` records every status but four
  as rejected (`UnifiedTradingAccount.ts:1070,1080`, `TradingGit.ts:1148`), among them the
  `Inactive` of an order that is suspended or done for the day and IBKR's `PendingCancel`; and
  an order whose cancellation the venue only took is recorded as cancelled
  (`TradingGit.ts:352`; `AlpacaBroker.ts:371` makes the status up), though it may still
  fill. Nothing polls such an order again.
* **A corrupt risk file can end up as NORMAL** (`bare` in `AckedIsDurable`,
  `GateHoldsAcked`). `writeState` renames the unreadable file away
  (`risk-state.ts:122`) and then writes the new one; a crash or a failed write in
  between leaves no file, and the next boot reads NORMAL.
* **A replaced account still writes the risk file** (`mixed`). `reconnectUTA` builds the
  new account while transitions of the old one are queued; they overwrite the file of
  the new one, through one temporary name.
* **A loosening that fails is in force** (`asked`). `transition` assigns the state
  before it awaits the write (`risk-state.ts:155`).
* **Deleting the last snapshot of a chunk breaks the store** (`emptied` in
  `ListingIsTrue`, `Findable`, `ReadIsComplete`), unless the chunk is the newest: the next
  chunk is named by the number of chunks (`snapshot/store.ts:69`), a name that is in use.
  When the index cannot be saved after the unlink, the listing stays true, but every read
  meets the missing file and throws until an append makes it again; `ReadIsComplete` is
  about reads that meet all their files. An index that cannot be read counts as empty
  (`store.ts:47`), which is not modelled.
* **A deleted snapshot can come back** (`leftover` in `ListingIsTrue`, `Findable`). An unlink
  that fails is swallowed and the deletion acknowledged (`store.ts:106`); the next chunk takes
  the name of the file left behind, appends to it, and lists the deleted line again.
* **A run can outlive Alice** (`orphans` in `CapHolds`). `headless-task-registry.ts:10` says
  that the processes of a record left running are gone after a restart. Runs are plain
  children (`headless-task.ts:199`), `dispose` ends none (`service.ts:991`), the Guardian
  signals Alice only (`scripts/guardian/shared.ts:322`), and the watchdog of a run dies with
  Alice: the new Alice counts no slot for it. `CapHolds` therefore promises the cap for the
  runs of this Alice, and that each restart adds at most one full cap of others.
* **A schedule fires twice when its marker is lost** (`forgot` in `NeverFiresEarly` and
  `MarkersTrue`): to a
  crash between dispatch and flush (`scanner.ts:219`), though `marker-store.ts:9` says a
  restart "never double-fires", to a failed flush and a crash, or to one scan that could
  not read the issue file (`marker-store.ts:66`).
* **A cron issue without a marker can miss its time** (the premise of `DueFires`): whether it
  never fired or its marker was lost, it looks back one scan interval only
  (`declaration.ts:82`), and scans can be further apart.
* **An order row without an id stays pending for ever** (`Pending # {}` in
  `ResidualsReconciled`): recorded as `<missing-order-id>` by an emergency stop, it can
  never be confirmed; where its row names the contract, no drift of that asset is
  reconciled any more.

`NoOperationLost`, `RecordedOnce`, `ResentOnlyAfterFault` and `RejectedNeverSent` hold
for callers that wait; with overlapping calls they do not, for the reason of the
first item.

### Fairness

The models of the engine and the wallet check safety only. `AccountHealth` assumes that calls
to the venue
settle (brokers time out) and that callbacks run: weak fairness. Timers get strong
fairness, because a nudge clears the armed timer and arms one five seconds later,
and nudges closer together than that would postpone the attempt for ever: the
assumption is that they come less often.

`OrderSync` assumes that what was begun ends, and that the poller's interval goes on:
weak fairness for steps in flight, strong fairness for beginning an observation, a sync
and a position read, which other activities of the account disable for a while. Nothing
is assumed of the venue, of other callers or of failures. `RiskStore` and `Snapshots`
assume that file operations end, and venue calls and timers with them: weak fairness of
the store's steps, of the scheduled taker and of the tick. `Schedule` assumes that the
timer is armed again after each scan (`scanner.ts:127`), that awaited reads, credentials
and writes come, and that a run exits or is killed by its timeout.

## Proofs

`TradingGitProofs` proves, for any sets of operations and calls and any bounds:
`TypeOK`, `ChainIntegrity`, `PendingHasOperations`, that `commit.json` mirrors memory
(`DiskMirrorsMemory`), and `LogOnlyGrows`. The invariant is

    GitInv == TypeOK /\ ChainIntegrity /\ PendingHasOperations
              /\ DiskMirrorsMemory /\ CallHasHash

`ChainIntegrity` alone is not inductive: a restart replaces the log by the file's, so
the file must be known to mirror memory; restoring drops a prepared commit without
operations, so `PendingHasOperations` is needed for the restored state to equal the
lost one (`RestoreIsExact`); and `CallHasHash` says what a settling call appends. One
lemma covers each action; `AppendKeepsChain` and `CallStepInv` carry the shared part.

It proves the properties of callers that wait from

    SerialInv == GitInv /\ OneAtATime /\ Books /\ Sends

`OneAtATime`: one call is in flight at most, and the batch it copied before its first
await is still what is staged, which is why clearing "whatever is staged now" clears
what was recorded. `Books` adds to `NoOperationLost` and `RecordedOnce` that staged
operations are distinct and synthetic commits empty. `Sends` bounds how often an
operation was sent by the faults, plus one if it is in the log or was tried by the push
in flight: dispatching a staged, untried operation then keeps the bound, and a batch
nobody tried was never sent unless a fault intervened (`RejectedNeverSent`).
`SettleSerial` is the heart; it fails without `OneAtATime`, as `account_recommit` shows
on a trace. The refinement reads the mapping `OpStatus` off this invariant
(`StatusIs`): the module proves that each action is a lifecycle step or a stutter.

`TradingAccountProofs` proves for the wallet, with all overlaps, that two pushes never
execute one hash, that the guard does not leak, that READ_ONLY and HALT drain, and again
the chain. The invariant adds to `GitInv`

    GuardInv == HashesAreOld /\ PendingIsGuarded /\ PushIdempotent /\ GuardHeldByPush

The guard remembers one hash, the latest. That is enough because a hash can be pushed
again only while it is the prepared one (`PendingIsGuarded`), and a commit, which
replaces it, generates a hash no call has (`HashesAreOld`).

`AccountHealthProofs` proves `TypeOK` and `RecoveringHasProbe` for any number of timers
and calls. The invariant adds `HandleIsLive`: while a recovery is on, the timer the
account holds exists. Stray callbacks may exist beside it, but only clearing or ending the
held one could take the last attempt away, and both arm another or end the recovery.

`OrderSyncProofs` proves `TerminalIsConfirmed` and `LeavesPendingOnlyWhenDone` for any
finite set of orders, any callers and readers, and any number of events. Neither is
inductive: rows wait between being read and being recorded, in `pushing` and in the
`updates` of every activity. `SyncInv` says of all of them what `CommitIsTrue` needs, that
they are true of the venue now, or give an end to an order the venue spoke of as if it had
one (`RowsAreTrue`, `doubted`). They stay true while they wait because an order that ended
stays ended, and one in doubt stays in doubt (`EndsLast`). `OrdersTypeOK` and
`FillsCountedOnce` need of the same rows, and of those on
file, that they fit (`Fitting`): a placement or an observation names an order of the venue,
and execution data on a bought order is one unit that came from a sync. The invariant is

    OrdersInv == SyncInv /\ LogFits /\ WaitsFit /\ Scalars

where `LogFits` is about what is on file, `WaitsFit` about what waits (the listing of an
observation under way included), `Scalars` about the rest. `FillsCountedOnce` then is a
statement about the replay alone (`ReplayCounts`), by induction over its rows: after any of
them it holds as many units as it has counted orders, and it has counted those of the rows
so far whose origin is on file. `FillsCountedOnce` leaves sales out, because selling more than
is held is cut off at nothing; two action properties, which no run checks, say of every log
what of it carries over: a sync whose fills are all on file changes nothing
(`RepeatsChangeNothing`), and a reconciliation that books drift brings the basis to exactly
the position read, however old the read (`ReconciliationIsExact`). Both rest on
`ReplayGoesOn`: the replay of a longer log goes on from where that of the shorter ended.

`RiskStoreProofs` proves all four safety properties of the `risk` run, for any set of
stores and any number of transitions and faults. `AtWork` says that a store at a file
operation has in memory what the head of its chain asked for; `OneWriter`, that while `mixed` is
false only the serving store writes; `TmpIsNew`, that a temporary file about to be renamed
holds what is about to be acknowledged; `UnbuiltIsIdle`, that a store not yet built has
nothing to do. `AckedIsDurable` follows because only `Publish` and `CrashUnanswered` change
the file: what the one puts there it acknowledges, and the boot after the other answers with.

`SnapshotsProofs` proves for the pump alone, `setEnabled` included, that it never dies and
that a stopped or disabled pump stays quiet, and carries the former over to the snapshot
service, whose steps take pump steps or leave the pump alone. Of the store it proves
`SnapshotsTypeOK`, `ListingIsTrue`, `Findable` and `ReadIsComplete`, for any chunk size and
any number of snapshots, hooks, deletes, failures and crashes, from

    StoreInv == ChainInv /\ SettledInv /\ FilesInv /\ IndexInv
                /\ DraftInv /\ TrueInv /\ ReaderInv

What the write chain still holds is in the order of its timestamps (`ChainInv`) and
younger than what is settled (`SettledInv`); the lines of a file rise and no two files share
one (`FilesInv`), hence a snapshot is listed once; every chunk has a name (`IndexInv`). The
file and the index are written apart: `DraftInv` says that the index about to be saved was
computed from the files as they are, and `TrueInv` that the index on file lists what was
acknowledged, in ranges that cover it, and that a file beyond the index has only lines whose
append failed or whose unlink did (`leftover`). A reader carries with it what it has still to
find, in files it has still to
read (`ReaderInv`). Without `~emptied` the files of the index would not be numbered through,
and `NextChunk` would be the name of a chunk in use.

`ScheduleProofs` proves all five safety properties of the `schedule` run for any
workspaces, issues and schedules. `ScanShape` says that a workspace
works in a scan only and on its own issues, so that no two start a run of one issue;
`FiringIsDue` says that an issue being dispatched is due
by its marker. For the cap, `Total` counts slots as a finite set: the invariant
`CapInv == RunsFit /\ OrphansFit` bounds the records by the cap and the orphans by the
restarts, and `NoZombies` bounds the children of this Alice by the records (`LiveFits`).

All proofs use the named assumption of their module only. The last conjunct of
`GitAssumption` says that no hash is null.
Functions defined by recursion over a sequence (`Only`, `Replay`) are reasoned about
without the library's induction theorems, which take an operator: a set of numbers that is
not the whole segment misses a least one (`SegmentInduction`), and the function a definition
chooses exists because its restrictions to initial segments do (`Iteration`).

Every invariant and every action property of the passing runs is proved. Only
model-checked: the liveness properties (`RefusalEnds`, `PendingResolved`,
`ObservedEventually`, `ResidualsReconciled`, `RequestsSettle`, `TicksComeAndGo`,
`DueFires`), because liveness under fairness is beyond the prover, as are `ENABLED` and
`RECURSIVE` operators, which no module uses.

## Not modelled

* `commit.json` written half, or not at all, and two accounts over one `commit.json` after a
  reconnect: the engine's proofs assume a write that is one step and succeeds.
* The predicates of the guards and the state they keep (cool-down, high-water marks), and
  the breach arithmetic of the risk evaluator: decimals and calendar days. Their verdicts
  are free choices in the models.
* The event log and the listener registry: nothing modelled here reads them back.
* The order in which the boot of `main.ts` creates accounts and sets the snapshot hooks.
* Brokers, contract search, FX, position arithmetic, the stores of Alice, workspaces and
  their sessions, the Alice server, the UI and the Guardian: I/O, data mapping or plumbing
  around external processes.

## Plan

Next, in this order: `Reconnect` (two accounts over one `commit.json`, failed and torn
writes, which needs `TradingGit`'s write split from its acknowledgement); the guards'
state beside a batch; of the proofs, how far the cost basis and the venue can be apart
while nothing is pending (the safety behind `ResidualsReconciled`).
