# ARGS Core: a TLA+ verification project

This directory holds TLA+ models of ARGS Core (`args_core/`, `args/foundry/`) and of the order path of the snapshot
it grew out of (`legacy_fin/args_fin_snapshot/`), the TLC configurations that check them on small instances, and
theorems that TLAPS proves for every value of the constants. Every definition is
translated from the Python source; the "map" of `PROJECT.json` gives the lines.

1. [The system](#1-the-system): components, state, operations, hazards
2. [Modules](#2-modules): which module models what, and how
3. [Runs](#3-runs): what TLC checks, bounds, fairness
4. [Proofs](#4-proofs): what TLAPS proves, and along which argument
5. [Where code and documentation part](#5-where-code-and-documentation-part)
6. [Known limits](#6-known-limits): statements that are false of the code, and assumptions
7. [Not modelled](#7-not-modelled)
8. [Plan](#8-plan)

To run: `tlc -config MCEngineRestart.cfg MCExecEngine`, `tlapm PlacementProofs.tla`, and so on.

## 1. The system

The repository has three parts. `args_core/` executes trading intents: an engine turns intents into broker orders,
survives restarts, and is driven either by a simulated broker or by files that a separate process (the tap)
fills with broker callbacks. `args/foundry/` is a software factory: commands that build, gate, pack, verify and
clean up product releases. `legacy_fin/args_fin_snapshot/` is a complete earlier trading pipeline; its order path
(an executor and a sender, each with a ledger of what it sent, a loop that starts the sender again and again) is
the largest body of crash-prone, stateful code here. The parts that place orders come first.

| Component | Code | State | Operations |
|---|---|---|---|
| Execution engine | `args_core/execution_v1.py` `Engine` | `EngineState` (tickets, next order id, cool-down, fill-dedup keys, last ratio); `state.json`; `ledger.jsonl` | `__init__` (load, handshake, persist), `submit_intent`, `adopt_order`, `request_cancel`, `request_replace_qty`, `step` |
| Fill deduplication | `execution_v1.py:128-149,657-678` | list of keys (persisted, bounded) and a set that mirrors it | `_fill_dedup_seen_or_add_v0`, rebuild at start |
| Order policy, control plane | `policy_v0.py`, `control_plane_v0.py` | the control plane file | `check_order_allowed` |
| Simulated broker | `demo_stage5_v1.py` `FakeBroker` | orders, positions, event queue | place, cancel, replace, poll, snapshot |
| IBKR file bridge | `ibkr_event_tap_v0.py`, `ibkr_file_adapter_v0.py`, `ibkr_event_normalizer_v0.py` | events file, cursor file, caches of symbol and remaining quantity | gateway callbacks, `JsonlTailer.poll`, `normalize_ibkr_record`, `poll_events` |
| Soak runner | `soak_stage7_v1.py` | lock file, health file | acquire (stale take-over), heartbeat, loop, release |
| Offline learning | `offline_learning_v0.py` | datasets, models, `registry.json`, `as_model_version` in the control plane | build, train, promote |
| Process pack | `process_pack_v0.py` | the git repository | forensics, release |
| Foundry build and gates | `build_*`, `gate_v0`, `plan_v0`, `*_gate_v1` | `dist/<product>`, evidence | build, gate, accept |
| Releases | `release_*`, `customize_release_v1`, `overlay_apply_v1` | zip and hashes pairs, workspaces | pack, verify, unpack, customise, overlay |
| Cleaning | `housekeeping_v0`, `retention_v1`, `watchdog_v0` | the same pairs, pins, run directories, tmp | plan and delete, validate |
| Snapshot: IBKR sender | `ibkr/ibkr_sender_real_v1.py` | ledger, sent log, order id cursor; control state, execution mode, stop flag of the operator | gate, preflight, connect, reserve, place, log |
| Snapshot: operations loop | `ops/auto_loop_v1.py` | the lock with its time to live | acquire (steal), heartbeat, cycle with its child processes, release |
| Snapshot: WA executor | `wa/wa_ibkr_executor_v0.py`, `order_ledger_v0.py`, `reconcile_open_orders_v0.py`, `ibkr_open_orders_snapshot_v0.py` | append-only ledger, snapshot of open orders | reserve, submit, finalize; take and judge a snapshot |
| Run ledger | `runs_v0.py`, `job_request_*` | `events.jsonl`, `run_meta.json`, `final_report.json` per run | append, meta, finalize |
| Workspace patching | `workspace_apply_patch_v0.py` | workspace files, run events | apply |
| LLM layer, command line, PowerShell, rest of the snapshot, data | `args/llm`, `foundry/__main__.py`, `scripts/`, `legacy_fin/` | none that several actors change | validate, start the above |

How they interact. A runner (a demo, or the soak under its lock) creates an `Engine`; the engine loads its state,
matches tickets against the broker's snapshot, and persists. Between calls of `step()` the runner submits, adopts,
cancels or replaces. `step()` polls the adapter for events, applies them to tickets, turns requests into ticket
states, places, cancels and replaces at the broker unless a flag file or the cool-down forbids it, reconciles, and
persists in a `finally`. In a live run the adapter's events come from a file that the tap writes concurrently, from
callbacks the gateway sends on a socket that may drop; the adapter persists a cursor of its own. Operators and
watchdogs act through `stop.flag` and `safe_mode.flag`. The learner reads finished run directories; a promotion
rewrites the control plane that the engine loads.

In the snapshot, the loop holds a lock and starts the sender as a child in each cycle; the sender reads the plan, the
operator's files and its own ledger and sent log, and places what is left of the plan, a few orders per invocation,
until the run's limit. The executor reads another plan, asks a snapshot of open orders whether its contracts are
free, reserves each key in its ledger, and waits for the broker's answer. Nothing but the loop's lock keeps two
senders apart, and nothing keeps two executors apart. In the foundry, one pipeline builds, accepts, packs and
verifies a release, while retention and housekeeping delete releases by rules of their own.

What is hard about it, and what must hold:

| Where | Hard behaviour | Correct means |
|---|---|---|
| Engine, placing | crash or exception between `place_order` and the write of `state.json`; the file lost and the ledger's snapshot used instead; order ids drawn again | an intent's order reaches the broker at most once (`NoDuplicatePlace`); a recorded phase never goes back (`ImplementsLifecycle`) |
| Engine, events | duplicates, late events, a fill whose snapshot raises | fills counted at most once, ended tickets stay ended, ticket and order agree (`FillsNotOvercounted`, `RecordedEndIsFinal`, `BooksAgree`) |
| Engine, policy | positions read before several placements, or before a replace reaches the broker | exposure only shrinks under ONLY_EXITS (`PositionsOnlyShrink`) |
| Engine, progress | flags, cool-downs, rejects, partial fills | a closed order, and a wanted cancel, end the ticket (`ClosedOrderEndsTicket`, `CancelWantedEndsTicket`) |
| Deduplication | two copies of one memory, trimmed separately, one of them lost in a crash | copies agree, window exact, no fill twice within it (`ListSetAgree`, `WindowExact`, `NoRecount`) |
| Event feed | reconnects, batches, refusals told in three ways, restarts, cursor against caches | no execution counted twice, no early end, a written end is seen (`FillsNotOvercounted`, `EndedFillIsReal`, `ClosedOrderEndsTicket`) |
| Soak lock | check, unlink and create are separate steps, an unlink may fail | but for two ways of unlinking the wrong file: one soak at a time, its lock stays its own; a left lock is taken over (`OneSoakRuns`, `RunnerHoldsLock`, `LeftLockIsTakenOver`) |
| Sender | death between reserving, placing, marking and logging; three files that remember one order; limits counted from one of them; modes and overrides that change between reads | a key is sent once (`SentAtMostOnce`), a run keeps its limit (`RunLimitUpToCrashes`), order ids do not repeat (`OrderIdsIncrease`) |
| Operations loop | create, write owner, judge stale, unlink are separate steps; a killed loop leaves its child | one loop at a time with its own lock (`OneLoopRuns`, `RunningLoopOwnsLock`), senders never overlap but for kills (`OverlapOnlyAfterKill`), the plan gets done (`PlanWorkedOff`) |
| Executor | a ledger reloaded by rank, answers that come after the timeout, a snapshot taken while orders end | a key is submitted once (`SubmittedOnce`), an open order blocks its contract (`OpenOrdersBlock`) |
| Releases, cleaning | zip and hashes replaced one after the other, skipped when both exist; a build that fails half-way; two cleaners against the packer | pairs belong together (`PairsBelongTogether`), a shipped release holds what it declares (`ShippedHoldsWhatItDeclares`), pins and the last good release stay (`PinnedStays`, `LastGoodSurvives`) |
| Run ledger, model registry | read-modify-write without a lock | planned, section 8 |

`PROJECT.json` lists every hazard at its line with the properties that cover it.

## 2. Modules

| Module | Models | Used by |
|---|---|---|
| `OrderPolicy` | `policy_v0.py` as operators | `ExecEngine` |
| `ExecEngine` | `Engine` and `FakeBroker` behind `BrokerAdapter` | `MCExecEngine`, `ExecLifecycle` |
| `OrderLifecycle` | what the engine promises of each intent (abstract) | `ExecLifecycle` |
| `ExecLifecycle` | the refinement mapping from `ExecEngine` to `OrderLifecycle` | `MCExecEngine` |
| `FillDedup` | the two copies of the dedup memory | `MCFillDedup` |
| `EventFeed` | gateway, tap, events file, tailer, normalizer, adapter, adopted ticket | `MCEventFeed` |
| `SoakLock` | `LockFile` and its use in the soak's `main` | `MCSoakLock` |
| `RealSender` | `real_sender` of the snapshot: several sender processes, their files, the gateway | `MCRealSender`, `OpsLoop` |
| `OpsLoop` | `auto_loop_v1.py`, composed with `RealSender` (it extends it; each loop has a sender as its child) | `MCOpsLoop` |
| `WaExecutor` | the WA executor, its ledger, the reconcile gate and the snapshotter | `MCWaExecutor` |
| `ReleaseStore` | build, acceptance, packing, verifying, retention and housekeeping of one product | `MCReleaseStore` |
| `ExecEngineProofs`, `PlacementProofs`, `FillDedupProofs`, `EventFeedProofs`, `SoakLockProofs`, `SenderProofs`, `WaExecutorProofs`, `ReleaseStoreProofs` | theorems, section 4 | |

A definition whose name ends in `Mutant` (or `_mutant`) stands before the definition it would replace; it is a
plausible bug of that code, and a property of section 3 is violated when it is put in place. Nothing else uses it.

### ExecEngine

State. `st` is `self.state`; a ticket is a record with its client order id, order id, state, terminal state,
quantities and wishes. An intent without a ticket has the state `ABSENT`. `state_file`, `state_exists` and
`ledger_state` are the run directory. `orders`, `positions`, `queue` are `FakeBroker`'s. `pc` is where the
engine's one thread is; `batch`, `todo`, `seen_positions`, `replace_seen`, `blocked` are the locals of the methods
it is in. `placed`, `execs`, `emitted` are history: what the broker was sent and what it did.

The thread is cut where something else can intervene: a crash anywhere, the broker at any time when `AsyncBroker`
holds, and the adapter calls that may raise.

| Code | Actions |
|---|---|
| `Engine.__init__` | `Start` (load, `Handshake`, then `PersistState`) |
| `submit_intent`, `adopt_order`, `request_cancel`, `request_replace_qty` | actions of the same names; each ends in `PersistState` |
| `step`: flags, `poll_events` | `BeginStep`, `PollEvents` |
| `_apply_event`, per event | `DropSeenFill`, `OrphanEvent`, `ApplyEvent(i)` |
| `_apply_requests`, flags and cool-down | `ApplyRequests` |
| `_drain_actions`, per ticket and outcome | `DrainNothing`, `ForbidPlace`, `SkipPlaced`, `Place`, `Cancel`, `LookBeforeReplace`, `ForbidReplace`, `Replace`; `EndDrain` |
| `_reconcile` | `Reconcile` |
| the `except` and `finally` of `step` | `SnapshotOrPollRaises`, `LastFillRaises`, `PlaceRaises`, `CancelRaises`, `ReplaceRaises`, all through `StepRaises` |
| `_persist_state` | `PersistState`; `CrashInPersist` between its two writes |
| the process | `Crash`, `LoseStateFile` |
| `FakeBroker` | `BrokerPlaces`, `BrokerCancels`, `BrokerReplaces` inside the engine's calls; `BrokerAck`, `BrokerReject`, `BrokerFill`, and `Resend` for an adapter that delivers an event again |

Abstractions, each stated at the module's head: quantities are integers (the code's floats carry share counts);
`stable_client_order_id`, a hash of the intent, is the intent's number; the cool-down deadline is a boolean that
`CooldownExpires` clears; `ts_utc` and reason of a fill, as far as the dedup key goes, are a stamp; the tickets'
dictionary order, which changes at a reload because the file is written with sorted keys, is left open. Counters,
reasons, evidence, health and manifest files are left out: no guard reads them. `FakeBroker`'s tick counts, which
decide when it acknowledges, rejects or fills, are replaced by a free choice.

### OrderLifecycle and ExecLifecycle

An intent is unknown, pending, worked or ended, and the broker receives its order at most once, while it is pending.
The mapping takes the phase from `LoadedState`, what a restart would find: the promise is about what is recorded,
not about memory. That makes the refinement sensitive to everything a crash may undo.

### FillDedup

The list (`EngineState.fill_dedup_keys_v0`), the set (`_fill_dedup_set_v0`), and the state on disk. `Restart` may
come at any time and takes the history of accepted fills back to what was saved: the tickets those fills had
changed are in the same file. `ExecEngine` keeps the list only; `ListSetAgree` says why that is enough.

### EventFeed

One adopted order, from the gateway's executions to the ticket. The gateway reports an execution by `execDetails` and
`orderStatus` in either order, a refusal by an error callback, by the status `Inactive`, or by both. What it says
while the tap is down is lost, except that a new session reports open orders. The tap asks for the day's executions
too, with the filter `None` inside a `try` that swallows everything (`ibkr_event_tap_v0.py:75-78`); the client
library, which is not in the repository, looks into the filter, so the model takes it that nothing is sent. The tap's
callback queue and its writes are separate steps, as are the tailer's read, the write of its cursor, and the use of
the lines. `Normalized` is the case analysis of `normalize_ibkr_record`; `Remaining` and `Patched` are the two passes
of `poll_events`. `CollectEvents` is the first of them, over all lines that were read; `ApplyRecord` is the second,
and the engine's use of its event, one line at a time.

### SoakLock

The processes, the file's owner and whether it is stale. Existence check, age check, unlink and exclusive create are
separate steps, any of which another start may follow; an unlink may fail, which the code swallows; a loop may take
longer than a heartbeat may be old. Nothing is assumed of who starts a soak when. Two history variables record the
two mistakes that the code can make: `contested`, two processes have judged one left file stale and are both going to
unlink it, and `mistaken`, a process has judged the file of a running soak stale. `JudgeStale` is where both begin.

### RealSender

`run[s]` holds the locals of sender process `s`: what it read of the operator's files and of its own, the positions
of the plan that the gates let through (`allowed`), how far it is (`pos`), how many it has sent, the next order id.
`ledger`, `sent` and `cursor` are its files, `orders` and `server_next` IBKR. `overlapped` is history.

| Code (`ibkr_sender_real_v1.py`) | Actions |
|---|---|
| reading: control state, execution mode, ledger, sent log | `ReadControl`, `ReadMode`, `LoadLedger`, `ReadSent`, in the code's order |
| the gates, record after record, each with the control state as it is by then | `Gate` |
| validation, dry run or simulation, preflight, connection | `Refuse`, `GateToSimulation`, `GateToConnect`, `Preflight`, `Connect`, `ConnectFails` |
| the loop over the plan | `Skip`, `Reserve`, `Place`, `ResetOverride`, `MarkSent`, `LogSent`, `Finish` |
| the process, the operator, the server | `Crash` between any two of them, `CrashInCursorWrite`, `Edit`, `ServerForgets` |

Each file operation is a step of its own, because a process may die, or another one read, between any two. A plan
entry is its key and four facts about it: whether it is an order or a cancel-all, a strict stage 5 test order, valid,
and an order that the sanitizer accepts (`Submitted`; one that it refuses is skipped before it is reserved). Prices,
quantities, the exec and would-send logs are left out (no guard reads them back).

### OpsLoop

The lock is absent, or says who created it, whether the owner has been written, whether that process lives, and
whether its time has passed. `CreateLock`, `WriteOwner`, `FindStale`, `UnlinkStale` and `Denied` are `acquire()`;
`BeginStep` starts the child (`Launch` of `RealSender`), `EndCycle` waits for it, `Wake` is the next cycle,
`Release` the end. `KillLoop` leaves the child alone. A child works by `RealSender`'s own actions, and
every step of the composition is one of `RealSender` or leaves its variables alone (`LoopRunsSenders`, section 4): what
is proved of senders is about the loop's children too.

### WaExecutor

The ledger file is append-only; the model keeps what loading it yields, per key the record of highest rank (`Rank`,
`Loaded`), next to the executor's own index, which takes what it wrote last. `Start` reads mode and ledger,
`ReadSnapshot` the snapshot; per entry of the plan, `Skip`, `MissingParts` (of contract or order),
`BlockedByReconcile`, `Duplicate`, `ReserveRaises`, or `Reserve`, then `Submit`, then `Acked`, `Rejected` or
`TimesOut`; `SubmitFails` is the `except` around all of that, before or after the broker has the order. An append of
the ledger that raises may have written the record or not; those of `finalize` are swallowed.
`reconcile_open_orders_v0.match_open_orders` compares ids, local symbols, symbol, type, currency and month in turn;
the model has contracts that are equal or differ. The broker answers, and ends orders, on its own (`BrokerAnswers`,
`OrderEnds`), in time or not (`LateOrders`). The snapshotter is `SnapshotStarts`, `SnapshotRow` per contract,
`SnapshotEnds`; `SnapshotAges` is the limit of 600 seconds.

### ReleaseStore

Contents are numbers: an app is its build, an acceptance report the build it accepted, a manifest the pack that
wrote it. So "the release holds what its `hashes.json` declares" is an equation, and nothing of a zip but these
numbers is kept. The release id is what its tag hashes. `BuildApp`, `BuildFails`, `Seal`, `Accept`, `AcceptFails` are
the pipeline up to packing; `SkipExisting`, `WriteManifest`, `WriteZip`, `Hash`, `WriteSums`, `PackFails` the packer;
`Verify` the end; `Crash` may come between any two. `StartRetention` and `StartHousekeeping` make a plan from what
they see, `Delete` carries it out file by file, later.

## 3. Runs

| Run | Instance | Shows | Distinct states |
|---|---|---|---|
| `fill_dedup` | 4 keys, window 2, 5 accepted | `TypeOK`, `ListSetAgree`, `WindowExact`, `NoRecount` | 957 |
| `engine_restart` | 2 exits of 1; 2 crashes, 1 raising call, `state.json` may be lost; window 1 | `TypeOK`, `NoDuplicatePlace` | 360 888 |
| `engine_requests` | 1 exit of 1 of a position of 2; broker acts at any time, may reject; cancel, replace by 2 or 3; 1 crash, 1 raise, 1 re-delivery | `PositionsOnlyShrink`, `DoneIsFlat`, `FillsNotOvercounted`, `RecordedEndIsFinal` | 893 930 |
| `engine_live` | exits of 2 and 1; cancels, rejects, flags come and go; fair | `BooksAgree`, `OrderIdsAreOwn`, `ClosedOrderEndsTicket`, `CancelWantedEndsTicket` | 205 538 |
| `engine_lifecycle` | 2 submitted intents, 1 adopted order; 1 crash | `ImplementsLifecycle` | 430 506 |
| `feed` | order of 2; 2 tap sessions, 2 runs with `--reset-cursor`; cancel, refusals of three kinds, file there or not; fair | `TypeOK`, `FillsNotOvercounted`, `EndedFillIsReal`, `ClosedOrderEndsTicket` | 96 117 |
| `lock` | 3 processes, 2 kills, 1 failing unlink, starts and loops of any kind; fair | `TypeOK`, `OneSoakRuns`, `RunnerHoldsLock`, `LeftLockIsTakenOver` | 12 418 |
| `sender` | 1 sender; 3 keys, 3 plans (a key twice, a cancel-all, an invalid entry, an order that the sanitizer refuses); 2 orders per invocation and per run; 1 death, 2 edits, 1 server reset | `SenderTypeOK`, `SentAtMostOnce`, `RunLimitUpToCrashes`, `OrderIdsIncrease` | 239 254 |
| `ops_loop` | 2 loops with their senders, 2 keys, the first order refused by the sanitizer; 1 order per invocation; 1 death, 1 edit, 1 killed loop; stale locks stolen, serial starts; fair | `TypeOK`, `OneLoopRuns`, `RunningLoopOwnsLock`, `OverlapOnlyAfterKill`, `PlanWorkedOff` | 455 084 |
| `executor` | 1 executor, run 3 times; 2 keys of one contract (the second an exit) and a third record without its order; 1 edit, 2 snapshots, late answers, raising ledger | `TypeOK`, `SubmittedOnce`, `OpenOrdersBlock` | 1 270 160 |
| `releases` | 4 builds, 4 packs, 3 kept by retention and by housekeeping, 1 crash, 2 cleanings, 1 pin | `TypeOK`, `PairsBelongTogether`, `ShippedHoldsWhatItDeclares`, `PinnedStays`, `LastGoodSurvives` | 1 053 083 |
| `feed_resume` | as `feed`, without `--reset-cursor` | section 5: `EndedFillIsReal` fails | |

Why the bounds are enough. Two crashes reach "crash after placing, restart, crash before the new state is recorded",
with the state file lost in between; a third repeats the second. Two intents are the least with which order ids can
collide and the policy can be asked twice with one snapshot; quantity 2 is the least that fills in parts. A window of
1 or 2 keys evicts in the second or third fill. Two tap sessions and two runs are the least with a reconnect and a
restart. Three processes at the soak's lock are one that leaves it and two that find it. The key properties are also
proved without bounds. State that grows without bound in the code is bounded by its causes: crashes, faults,
re-deliveries, sessions and runs are counted against `Max...` constants; the event queue by the finite number of
orders and fills.

`sender` needs three keys for a limit of two that is reached with something left, and a plan that names a key twice
for the check against what the same invocation has sent. Two edits arm and simulate, or arm and disarm, between any
two reads. One process is enough there: two that overlap can send a key twice (section 6), which is why the three
properties except it; `ops_loop` has two and shows when that happens. `executor` has one contract, so that the second
order meets the first one's; an order needs a snapshot before it, so the first snapshot to hold an open order is the
second one. `releases` has four builds, since retention that keeps three deletes at the fourth, and a half release
takes a slot.

Fairness. `engine_live`: `Start` (the runner is started again), `StepWork` (a step that began goes on) and
`CooldownExpires` (time passes) are weakly fair. `BeginStep` is strongly fair: the runner's loop calls `step()` in
every turn (`demo_stage5_v1.py:258`, `soak_stage7_v1.py:268`), whatever requests it makes in between, and each
request makes the engine persist, which disables `BeginStep` for a moment. Nothing is assumed of the broker.
`feed`: the scheduled task `ARGS_IBKR_Tap_1m` starts the tap every minute, a running one goes on, a run ends after its
`--seconds`, and an operator starts the next one (`soak_24h.ps1`; no task does). `lock`: an operator starts soaks again
and again, and time passes; the number of failing unlinks is bounded. `LeftLockIsTakenOver` needs no process to be live
in particular. `ops_loop`: loops and senders that run go on (weakly fair, any of their steps).
`Preflight` and `Connect` are strongly fair: each may be refused time after time, and a gateway that is there admits
a sender that tries again in every cycle. No loop has to be started, and none has to survive: `PlanWorkedOff` is
about executions where one runs, and trading stays allowed, from some point on.

`ops_loop`, `executor` and `releases` switch off the deadlock check: when their runs, builds or kills are used up,
or the lock of a killed loop stays, nothing is left to do. The other systems never stop.

Where a property leaves something out, it says so: `BooksAgree` is about executions without crash and fault, as it
relates fill counts that a crash may lose; `CancelWantedEndsTicket` excepts flags that return for ever;
`EventFeed!ClosedOrderEndsTicket` excepts a last run that began before there was an events file (`BlindRun`).
The soak's `OneSoakRuns` and `RunnerHoldsLock` except executions in which two processes judged one left file stale, or
one the file of a running soak (`contested`, `mistaken`): nothing else makes them fail.
The sender's and the executor's properties except processes that overlap; `OneLoopRuns` and `RunningLoopOwnsLock`
except stale locks that are stolen while loops start together; those of releases except forced repacks and, for
pairs, a crash together with a cleaner at work; `PinnedStays` excepts housekeeping, which knows no pins. Section 6
says what happens in the excepted cases.

## 4. Proofs

| Theorem | Says | For every |
|---|---|---|
| `ExecEngineProofs!TypeCorrect` | the engine's memory, files, broker and queue keep their types; the key list its maximum | intents, orders, adoptions, positions, initial orders, bounds |
| `PlacementProofs!NoDuplicates` | the broker receives an intent's order at most once | the same, and control plane, crashes, lost state files, raising calls, re-deliveries |
| `PlacementProofs!EndsAreFinal` | what is recorded of an ended ticket stays as it is | the same, if `state.json` is not lost |
| `PlacementProofs!EngineImplementsLifecycle` | `ExecEngine` implements `OrderLifecycle` | the same, if moreover no adapter call raises (`Undisturbed`) |
| `PlacementProofs!OwnOrderIds` | a ticket's order id stands for its own order | the same, if there is no restart or a single intent |
| `PlacementProofs!ExitsOnlyShrink`, `DoneStaysFlat` | under ONLY_EXITS positions only shrink; a ticket ended DONE is about a flat one | the same, if moreover each position has one intent to exit it |
| `PlacementProofs!FillsCountedOnce` | a ticket never counts more than the broker filled | intents, crashes, lost files, raising calls, re-deliveries, as long as the broker made at most `MaxKeys` fills |
| `PlacementProofs!BooksDoAgree` | without crash and fault, once every event is applied, ticket and order agree on what was filled and how it ended | intents, broker, policy, bounds, if fills have distinct keys, none is delivered twice, nothing is replaced and the broker has no other orders |
| `ExecEngineProofs!ExitShrinks`, `RestrictedShrinks`, `ReplaceKeepsExposure` | what an allowed order does to the position it was checked against, however much of it is executed | position, quantity, control plane, symbol |
| `FillDedupProofs!WindowTypeCorrect`, `ListAndSetAgree`, `WindowIsExact`, `NoFillRecounted` | types; the two copies agree, the window is exact, no fill twice within it | key set, window size, number of fills |
| `EventFeedProofs!FeedTypeCorrect` | gateway, tap, file, reader and ticket keep their types | quantity, sessions, runs |
| `EventFeedProofs!FeedCountsOnce` | the ticket never counts more than was filled | the same |
| `EventFeedProofs!FilledEndsAreReal` | a ticket ends as FILLED only if its order is filled | the same, if the runner resets its cursor |
| `SoakLockProofs!TypeCorrect`, `Exclusion`, `LockKept` | unless two processes judged one left file stale, or one a running soak's: one soak at a time, and its lock stays its own | set of processes, starts, kills, failing unlinks, loops |
| `SenderProofs!SenderTypeCorrect`, `SentOnce`, `RunLimitHolds`, `IdsIncrease` | unless two senders overlapped: a key is sent at most once, a run sends at most its limit and one more per death, and order ids increase, unless the cursor and the server both fail | senders, keys, plans, control files, limits, bounds |
| `SenderProofs!LoopTypeCorrect`, `LockKept`, `OneLoop`, `OnlyKillsOverlap` | one loop at a time with its own lock; senders overlap only after a loop was killed | loops, deaths, edits, lock options |
| `SenderProofs!LoopRunsSenders`, `LoopSendsKeyOnce` | the loop with its children implements the sender's specification; so, without kills, a key is sent at most once and the run keeps its limit | the same |
| `WaExecutorProofs!ExecutorTypeCorrect`, `SubmittedAtMostOnce` | without retries, and unless two executors overlapped, a key is submitted at most once | executors, keys, plans, options, bounds, exceptions |
| `WaExecutorProofs!OpenOrdersDoBlock` | an order that was open when the snapshot was asked for blocks its contract, if the answer came in time | the same |
| `ReleaseStoreProofs!StoreTypeCorrect`, `PairsBelong`, `ShippedHolds`, `PinsStay`, `LastGoodStays` | pairs belong together, a shipped release holds what it declares, pinned releases stay complete, no step takes the last good release, each with the exceptions of its statement | retention, builds, packs, cleanings, deaths |

Assumptions. The ASSUMEs of the modules, which every run's constants satisfy: intents are positive (0 stands for an
empty client order id), orders are about known symbols, order ids the broker starts with are positive, bounds are
naturals, `MaxKeys` is positive in `FillDedup`, "nobody" is no process, plans are sequences of plan records, the
limits of the sender are positive, options are Booleans. Some theorems have hypotheses on the constants of their own;
each is named in the module and explained below. They are the settings of the runs that check the property, but for
the bounds. Where one seems strong, section 6 tells what goes wrong without it.

`NoDuplicates`. Placing needs a ticket without an order id. So while the engine is up it must know the order id of
every order it has sent (`KnownInMemory`); after a crash it knows it from the file it loads, or from the handshake,
which finds the order at the broker by its client id (`KnownOnDisk`, through `Recoverable`). The handshake can find
it only if the order is still there: `place_order` stores an order under its id over whatever had that id, and
`next_order_id` is rolled back by a crash. What saves it: an order that some file does not know of was sent since
the last write, and has an id below `next_order_id` (`UnsavedBelowNext`), so the next placement of the same step
does not overwrite it; and what is pending in memory is pending, with its client id, in the files
(`PendingIsSaved`, `AllWellFormed`). `PInv` is the conjunction; TLC checked it in three of the runs' instances
before it was proved. All operations but placing, submitting, adopting, persisting, crashing and starting are
covered by one lemma (`QuietStep`): they keep files and client ids and never give an order id back.

`EndsAreFinal` and `EngineImplementsLifecycle`. Both are about what a restart would find. `EndKept`: a ticket that is
recorded as ended is so in memory too, since no operation takes an ended ticket up again; with a lost `state.json` the
ledger's snapshot, one step older, would be found instead. For the refinement, `RInv` adds how memory may be ahead of
the disk (`Follows`): a ticket is never given up, it is new only on its way to the disk, it gets an order id only with
an order, and one whose order was sent is left alone until that is recorded. Each write of the files is then one step
of the life cycle for each intent, each placement one `Send`, everything else a stutter. `Undisturbed` excludes raising
calls, after which an order id is recorded for an order that never reached the broker.

`OwnOrderIds`. An engine that was never restarted gives ids above those of all orders and tickets (`IdsBelowNext`). A
crash rolls `next_order_id` back, and an id may then stand for another intent's order; so with restarts the statement
is about a single intent, all of whose orders are its own (`TracedInv`).

`ExitsOnlyShrink` and `DoneStaysFlat`. Two exits of one position may together turn it, since the policy is asked with
the position alone (`OneExitPerSymbol`). With one, its order's fills are all that moved the position, and what is left
of it cannot turn it (`OrdersExit`), whatever is replaced; the position that the policy saw lies between the first one
and zero (`SeenShrunk`), and so the policy lemmas apply. Because a position that reached zero has nothing left that
could move it, a ticket that was ended on a flat snapshot stays right (`DoneFlat`, for memory and both files).

`FillsCountedOnce`. The engine goes on from one of four copies of its state: memory, `state.json`, the ledger's
snapshot, or a fresh state. For each there is a function that says how much the fills from the k-th on may still add
to a ticket, given the keys which that copy remembers; what the copy counts and what may still be added never exceed
what the broker filled (`Tally`). A fill told twice, before or after a crash, is then either remembered or still in
the rest. This needs no key to have been trimmed, so the theorem speaks of every state up to the `MaxKeys`-th fill,
2000 in the code (`execution_v1.py:125`); beyond it, `NoFillRecounted` says how far apart two deliveries of one fill
must be. It holds with and without `UniqueStamps`: fills with equal keys are counted too rarely, never too often.
`NothingElse` (the broker knows no other orders, no order is adopted) is a restriction of this proof and of those
about exits: an adopted ticket counts from zero for an order that was there before. `EventFeedProofs` is about an
adopted one.

`BooksDoAgree`. What is pending for an order - the rest of the batch that is being applied, then the broker's queue -
leads, event by event, from what its ticket was told to what the broker holds (`Lead`, `OrderTold`): a broker step
adds an event at the end, applying takes one from the front, and when none is left the two ends are the same. For an
applied event to count, it must find the ticket of its order (`OrdersPaired`, `EventsOfOrders`) and its key must not
be remembered: pending fills are newer than all remembered keys, whatever was trimmed (`StampsRise`). The hypotheses
are where the books do part: equal keys swallow a fill (`FillsNotOvercounted` still holds), a re-delivery may come
after its key was trimmed, a replace that the policy forbids ends the ticket and leaves the order open at the broker,
and an adopted ticket counts from zero.

`FeedCountsOnce`. The same argument over a file: an execution is told of in one line (`ToldOnce`), the runner reads
parts of the file (`ReadFrom`) and remembers keys of lines that it read (`KeysRead`); and a runner that starts again,
with or without resetting its cursor, starts from a ticket that has counted nothing. `FilledEndsAreReal`: a status
says "nothing remaining" only of a filled order (`StatusTrue`), and each execution comes after a status
(`StatusFirst`), so a runner that reads from the start of the file always has a remaining quantity to patch an
execution with (`Silent`). One that goes on from a cursor may not, since that cache does not survive a restart: hence
`ResetsCursor`, and the run `feed_resume`, which shows what happens without it.

`Exclusion`. `IInv` says, as long as nobody contested a file or mistook one: a running process owns the lock
(`RunnerIsOwner`), and who is about to unlink does so while nothing runs, alone (`SafeTakeOver`). A process that has
decided to unlink stays so, whatever the others do, until it unlinks; the file it judged stale is still there, because
only it may remove it, and so nobody else can create one and run. `OneSoakRuns` and `RunnerHoldsLock` follow, with no
assumption on who is started when, who is killed, or how long a loop takes.

`WindowIsExact` rests on one fact about trimming: appending to the trimmed history and trimming again is trimming
the longer history (`KeepLastAppend`).

`SentOnce` and `RunLimitHolds`. The dedup of the sender reads a ledger and a sent log once, at its start, and both
are behind what IBKR has between placing and writing. `SInv` says, as long as senders did not overlap: at most one
sender runs (`Alone`); every key that IBKR has an order for is in the ledger, since it is reserved before it is placed
(`LedgerKnows`); no two orders share a key (`OneOrderPerKey`); the orders are at most those in the log, one that is
being logged, and one per death (`OrdersCounted`); and of the sender that runs, its copy of the ledger and its count
are the files', it is below its limit when it is about to send, and the key it reserved is new (`LedgerIsFile`,
`CountIsFile`, `BelowLimit`, `ReservedIsNew`). The step lemma has one step per action; those that touch neither files
nor orders share one.

`IdsIncrease`. A sender takes the larger of its cursor and the server's next id. `FilesKnowIds`: the server is above
all ids unless it was reset, and the cursor, while nobody runs, unless a sender died before writing it; `IdInv`
carries both through an invocation, from reading them to the order.

The loop. `LockInv` says that who writes the owner holds the lock, that a running loop owns it (`LooperOwns`), that
only a dead loop's lock is unlinked (`UnlinksDeadLock`), that one loop at most is in `acquire()` when starts are
serial (`OneLocking`), and that a sender runs only as the child of a loop that is in its step (`ChildInStep`). It
holds in a `SafeSetting`: stale locks are not stolen (the default), or starts are serial, or a dead owner cannot be
told from a live one (as on Windows). `LoopRunsSenders` is a step simulation, so `SentOnce` and `RunLimitHolds` carry
over, and their exception, overlap, becomes "a loop was killed".

`SubmittedAtMostOnce`. Similarly: every submitted key is in the ledger (`LedgerKnows`) and in the index of the
executor that runs (`IndexKnows`: a key that the index takes for new was never submitted, though an append that raised
may have left it in the file), no two orders share a key, a reserved key is new; and a record never takes a key back
to NONE, whatever its rank, because loading keeps the record of highest rank. `OpenOrdersDoBlock`: a snapshot that is
complete and in time has seen all that was open when it was asked for (`Faithful`), and who has reserved a key found
its contract not in it (`Cleared`).

Releases. `PInv`, for pairs: while nobody died, sums without a zip are about to be deleted, so a pack that is not
forced writes both files; a packer that dies leaves no pair; after one death a zip may meet sums that were left behind
only until the same pack replaces them. `HInv`, for shipped releases: an app in `dist` is the latest build, and a zip
has the hashes of its id and an app that is not older, so what was there under the id of an accepted build can only
hold that build. `NInv`, for pins: nothing that retention plans to delete is pinned, and no packer touches a complete
release. For the last good release, `AgeInv` orders files by build: those of a newer build have the later manifest,
zip, hashes and sums, a pack writes those of the newest build, and a plan to delete is older than it. `GoodInv`: what
is newer than the newest release that verifies is at most one pack per death and the one under way, so a plan, which
takes only what has `KeepLast` or `KeepNewest` newer ones, never reaches it. If either is too small for that, the
property says nothing.

Only model-checked. The properties under fairness, as TLAPS has no proof rules for fairness here:
`ClosedOrderEndsTicket` (of engine and feed), `CancelWantedEndsTicket`, `LeftLockIsTakenOver`, `PlanWorkedOff`. Every
safety property of a passing run has a theorem.

## 5. Where code and documentation part

| Run | Statement | What the code does |
|---|---|---|
| `feed_resume` | `ibkr_event_normalizer_v0.py:103`: the adapter patches the placeholder `remaining=0` of an execution from its cache; `ibkr_file_adapter_v0.py:90`: the tailer is restart-safe | the cursor survives a restart, the cache does not (237-238). A soak started without `--reset-cursor`, as `soak_24h.ps1:18` starts it, goes on behind the last status: the next partial fill ends the ticket as FILLED while its order is open |

## 6. Known limits

Statements one might expect and that are false of the code, found with these models under other constants. They
are not runs of their own:

Engine and feed:

- `README.md:149-150` says actions only happen if `enable_paper_execution=true` and `execution_mode=PAPER`; `Engine`
  reads neither field, and places an intent in DRYRUN.
- `policy_v0.py:57` says ONLY_EXITS forbids a flip. The policy is asked with the position alone, without open exits:
  two exits of the whole position are both placed, and flip it. `PositionsOnlyShrink` is checked with one exit.
- A reject-like ERROR should become a REJECT (`ibkr_event_normalizer_v0.py:106`); the tap writes `reqId`, the
  normalizer looks for an order id elsewhere, and drops the record: a refusal that comes as an ERROR alone does not end
  the ticket. One that comes as the status Inactive or Rejected does.
- The tap's request for executions sends nothing, by our reading of the client library. Were it answered after a
  reconnect, executions would be counted again: the key holds the callback's time (`README.md:154`) next to the execId.
- A `global_mode` of HALT is treated as NORMAL (`policy_v0.py:54`); anything but ONLY_EXITS is.
- After a crash rolled `next_order_id` back, a new order takes an id the broker already knows. Reconciliation then
  may match a ticket by order id with another intent's order (`execution_v1.py:855`) and report a full ratio.
- A wanted replace is never cleared and hides a wanted cancel (`execution_v1.py:509-524`): with both, the cancel is
  never sent. `CancelWantedEndsTicket` is checked without replaces.
- A replace the policy forbids ends the ticket FAILED and leaves its order open at the broker.
- A replace to what is already filled leaves an open order with nothing remaining: no event ends its ticket.
- With a raising adapter call, `ImplementsLifecycle` fails: an order id is recorded for an order that never reached
  the broker, and `SkipPlaced` takes it for sent. `NoDuplicatePlace` holds all the same.
- When `state.json` is lost while the ledger is one snapshot behind, a recorded end can be undone
  (`RecordedEndIsFinal` needs `MayLoseStateFile = FALSE`), and fills polled but not persisted are lost by a crash:
  a closed order may then never end its ticket.
- Two soaks started over one left lock may both run: one unlinks the fresh lock of the other (`contested`). So may one
  that is started while a running soak's loop takes longer than the limit (`mistaken`). `soak_24h.ps1:18` is a start by
  hand, and nothing in the repository keeps two of them apart.
- The tailer persists its cursor before the lines are applied (`ibkr_file_adapter_v0.py:122`): lines read by a
  process that dies are skipped by the next one, unless it resets the cursor.
- The last status of a batch gives the remaining quantity of every fill in it (`ibkr_file_adapter_v0.py:195`): the
  first of two fills ends the ticket, and the second is dropped as late; `filled` stays short.
- An events file that does not exist when the runner starts leaves it without a tailer for the whole run.

Sender (`ibkr_sender_real_v1.py`):

- Two senders that overlap can send a key twice: each has read the ledger before the other reserved.
- An order counts against the run's limit once it is in the sent log; a sender that dies after placing leaves one
  uncounted. A key reserved by a sender that died before placing is never sent.
- A simulated send marks the ledger like a real one: the key is not sent later for real.
- The stop flag is read once per invocation; a flag set while orders are being sent stops the next invocation.
- The comments at 1094-1096 say that an override must not bypass an execution mode other than FULL. The local gate
  keeps to that; the central one lets a strict test order through under an override whatever the mode, and whether
  or not the override has expired (`CentralAllows`).
- An order that the sanitizer refuses is skipped in every invocation, and neither reserved nor recorded.
- The cursor is not replaced atomically; a death in its write leaves an unreadable cursor, which counts as none.

Operations loop (`auto_loop_v1.py`):

- Without `SerialStarts`, a loop that steals a stale lock can unlink the lock another one has just made. The task that
  starts the loop is registered with `-MultipleInstances IgnoreNew` (`register_stage7_tasks.ps1:84`), which justifies
  `SerialStarts`; a start by hand does not. Without stealing (the default), the lock of a killed loop blocks every
  later one for ever.
- The child of a killed loop goes on; the next loop's child may overlap with it. `OverlapOnlyAfterKill` says this is
  the only way.

WA executor:

- With `--ledger-allow-retry` a key can be submitted many times: its ACK has a lower rank than the REJECT or ERROR it
  follows (`order_ledger_v0.py:30`), so it is lost when the ledger is loaded again. A missing contract or order,
  recorded as REJECT, hides an ACK in the same way.
- A timeout is recorded as REJECT, and an exception after the broker has the order as ERROR, though the order may live
  on.
- The snapshotter writes its END record even when the answer did not come in time (`ibkr_open_orders_snapshot_v0.py`),
  and the gate takes it for complete: with `LateSnapshots`, `OpenOrdersBlock` fails.
- A snapshot may be 600 seconds old: an order opened since then does not block.
- Two executors that overlap have an index each, and can submit a key twice.

Releases:

- The packer skips a release whose two files exist, without comparing them. A pair that does not belong together
  stays so for ever; it comes from a forced repack that dies between its two writes, from a crash together with a
  housekeeping, or from two packers at once.
- After a build that failed half-way, a pack on its own makes a release that verifies though its app is not the one
  its `hashes.json` declares. An acceptance that is switched off, or a failed copy, leaves the report of an earlier
  build in the release.
- Housekeeping keeps the newest zips of all products together (`list_release_pairs`, 26-32): packs of other products may
  push out the last good release of one. The model has one product, and `LastGoodSurvives` is about it.
- Housekeeping ignores pins. A pin whose release is gone makes retention refuse to work until it is removed.
- Temporary files (`*.tmp`) of a packer that died are never cleaned up.
- `watchdog_v0.validate_release` (42-98) expects another layout than `release_pack_v0` writes.
- `retention_v1.classify_run` reads `ok` and `exit_code` at the top of `final_report.json`; `runs_v0.finalize` writes
  them elsewhere.

## 7. Not modelled

- Bytes: torn lines of the events file, encodings, the JSON itself.
- `ControlPlane` loading and validation: a control plane is a constant.
- Health, evidence, manifest and counter fields: written, never read by a guard.
- The soak's backoff; `IbkrFileAdapterV0.snapshot` with its position and open-order files.
- Offline learning, run ledger and workspace patching: planned below.
- Releases: explicit release ids, unpacking, customising and overlays (each writes a directory of its own, once), the
  other files of `dist` (they go with the app), runs and temporary files among what retention deletes.
- The snapshot outside its order path: the paper loop, the rule engine and the audits compute reports from files in one
  thread and keep no state between runs that an order depends on; resets and the UI start the rest; the offline
  learning there is the ancestor of `offline_learning_v0`. Prices, sizes, contracts' details and what is logged are
  left out of the modelled part.
- The process pack (a script over git), the LLM validators, the command line, PowerShell wrappers and data files keep
  no state that several steps or actors change.

Most of the repository by size is of this kind: builders that write files once, reports, a UI, wrappers. The models
cover the part where several steps, processes or failures meet in one state.

## 8. Plan

Done: `FillDedup`, `OrderPolicy`, `ExecEngine`, `OrderLifecycle`, `ExecLifecycle`, `EventFeed`, `SoakLock`,
`RealSender`, `OpsLoop`, `WaExecutor`, `ReleaseStore`, and the proofs of section 4: of the safety properties that the
runs check, all of them. Left, in this order:

1. `RunLedger`: `runs_v0` and `workspace_apply_patch_v0` as writers of one run directory; `finalize` against late
   events; `retention_v1.classify_run`, which reads fields that `finalize` writes elsewhere.
2. `ModelRegistry`: `train` and `promote` as read-modify-writes of `registry.json` and the control plane.
3. A tailer over bytes: a reader that meets half a line.

Modules to be proved about use no RECURSIVE operator; folds and functions take their place.
