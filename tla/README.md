# A formal model of the contract auditor

The repository watches EVM chains for new contracts, runs a Go auditor over the
bytecode and reports the results by webhook; a web panel starts the watchers,
collects their findings and simulates them. Two kinds of parts are hard to get
right: those that keep state on disk while several things happen at once, and the
algorithms of the auditor whose answer everything after them relies on. This
directory models both in TLA+, checks small instances with TLC and proves the
main safety properties with TLAPS for every value of the constants.

    tlc -workers 2 -config StateLease.cfg StateLease     # a run
    tlapm StateLease_proofs.tla                          # a proof

Paths below are relative to `src/`. Line numbers refer to the modelled commit.

## 1. Inventory

### Runner (`runner/src`, TypeScript, one process per chain)

`runRunner` acquires the lease of its state directory, loads `checkpoint.json`,
retries pending webhooks and then processes blocks until it is stopped (or until
the newest final block, with `--once`, or over the blocks of a replay). For each
block it checks the parent hash against the history, finds deployments, audits
them in parallel workers (`runBounded`), emits events, and finally moves the
checkpoint to the block.

| Component | State | Operations | Interacts with | What must hold |
|---|---|---|---|---|
| lease (`lease.ts`) | lock file with a pid | acquire (create, read owner, probe, remove, create again), release, exit hook | every other process on the directory; the panel clears stale locks too | one owner at a time; a dead owner's lock can be taken over; acquire answers |
| checkpoint store (`state.ts`, `utils.ts`) | one object in memory, one file, a promise chain | load, save (prune, write to a temporary file, rename) | all workers share the object | a save that was reported survives a crash; saves are not reordered; one failure does not block the others |
| bounded maps (`state.ts`) | history, deliveredEvents, pendingWebhookEvents, resultCache | touch, drop, cut to the newest entries | pruned by each save | the newest entries survive |
| webhook ledger (`runner.ts`, `webhook.ts`) | the two webhook maps, workers in flight | emitEvent, retry of pending events, mark, record, modes without a receiver | receiver over HTTP, checkpoint store | no event lost; delivered means received; nothing stored as delivered is sent again |
| block watcher (`runner.ts`, `rpc.ts`) | lastProcessedBlock, history | follow the head, fetch, parent check, search for an ancestor, rewind, commit, replay | the chain, by RPC calls between which it may reorganise | each final block is processed on the canonical branch; history is one branch |
| deployment detection and proxies (`runner.ts`, `proxy.ts`, `bytecode_validation.ts`) | result cache in the checkpoint | receipts, traces, slots of proxies, refusal of bytecodes, targets | RPC, audit subprocess, checkpoint store | no deployment of a block the checkpoint has passed is left out; a cached result is the target's own |
| audit subprocess (`auditor.ts`, `process_runner.ts`) | child process, output buffers | spawn, timeout, limit of output, exit | Go auditor | one outcome per audit; no more auditors of a run than workers; a hanging one ends |
| JSON-RPC client (`rpc.ts`) | websocket, timers | calls with retries, wait for the next head | node | each later head is heard of |
| configuration, health, metrics, logs | none that control depends on | parsing, reporting | | |

### Panel (`panel`, Next.js server)

| Component | State | Operations | Interacts with | What must hold |
|---|---|---|---|---|
| runner control (`runner-controller.ts`, `chains-store.ts`, reset route) | status and child handle of each chain | start, stop, exit handler, clear a stale lock, reset state | runner processes, lease | at most one runner per chain; a reset never meets a live runner |
| simulation pool (`sim/anvil-pool.ts`) | slots with child processes | get or spawn, evict, shutdown | anvil | at most MAX_LIVE slots; no fork is forgotten while the panel lives, few when it ends |
| simulation worker (`sim/worker.ts`) | queue, timer, run in progress | tick, schedule, process a finding | pool, findings store | a timer or a tick at any time; each queued finding is settled |
| audit runs (`audit-service.ts`) | runs and their status | start, finish, fail | Go auditor, event bus | each run ends in one final state |
| ingestion (`ingest-watcher.ts`, `findings-store.ts`, `prune-job.ts`) | mtimes of directories, database | scan, insert, prune | artifacts written by runners | each finding is ingested once and keeps its verdict |
| configuration, events, prices, bot, broadcast | files and external services | | | |

### Auditor (`go`, and the Python packages `evm_*` it is compared with)

Sequential: decompile, build the control-flow graph, extract an audit, check rules
against it, apply the policy, judge. Nothing runs concurrently, and a wrong answer
looks like a right one.

| Component | State | Operations | Interacts with | What must hold |
|---|---|---|---|---|
| control-flow graph (`decon/cfg`, `evm_decon/cfg.py`) | worklists, dominator sets, loops | blocks, edges, reachability, dominators, back edges, loops | the decompiler's later passes | an execution follows the edges; dominators are exact; loops nest |
| detector engine (`check/engine`, `check/policy`, `validate.go`, `evm_check`) | partial matches of a sequence, findings | gates, prefilters, scopes, sequences with joins and binds, counter-evidence, status policy | rules, the audit | a rule is reported exactly when the contract is exposed to it; evidence against a finding never makes it stronger |

### What is hard here

* Workers, saves and posts interleave on one object at every `await`.
* An auditor may hang, flood its output, fail or exit, in a race with its time limit,
  while the other workers go on.
* The process may die between any two of them; the receiver may have got an
  event whose answer was lost.
* The chain may reorganise between any two RPC calls.
* Several processes race for one lock file; what was read is stale when used.
* Caps cut maps while entries are added.
* The panel's commands overlap with the exits and timeouts of what it controls.

* A directory that is scanned while it is written shows neither the old nor the new
  state of its tree.
* A worklist algorithm that iterates over a Go map sees another order on each run; an
  engine that joins the steps of a rule keeps partial matches whose bindings must
  mean what the rule says.

`PROJECT.json` lists 40 such hazards at their lines; all but one have properties.
The one is the event id that `audit_failed` and `audit_completed` of a target share
(`runner/src/runner.ts:594`: the ledger is modelled per event, not per outcome of a
target). One more was seen outside the
modelled code: the health port of a chain is its index in the list
(`panel/src/server/chains-store.ts:61`), so a removal shifts those after it.

## 2. The modules

| Module | Models | Lines |
|---|---|---|
| `Recency` | maps cut to their newest entries, `state.ts` | 41 |
| `StateLease` | `lease.ts` and its use in `runRunner` | 252 |
| `CheckpointStore` | `StateStore.save`, `saveNow`, `writeJsonFile` | 175 |
| `DurableRegister` | what the store promises (abstract) | 37 |
| `BlockAudits` | `detectDeployments`, `resolveProxy`, `buildAdditionalAuditTargets`, `validateBytecode`, `processDeployment`, `runBounded`, `runAuditJob`, `NodeProcessRunner`, the result cache; extends `CheckpointStore` | 551 |
| `WebhookLedger` | `emitEvent`, `replayPendingWebhookEvents`, `processRange`, `markEventDelivered`, `recordPendingWebhook`, `postWebhook` | 425 |
| `BlockWatcher` | the loop of `runRunner`, `processRange`, `ensureReorgSafeCheckpoint`, `updateHistory`, `rewindCheckpoint`, the calls to `rpc.ts` | 416 |
| `FinalScanner` | what the watcher promises of a chain with shallow reorgs (abstract) | 47 |
| `RunnerController` | `start`, `stop`, `restart`, the exit handler, `clearStaleLock`, health polling, the reset route; extends `StateLease` | 309 |
| `AnvilPool` | `acquire`, eviction, spawn, idle timers, `shutdown` | 281 |
| `SimWorker` | `tick`, `schedule`, grouping, cache, ingestion and pruning of its rows; extends `AnvilPool` | 232 |
| `IngestWatcher` | the runner's artifact tree and `reconcile` with its memory | 258 |
| `AuditRuns` | `startAudit`, the exit handler, the event stream, the page | 135 |
| `PanelIntake` | composes the two in one process that may die | 40 |
| `BasicBlocks` | blocks and edges as the Go and the Python twin build them | 88 |
| `ControlFlow` | `Analyze`: reachability, dominators, natural loops | 281 |
| `DetectorEngine` | `CheckAudit`, `Run`, `evaluateRule`, sequences, policy | 393 |
| `Auditor` | composes the two as `evm-audit` does | 35 |
| `MCWebhookLedger`, `MCBlockAudits`, `MCSimWorker`, `MCPanelIntake`, `MCAuditor` | instances for TLC | |
| `*_proofs` | the theorems | |

Each action carries the name of what the code does and a comment with the call it
stands for. An operator with a suffix after an underscore
(`Probe_NoLivenessTest`, `Cut_PendingOnly`, ...) is a deliberately wrong variant of
the definition after it. No specification uses it: it is what a plausible bug would
look like, and replacing the definition by it makes TLC report the property that
PROJECT.json names under "mutants".

### StateLease

`file` is the process that created the lock file at the path (or `NoFile`), `named`
whether its payload has been written, `pc` the await at which each process stands,
`seen` the owner it read. `open(..., "wx")`, the write, the read, the liveness probe and
`rm` are separate steps. `Release` is the `finally` of `runRunner`, `HookedExit` the
exit hook, `Kill` a SIGKILL, which neither sees, or the end of a process whose file
operation failed before it had the lease. A process lives once, so a process id is never
reused. `raced` is a history variable: some runner was started while another was inside
`acquire`.

### CheckpointStore and DurableRegister

A version number stands for the contents of the checkpoint. `queue` is the promise
chain, `stage` the await of the running save. The payload is serialised after the
first await (`ensureDir`), so it may be newer than what the caller saw. A failed
write and the death of the process can happen at every stage. The single retry after
ENOENT writes the same payload and is part of the same step. `ImplementsRegister`
is the refinement: `mem`, `disk` and `acked` are those of `DurableRegister`. `Crash` is a
death, `Exit` the end of a run; both leave what `load` reads.

### BlockAudits

The savers of the store are the loop over the blocks and the workers of `runBounded`;
`Chain` is the promise chain, and `now`, `payload` and `file` are the contents that go
with its versions. `phase` is where the loop stands, `dep` the deployment in hand,
`notices` and `todo` the events and the targets it has left, and `at` the await of each
saver: `auditing` while a worker waits for its child, `killed` when the child has been
killed for its output and only its exit or the time limit can end the wait, `artifact`
when there is a result and the artifact is to be written. `auditors` counts the children
of this run that nobody killed; when a run dies or fails they live on, and `orphans` counts
them for good. A worker resumes only at its awaits, so taking a target,
looking into the cache and spawning are one step.

Bytecodes are tokens; `Form` says what `validateBytecode` sees in one, `CloneOf` and
`Forwards` what `resolveProxy` sees, `ImplSlot`, `BeaconSlot` and `BeaconSays` what the node
would answer. A transaction or receipt may be null, traces may be unavailable, the slots of a
deployment or the call of its beacon may fail: these degrade the result as the code does,
and the history variables `unseen` and `unread` record it. Traces show the deployments
that have a receipt too, so one whose receipt was null is `late`: processed after those
that were found by receipt. Any other failing RPC call, artifact write or save ends the run
(`Dies`, `SaveRejected`, `RunFails`). Whether an auditor exits with a report or without one
is open; a report is what the child was run on, its bytecode and the rules as they were when
it was spawned. The pruning of the result cache keeps any `MaxCache` entries, as two of one
millisecond have no order. Rules are edited at any time, also while a run that has hashed
them goes on (`edited` records its fingerprint). The chain does not reorganise and
`emitEvent` only logs, as with `--no-webhook`: BlockWatcher and WebhookLedger are about
these.

### Recency

Only the order of the timestamps matters to the code that cuts a map, so an entry
has an age (1 is the newest) instead of a timestamp. Two entries of the same
millisecond are taken to be in the order in which they were made. `WebhookLedger`
and `BlockWatcher` use the same operators; lemmas about them open their proofs.

### WebhookLedger

An event is a pair of a block and a kind; the id in the code is a hash of the
deployment and the kind, so a block processed again has the same ids. The ids of a
block enter `todo`, up to `Workers` of them are in flight, and `stage` says at which
await each stands: the save of the audit result, the post, the save after marking,
the save after recording. The model lets the events of a block run in any order up
to `Workers` at once, which includes the orders of the code (contract_detected, then
the audits, then findings). `writing` holds the event whose save runs: the promise
chain of CheckpointStore, reduced to what it promises.

`PostFail` leaves open whether the receiver got the event. `MarkSaveFails` is the
`catch` of `emitEvent` reached after a delivered post. Any other failing save leaves
`emitEvent` (`SaveFails`): `runBounded` rejects at once, and the other workers go on,
mark, post and save until the process exits (`RunFails`, `Die`). A mode is how the
operator started the run: `normal`, `noWebhook` (`--no-webhook`), `dryRun`
(`--dry-run-webhook`) or `noUrl` (no WEBHOOK_URL).

### BlockWatcher and FinalScanner

The hash of a block commits to its ancestors. It is the sequence of the labels of its
branch from height 1 to its own: two hashes are equal exactly when the branches are.
`Reorg` replaces the canonical blocks from a height on; the head never falls. `mem`
and `disk` are the two checkpoints, `phase` the await at which the runner stands:
every RPC call is a step and `Mine` and `Reorg` may come between any two. The search
for an ancestor looks at one history entry per step. `Commit` stands for the
deployments of the block (the subject of WebhookLedger) and the save after them.
`ImplementsScanner` is the refinement: `final` of `FinalScanner` is the canonical chain
without its newest CONFIRMATIONS blocks, and `last`, `done` and `remembered` are read off
the saved checkpoint.

`WebhookLedger` and `BlockWatcher` take a save outside the workers as one step: no
worker runs beside it, and CheckpointStore shows that a crash finds either the old
or the new file.

### RunnerController

The panel is one event loop, so a handler up to its next `await` is one step, and the
exit of a child resumes in one turn all who wait for it. The runners are the processes
of `StateLease`; their steps, deaths and refusals interleave with the panel's. `calls`
are the `stop()` calls that wait for an exit, `watched` the children whose exit the
panel has yet to hear of. `hasty` is a history variable for what costs the panel its
control: a start or a reset that is accepted while a stop is under way, a handle that
`stop` abandons after its time-out, and a restart of the panel beside a live runner.
Three properties hold until then; `LockOutlivesControl` says what is left
after: the lock. `spoiled` is a reset that deleted the lock file of a runner. The clearing of
a stale lock by the panel is one step (it is synchronous); which exit code a refused
runner has is open. Chain removal, ports, log buffers and metrics are left out.

### AnvilPool and SimWorker

`acquire` awaits the end of an evicted process, the listening of the new one and the
calls that set it up; `call` says where each caller stands. The continuations of all who
share a spawn run in one step, as they do in the microtask queue. A timer that is armed
may fire at any time, and the oldest slot may be any, as time is not modelled. `Shutdown`
is the signal handler in a process that goes on; `PanelEnds` is the end of the panel by
`process.exit` or a kill, at any await, which takes the timers and the calls with it:
what runs then and is not in the map gets no signal, and the next panel has an empty pool
(`LeftByExit`, `LeftByKill`).
The worker's tick looks up the cache, looks at what a contract holds, and has groups
simulated one at a time by the pool; meanwhile its rows may be ingested again or pruned.
`armed` counts its timers, since an empty tick arms two (`worker.ts:255`, `:347`) and only
the last is remembered; those beyond `MaxTimers` are left out. `PanelRestarts` is
`startIfNeeded` after such an end, with the back-fill from the cache. A fork that was sent
SIGTERM is taken to end (the SIGKILL after two seconds is not a step of its own).
An on-demand user takes forks beside it. The later passes and sidecars, errors of the
database and the engine version in the cache key are left out; `wake` brings a tick
forward that is armed anyhow, and `stop` of the worker is never called.

### IngestWatcher, AuditRuns and PanelIntake

The tree is that of a single runner, `artifacts/<chain>/<block>/<tx>`. A runner makes a
directory or writes a file at any time; a scan asks for a directory's mtime, then for
its entries, in two steps. `changed` are the directories whose mtime is not the remembered
one: every change of the entries gives a new mtime (a second write within one tick of
the file system's clock is not modelled). Trimming the memory forgets any subset down to
its limit. A `stat` or `readdir` may fail, up to `MaxFails` times: the scan goes on with
the next directory, and what it has remembered stays remembered (`StatFails`,
`ReadDirFails`). `NoneOverlooked` is about steps: an artifact that the running scan or the
next one will find is still one after any step, or has been read, unless that step is a
failing call that `Hides` one of the directories `Above` it.

A manual audit's child may end, hang for ever (nothing limits it), or not be born; its exit
handler may throw at the two places outside any `try`, which leaves the row "running".

### BasicBlocks, ControlFlow

A program is a sequence of instructions; a block is a maximal run of them. Edges come in
two forms because the twins differ (section 6). The worklists are sets. Go ranges over a
map in the inner loop of `computeDominators`, so a pass refines the blocks in any order,
and every order is explored.

### DetectorEngine and Auditor

A fact, guard, tag or effect is a token. What a rule asks of one function, slot, access
or call alone (roles, origins, confidence, flows) is data, the `fits` of that row; what
relates rows to each other is modelled: gates by tags and facts, coverage, scopes, the
steps of a sequence with their joins and binds, of which a step may have several, the
four classes of counter-evidence, and the status and severity that `policy.go` gives.
`contexts` are the partial matches, one step of the sequence per action. The confidence,
evidence and trace of a finding are left out; its witness is data. A join in a field
that the engine does not look at is `unread`: the validator takes it for a join. Audits
that `ValidateAudit` refuses are not in `Audits`, and neither are panics of the
pipeline. `Auditor` puts the graph and the engine in one program: the extraction of the
audit in between is any audit at all.

## 3. What the runs show

| Run | Question | Bounds | States |
|---|---|---|---|
| `StateLease` | Are ownership and takeover right? | 3 processes, kills | 5,747 |
| `StateLease_contended` | Is ownership exclusive when starts race? (no) | 3 processes, no kills | counterexample |
| `BlockAudits` | Is each deployment audited before the checkpoint passes it, over a store that is a durable register? | 2 blocks of 1 and 2 deployments, 2 workers beside the loop, 1 fault, 1 edit of the rules at any time, a cache of 1 | 464 thousand |
| `WebhookLedger_once` | Is each event received, and not sent again? | 2 blocks of 2 events, 2 workers, 2 faults, a replay, caps not reached | 40,715 |
| `WebhookLedger_modes` | Is anything lost at caps of one entry and in any mode? | 2 blocks of 2 events, 2 workers, 2 faults, a replay | 556 thousand |
| `BlockWatcher_final` | Is each final block processed? | height 4, reorgs of 1 block, CONFIRMATIONS 1, 3 upsets | 12,986 |
| `BlockWatcher_deep` | Is the memory of the chain consistent after any reorg? | height 4, reorgs of up to 4 blocks, MAX_REORG_DEPTH 2, history of 3, 2 upsets | 1.3 million |
| `BlockWatcher_lost` | Does a tolerated reorg lose blocks? (yes) | height 4, reorg of 2 blocks, CONFIRMATIONS 1 | counterexample |
| `RunnerController` | Does the panel keep one runner, and its lock and state? | 2 processes, kills, panel restarts | 304 thousand |
| `SimWorker` | Are forks bounded and killed, and is every finding settled? | 2 findings with one bytecode, 3 chains, 2 callers, 2 processes, one fork, one ingestion beside the rows that are there, 2 timers, any number of ends of the panel | 323 thousand |
| `PanelIntake` | Is each artifact ingested, each outcome shown? | 4 directories, 2 artifacts, memory trimmed to 1, one manual run, one page, one failing call, one death | 287 thousand |
| `Auditor` | Is the analysis exact and the engine's answer right? | programs of 5 instructions, audits of up to 3 rows, rules of each shape | 149 thousand |

The properties, by the hazard they are aimed at:

* `SerialExclusion`: the lease is exclusive, and the owner's file is its own, through
  stale locks, takeovers, kills and abrupt exits, unless a start raced with another.
  `CompleteLockNamesOwner`: a runner that gave up leaves no lock that would refuse the
  next for ever, however starts interleave. `TakeoverSucceeds`: a dead owner's complete
  lock is taken over. `RefusedRightly`: a start gives up only on a living owner, on one that
  released meanwhile, on a blank lock or after a race; and a lock that a kill left blank
  stays, so it refuses every start until somebody removes it.
* `ImplementsRegister`: the file moves only forward and what was reported is stored.
  `DrainedIsLatest`: the promise in the comment at `runner/src/state.ts:13`.
  `SavesSettle`: a failure does not leave later saves waiting. They are checked, and
  proved, of the store as the loop and the workers use it.
* `CommittedMeansProcessed`: each deployment of a block that the checkpoint has passed,
  in memory or on disk, was announced, and each of its targets audited or refused,
  whatever timed out, was rejected or died; if the node showed it by a receipt or a trace,
  and the targets behind a proxy if its slots could be read. A clone counts as processed
  when its refusal is reported (section 6). `ReportsAreOwn`: a result that is used,
  cached or not, is a report on the target's own bytecode under the rules of the run,
  unless rules were edited during a run with that fingerprint.
  `AuditorsBounded`: children of the run that nobody killed are never more than the workers,
  there is none when a deployment is closed, and a run that fails or dies leaves no more
  than that behind, one that ends well none. `BlocksFinish`: every block is committed in
  the end, though an auditor may hang for ever and a killed one may never be reaped.
* `NothingLost`: no event of a block that the checkpoint has passed is gone, in memory
  or on disk, whatever fails. `DeliveredMeansReceived`, `NoResend`: the ledger is
  right about what it holds. `EveryEventArrives`: with a bounded number of faults,
  each event is received. `CheckpointBounded`: the file exceeds its caps by less than
  the number of workers.
* `NothingSkipped`: with CONFIRMATIONS at least the depth of the reorgs, each block up to
  the checkpoint was processed on the branch that is canonical now. `ImplementsScanner`:
  then the runner is a scanner of a chain that only grows; each save processes the block
  after the last or one processed before, and the history has no other blocks.
  `HistoryOneBranch`, `LastIsRemembered`: for reorgs of any depth the history stays usable.
  `EveryFinalBlockScanned`: liveness.
* `OneKnownRunner`, `ControlProtectsState`, `LiveRunnerIsPolled`: while the
  panel has control, at most one runner lives, the panel holds its handle, no other takes
  its lock and nothing deletes its state, and it is polled. `LockOutlivesControl`: with
  or without control two runners never own the directory at once, as `clearStaleLock` and
  the lease leave a live runner's lock alone, unless starts race or a reset deletes it.
  `StopEnds`, `VictimDies`: a stop answers, and a process that was asked to end does.
* `PoolBounded`: spawns that overlap exceed MAX_LIVE by at most one fork for each caller but
  one. `NoForkForgotten`: while the panel lives, a fork that was not killed is being set up
  by a caller, or has an idle timer of its own that will kill it, also after a shutdown
  that does not end the panel; when the panel ends, it leaves at most one fork for each
  caller behind, or if it is killed what the pool may hold. `FindingsSettle`: each
  finding that stays gets a verdict, whatever the timers, the cache, ingestions, restarts
  and other users of the pool do.
* `NoneOverlooked`, `ArtifactsIngested`: no artifact falls between the two questions a
  scan asks of a directory, and a failing call hides at most what is below its directory.
  `OutcomeReachesPage`: a page that follows a run learns how it ended, unless the auditor
  hangs, was never born or outlived the panel, or the handler threw.
* `EdgesCoverExecution`: whichever jump with a known target an execution takes, the next
  block is a successor. `DominatorsSound`, `DominatorsExact`: the sets, compared with
  their definition by paths. `LoopsNest`: a loop found is the natural loop of its back edge,
  none is missed, and two of different headers are disjoint or nested.
* `MatchesAreChains`: the partial matches are exactly the chains of rows whose joins hold
  under the bindings of the earlier steps. `ReportedIffExposed`: a rule with a
  sequence is reported exactly when it passes its gates and some chain is unprotected.
  `EvidenceNeverPromotes`: counter-evidence and poor coverage only weaken a finding, but
  for the cases its comment excepts.

### Why the bounds are enough

Three processes are what the lease's races need: the stale owner, one that takes over,
one that acts on an outdated read. Two workers beside the loop give the promise chain a
failed save with another behind it, or a death in the middle of two; one fault is either
of them. The two blocks hold a proxy with its implementation and a contract with the
proxy's bytecode but without its slots, whose result may come from the cache but must
not (its kind differs), both shown by traces only, and a clone that a receipt shows, or
a trace if that is null. The beacon has its branch in `Resolve`, but no account here:
the theorems cover it. The cache of one entry is pruned with every second result. One
edit, which may come between the hashing of the rules and a spawn, gives a report that
is cached under the fingerprint of before; taking it back needs a second. Three targets
at once, a second fault or edit take TLC beyond five minutes; the safety theorems hold
for any number of them. Two workers and caps of one entry make a worker settle an event
while the other's save runs and make that save exceed the cap. Height 4 with a history
of three and a search depth of two reaches every outcome of the search: found at once,
found after going on, given up by depth, given up at the end of the history; rewinds
below a replayed block; and a head that is lower than a replayed range. Labels bound how
often a height is replaced; two are enough for a block and its rival.

Two runner processes are a runner and the one that starts beside it; a third takes TLC
beyond five minutes, and the theorems hold for any number. One fork for three chains
makes every acquisition evict; two findings with one bytecode make one answer serve
both; two timers are what one empty tick makes of one, and an end of the panel meets
every await of both callers. Two transactions in one block give a scan something new
below, beside and behind where it stands, and one failing call hides one of them or
both. Five instructions give a loop in a loop, a loop with two back edges and a graph
whose passes depend on the order; the cap of two passes is reached. Three rows and three
steps give a chain that binds a name twice, a step that binds two, a join of an unbound
name, one that is not read and a rule with one suppressed and one exposed match.

`MaxFaults`, `MaxRules`, `MaxEdits`, `MaxUpsets`, `MaxReplays`, `MaxVersion`,
`MaxIngests`, `MaxTimers`, `MaxFails`, `MaxRestarts` and `Top` bound counters
that have no bound in the code; the theorems do not depend on their values. `MaxIter` is
a cap of the code (100).

### Fairness

* StateLease: a process inside `acquire` takes its next step (local file operations).
  Nobody has to release, exit or start.
* BlockAudits: the event loop runs what is on the promise chain, the loop and the workers
  go on when what they await is there, and the runner is started again. The time limit
  of an audit fires. No auditor has to exit, killed or not.
* WebhookLedger: the awaits of a run return, and the operator keeps starting `--once`
  runs (`docs/RUNNER_GUIDE.md:42`). The receiver is not assumed fair: failed posts are
  bounded by `MaxFaults` instead.
* BlockWatcher: RPC calls return and the runner is started again after it ended. The
  wait for a head resolves when there is a new head, if only by the timer that falls
  back to polling. The chain is not assumed to grow.
* RunnerController: the exit of a child is handled, a process that was sent SIGKILL
  dies, the time-outs of a stop fire, and a restart goes on after its stop. A runner
  need not obey SIGTERM.
* SimWorker: the worker's awaits return and its timer fires, and the pool goes on with each
  caller's spawn. Exits of forks, ingestion, pruning, shutdown and the end of the panel are
  not fair. `FindingsSettle` supposes that some panel stays up: one that ends again before
  each tick is over settles nothing.
* PanelIntake: the timer of the scan fires, file operations return, and the steps of the
  exit handler do. An auditor ends unless it hangs, which it may do for ever. Failing calls,
  runners and users do as they like.
* Auditor: none; its properties are invariants.

Deadlock is checked in every run but `Auditor`, whose program ends. The other models that
may really stop have a stuttering action that says when: `AllEnded`, `Quiet`, `AtTop`.

## 4. What is proved

For every value of the constants that the modules' ASSUMEs allow:

| Theorem | States |
|---|---|
| `StateLease_proofs!TypeCorrect`, `RunnersExclude`, `NoLockLeftBehind`, `RefusalsAreRight` | `TypeOK`, `SerialExclusion`, `CompleteLockNamesOwner`, `RefusedRightly` |
| `BlockAudits_proofs!TypeCorrect`, `StoreImplementsRegister`, `ReportedIsStored`, `DrainedStoresLatest` | of any use of the store: `TypeOK`, `ImplementsRegister`, durability, `DrainedIsLatest` |
| `BlockAudits_proofs!AuditsUseStore`, `RunnerImplementsRegister`, `RunnerStoresLatest` | the runner's steps are steps of the store, so it has these properties |
| `BlockAudits_proofs!AuditTypes`, `AuditorsAreBounded`, `ResultsAreOwn`, `CommittedIsProcessed` | `AuditTypeOK`, `AuditorsBounded`, `ReportsAreOwn`, `CommittedMeansProcessed` |
| `BlockAudits_proofs!WaitersAreQueued`, `CommitsAreComplete`, `NothingAwaitedInVain` | a worker that waits for a save is on the chain; after a commit the chain is empty and the file is memory; each await has what will answer it |
| `WebhookLedger_proofs!TypeCorrect`, `NoEventLost`, `LedgerIsSound` | `TypeOK`, `NothingLost`, `DeliveredMeansReceived` if each run has a URL |
| `WebhookLedger_proofs!NeverResent`, `FileBounded` | `NoResend` if the ledger has room for every event, `CheckpointBounded` |
| `WebhookLedger_proofs!NoneExcused` | if pending has room and all runs send: each passed event was received or is pending |
| `BlockWatcher_proofs!NoBlockSkipped`, `OnlyCanonicalRemembered`, `CheckpointIsFinal` | `NothingSkipped`, `HistoryCanonical`, `CheckpointFinal` if reorgs are no deeper than CONFIRMATIONS and replays are of processed blocks |
| `BlockWatcher_proofs!ScansFinalChain` | `ImplementsScanner` under the same condition |
| `BlockWatcher_proofs!WatcherTypes`, `LastRemembered`, `OneBranch` | for reorgs of any depth: `TypeOK`, `LastIsRemembered`, and `HistoryOneBranch` if no abandoned branch returns |
| `RunnerController_proofs!ControllerTypes`, `OneKnown`, `StateProtected`, `Polled`, `LockOutlives` | `CtlTypeOK`, `OneKnownRunner`, `ControlProtectsState`, `LiveRunnerIsPolled`, `LockOutlivesControl` |
| `RunnerController_proofs!StopHasTimer`, `VictimSeenDead` | a stop that waits has what ends it; a wait ends with its victim dead, sent SIGKILL, or the panel gone |
| `SimWorker_proofs!WorkerTypes`, `ImplementsPool`, `Remembered`, `Bounded` | `TypeOK`, the worker's steps are steps of the pool, `NoForkForgotten`, `PoolBounded` |
| `SimWorker_proofs!NeverStuck` | findings that wait have a tick or a timer, groups and callers have what they wait for |
| `PanelIntake_proofs!IntakeTypes`, `NothingOverlooked` | `TypeOK`, `NoneOverlooked` |
| `PanelIntake_proofs!RunsAreInHand`, `DecidedOnce` | a run that is "running" is in someone's hands, unless its handler threw or it lost its child or its panel; its outcome is written and told once |
| `Auditor_proofs!Covers`, `ReachesExecuted` | `EdgesCoverExecution`; every block an execution enters is found reachable |
| `Auditor_proofs!AnalysisTypes`, `Sound`, `Exact`, `Nest` | types of the analysis, `DominatorsSound`, `DominatorsExact`, `LoopsNest` |
| `Auditor_proofs!MatchedChains`, `ReportsTheExposed`, `EvidenceOnlyWeakens` | `MatchesAreChains`, `ReportedIffExposed`, `EvidenceNeverPromotes` |
| `Auditor_proofs!ReportsAddUp` | the report is the union of what each rule, on its own, has to say of the audit, and empty if a rule is not valid |
| `Auditor_proofs!RunsTheEngine`, `AuditorKeepsBoth` | the composition's steps are steps of the engine; it keeps the invariants of both parts |

**Lease.** Exclusion is not inductive: it depends on what a process read being still
true when it removes the file. `SerialInv` adds that at most one process is acquiring,
that what it saw is the current file or the file is gone, and that a process about to
remove a lock removes a dead one's. All of it holds until a start races, so the
invariant is `TypeOK /\ (~raced => SerialInv)`. That is also where a fix would have to
go: `SeenIsCurrent` is what two racing starts break. `NoLockLeftBehind` needs no such
condition: whoever may still write a file is its creator or finds it gone.
`RefusalsAreRight` also needs that what was read is current, and that a blank file is the
unfinished one of a process that is writing it or was killed (`BlankIsUnfinished`).

**Store.** Each queued save belongs to one waiting worker and was called for a version
memory has (`QueueInv`); the payload of the running save is at least as new as the file
and as that version (`PayloadInv`). With these each step is a step of the register or
a stutter. `NewestInv` adds that the last save on the chain was called for what is in
memory, which the drained chain has stored. `CommitsAreComplete` follows the last save of
a block through its stages: outside `audits` only the loop saves (`LoopSaves`), so when its
save runs no worker can change what it serialised (`CommitPayload`).

**Audits.** `WorkInv` says that a worker has a job exactly when it is not free, that
nobody works outside `audits`, and that `auditors` is the number of workers that wait
for a child: the bound is a cardinality. `OrphansInv` charges each run that ended by a
failure with as many auditors as there are workers: `faults` counts those runs, and a
run that is about to fail (`RunFailing`) has its fault already, while one that ends well
has none to leave, since outside `audits` there are none. `ReportsInv` carries
`ReportsAreOwn` through the cache: an entry of the checkpoint, in memory, in the payload
being written or in the file, is what its key says unless its fingerprint is in
`edited`, and during a run the rules are those it hashed unless the run's fingerprint
is. `CommittedMeansProcessed` is about the past, so `ProcInv` follows what still has to
be done: an event of the deployment in hand waits for its turn, is the target of a
worker or went through `emitEvent` (`InHandInv`); a deployment of the current block is
processed or still in `deps` (`BlockInv`); the blocks that memory has passed are
processed (`PassedInv`), and neither payload nor file is ahead of memory (`OrderInv`).

**Ledger.** `NothingLost` speaks of blocks the checkpoint has passed; the step that
passes a block needs to know of the current one. `EventInv` says that each of its
events still has to be taken, is in flight or is accounted for, and that an event whose
outcome is being saved is accounted for already. `RunInv` keeps a run at most one block
ahead of its checkpoint. `LedgerInv` bounds the ledger by what its entries vouch for.
`NoResend` follows from the file never holding an id that memory has lost, which needs
that no cut removes one (`RoomInv`); with a full ledger it is false, and the cap is what
bounds how far back a replay is safe. `CheckpointBounded` is a count: while a save runs,
memory exceeds a cap by no more than the other workers that await a save (`SlackInv`),
and the one that saves is not among them. `NoneExcused` drops the excuses from
`NothingLost`: with room in pending no cut ever removes an event, and a mode other than
`normal` is what else would leave one out. That touching, dropping and cutting keep the
ages a ranking are lemmas about `Recency` for every finite key set.

**Watcher.** `Sound` says of a checkpoint that nothing about it can be undone by a reorg:
what it remembers and passed has CONFIRMATIONS blocks on top. `RunInv` says the same of
the range in progress, and that the search is never entered. A reorg of allowed depth
does not touch what `Sound` speaks of (`Stable`, `ReorgStep`). For the refinement `ScanInv`
adds that memory and file agree between steps and no run works below START_BLOCK; then a
block on top makes the next one final, a reorg and every other step but `Commit` are not
seen, and `Commit` is `Process` (`ScanStep`). Without a limit on reorgs
other facts remain. The search looks at an entry of the history and each cut spares
the newest one (`WatchInv`, `SearchInv`). And the labels of the canonical chain only grow
in lexicographic order (`NotAfter`) when no branch returns, so a block that was canonical
before and after a call was so during it (`Between`): the entry the parent check
compares with and the block that was fetched lie on one branch.

**Controller.** Until control is lost, a runner that lives is the child whose exit the
panel awaits, it is the only one, and the status and the timer say so (`Supervised`);
alone, a runner that created the lock file still has it (`LockKept`). Out of control
`LeaseKept` remains, from the lease's own invariant: `clearStaleLock` removes only the
lock of a process that is gone, which is what a runner about to own relied on, and what
a reset takes from a runner is in `spoiled`; so each step keeps the exclusion that
StateLease proves for starts that do not race. `EscalationPending` needs no such
condition: whatever overlaps, the first call that found the runner up stays in `calls`
until its victim exits or its second time-out gives up.

**Pool and worker.** `CallsInv` says what a call carries at each await; `SpawnInv` that
a chain that is being spawned has no slot and one spawner, with a fork of its own;
`TimerInv` that until a shutdown ends, an idle timer is that of the slot in the map.
What the panel leaves behind when it ends is counted: each running fork has a caller or
a timer (`ForksInHand`); before a shutdown the forks are those that callers carry
(`CarriedBy`) and those in the map (`FewLeft`); from a shutdown on, the forks and the
callers that have yet to spawn one (`Forkless`) are together no more than the callers
(`CloseInv`, `NoMoreRuns`). The worker changes the pool only through its actions
(`Composition`), so the pool's theorems hold of the whole. `NeverStuck` adds where each
continuation is: `AwakeInv` for the timer and the tick, `WaitInv` for the callers of a
spawn that others share.

**Intake.** An artifact is not overlooked as long as there is a "way" to it: directories
from one the scan is bound to visit down to the artifact's, each of which it will enter.
A failing call takes one directory out of the way; only the artifacts below it lose
theirs, and not if it is one that every scan enters. `TreeInv` (directories are made
from the root down), `ScanInv` (what the scan holds belongs to its await) and `SeenInv`
(what is remembered was read) keep such a way through each step of a runner and of the
scan. `RunsInv` relates a run's row to its child and its handler; an outcome is written
only from "running", and no page follows a run without a row.

**Analysis.** `Covers` is about a recursive function, the scan that cuts a program. The
library's induction theorems take an operator as a parameter, which the provers cannot
instantiate; so the induction is done over sets: a nonempty finite set of naturals has a
least element (`LeastOf`, from the well-foundedness of the strict subset relation on
finite sets), and a set that has 0 and with each number the next has them all
(`SetInduction`). With it the scan function exists and after each instruction its blocks
tile what was read, closed where a block must be (`ScanKeeps`); then each instruction is in
one block, a jump's destination is the first of its own, and only a terminator or a
following JUMPDEST ends one. `ReachesExecuted` uses `Covers` once more: the blocks of
`reached` are closed under execution.

`Sound` and `Exact` rest on the sets shrinking towards the true dominators from above,
whatever the order of a pass; at a fixed point they are equal. Where the cap ended the
iteration a count helps: for each d that does not dominate all, a pass takes d from the set
of at least one more block (`Learns`), and the entry and the last block need no pass of
their own (`CapIsEnough`), so the cap of 100 is enough for 102 reachable blocks. `Nest`
follows from exactness: a loop's header dominates its body.

**Engine.** `TurnInv` is about the registers of the rule whose turn it is (only a gated
rule is matched on an audit). `ChainInv` says the kept contexts are exactly the chains
of the steps matched so far, and each binding is what its name stands for on the chain.
`ReportInv`: every finding of a sequence rule is about an exposed contract, and every
earlier exposed rule has one. `SumInv` accumulates the verdicts: a rule's verdict is defined
without the engine's registers, from the audit alone, and what has been reported is the
sum over the rules before `turn` and, in a rule of function scope, over the functions that
have been asked. Hence neither the order of the rules nor that of the functions matters.
That two sets of matches with the same rows give the same finding (`SequenceFindingRows`)
is what lets the bindings be forgotten.

## 5. What is only model-checked

Liveness (`TakeoverSucceeds`, `SavesSettle`, `BlocksFinish`, `EveryEventArrives`,
`EveryFinalBlockScanned`, `StopEnds`, `VictimDies`, `FindingsSettle`,
`ArtifactsIngested`, `OutcomeReachesPage`) is out of the prover's reach and stays with
TLC. For most of them the safety half is a theorem, which says that whatever a property
needs to happen next is enabled or awaited by somebody: `RefusalsAreRight`
(`TakeoverSucceeds`), `WaitersAreQueued` (`SavesSettle`), `NothingAwaitedInVain`
(`BlocksFinish`), `NoneExcused` (`EveryEventArrives`), `StopHasTimer` and `VictimSeenDead`,
`NeverStuck` (`FindingsSettle`), `NothingOverlooked` (`ArtifactsIngested`) and
`RunsAreInHand` (`OutcomeReachesPage`). Every safety property of a passing run is a
theorem; the conditions some need are in the table. The type invariants are proved and in
no run.

## 6. Findings

1. *Blocks lost after a tolerated reorg* (`BlockWatcher_lost`, `runner/src/runner.ts:198`).
   After a rewind to ancestor `a`, `processRange` goes on with the block `n` it had
   fetched, and the commit moves the checkpoint to `n`. Blocks `a+1 .. n-1` of the new
   branch are never processed. MAX_REORG_DEPTH is described as the depth tolerated.
2. *Two owners of one state directory* (`StateLease_contended`, `runner/src/lease.ts:42`).
   Two runners that read the same stale lock: the second removes the lock the first has
   just created.

What the modules contain as the code has it, and no run reports:

*Runner.* A kill between creating and writing the lock leaves a blank file that refuses
every later start. `checkpoint.json` may exceed its documented caps by up to one less than
the number of workers. An event whose marking save failed stays in pending until the cap
cuts it. Without WEBHOOK_URL `postWebhook` returns at once (`webhook.ts:5`) and the event
is marked delivered, against `docs/RUNNER_GUIDE.md:176`; once a URL is set it is skipped. If
an abandoned branch becomes canonical again during the search, the history mixes two
branches (`HistoryOneBranch` fails with `ForksReturn = TRUE`).

*Runner: audits.* An EIP-1167 clone is refused by `validateBytecode`
(`bytecode_validation.ts:45`), so it gets an `audit_failed` event and its implementation
is never audited, although `docs/RUNNER_GUIDE.md:204` says that clone shells trigger a
second audit; `proxyShell` in `runner.ts:537` is never true. A transaction or receipt
that the node answers with null drops a direct deployment (`runner.ts:293`, `:301`):
unless traces show it, its block is passed without it and nothing retries, though
`docs/RUNNER_GUIDE.md:190` says that direct deployments are still processed correctly
then. The same holds of the internal deployments of a block without traces and of the
implementation of a proxy whose slots could not be read, which counts as a plain
contract. Failures are not cached but not retried either. A cached result brings the
path, and with it the chain context, of the first contract with that bytecode, and no
artifact for the new one. Two deployments of one transaction write the same
`deployment.json` and artifacts (`state.ts:83`). `--eof` follows the bytecode of the
shell, not of the beacon or implementation that is audited, and is not in the cache key.
The rules are hashed once per run (`runner.ts:73`) and read by each auditor when it is
spawned: results under edited rules are cached under the fingerprint of before, and a
later run with the old rules takes them for its own, against `docs/RUNNER_GUIDE.md:170`.
`process_runner.ts` has no `error` handler, so a child that cannot be spawned ends the
runner; it resolves on exit, when output may still be in the pipe; after a time-out the
killed child may live while the next one starts; and the children of a run that dies or
fails live on beside those of the next, so that together they exceed the number of
workers. `queueDepth` is not decremented when `runAuditJob` throws (`runner.ts:540`).

*Panel: control.* `start` is accepted while the status is `stopping`, and so is reset,
against its own comment (`reset-state/route.ts:10-12`); a handle that `stop` gave up
leaves its exit pending; a panel that restarts does not find the runner it left. These
are the cases of `hasty`.

*Panel: pool and worker.* An empty tick arms two timers (`worker.ts:255`, `:347`) and
`schedule` remembers the last, so they multiply without bound. When the panel ends,
forks that are being set up or evicted get no signal (all of them if it is killed),
their timers end with it, and the next panel does not know them. The back-fill at start
gives cached verdicts to manual findings, against "Manual audits ALWAYS run fresh"
(`worker.ts:459`). Errors and skips are cached and given to other findings with that
bytecode. A fork that dies during its set-up is inserted dead. A slot that is in use can
be evicted.

*Panel: intake.* A file added to a transaction directory that has been scanned is never
ingested if the scan finds the directory's parent unchanged. A directory whose `readdir`
fails after its mtime was stored (`ingest-watcher.ts:137`, `:142-144`), or whose `stat`
fails below a parent that is remembered (`:124-128`), hides what is new below it until a
scan enters it again: after a change there and in the directories above, a trimming of
the memory, or a restart of the panel. A file that could not be read counts as seen
until then; an artifact written again by a replay is not ingested again.
`waitForAuditRun` of the historical scan (`route.ts:314`) waits for "completed" or
"ingested" while the audit service writes "ok". The page ignores the event "snapshot",
so a run that ends before the stream connects is never shown. The auditor of a manual
run has no time limit (`audit-service.ts:185`), and its exit handler throws outside any
`try` if the artifact cannot be ingested (`:241`) or the last UPDATE fails (`:358`):
then, as when a child cannot be spawned or the panel dies, the row stays "running" and
the page waits. In `FindingsTable` a stale response can overwrite newer rows.

*Auditor: graph.* Go's `Build` leaves the targets of jumps at -1 and nothing sets the
exits later, so its graph has fall-through edges only and no loop, unlike the Python
twin's. `detectNesting` makes two loops of one header each other's parent, and takes the
last enclosing loop, not the innermost. Bodies may include unreachable predecessors. The
cap of passes leaves supersets of the dominators.

*Auditor: engine.* A sequence rule with one suppressed and one exposed match is emitted
with the status `suppressed_by_counter_evidence` (`engine.go:234`, `policy.go:25`). A
downgrade takes critical and high to medium, and everything else, info too, to low.
Failing coverage gives medium where good coverage with a downgrade gives low.
`manual_review_if_any` is not looked at for sequences; library fingerprints and the kind
of the proxy's slot count as counter-evidence for sequences only; `same_guard_as` and
`same_delegate_target_as` satisfy the validator (`validate.go:368`) and are never
evaluated (`unread` in the model); a join may name a variable no step binds; shipped
rules bind the key `target`, which the engine never stores; sequences of contract scope
are not validated. Predicates on slots ignore the guards of slots, and a rule with
`external_call` alone also matches slots. A match key the engine does not know never
matches (`rules/core/token.erc20_approve_race`), and rules of function scope ignore
`sequence`. A rule that looks for a delegatecall satisfies its own authorized effect.
One invalid rule makes `CheckAudit` return no findings at all.

## 7. Plan

Done: the runner's core with its audits, the panel's control, pool, worker and intake, and
the auditor's graph and engine. What would come next, in this order:

1. `BlockAudits` composed with `WebhookLedger`: the outcomes of a target that share an
   event id, and the saves of `emitEvent` among those of the audits.
2. `FindingsTable`: responses that arrive out of order.
3. The extraction of the audit between `ControlFlow` and `DetectorEngine`, which would
   replace "any audit" in `Auditor`.
4. Two refinements in the manner of `ImplementsScanner`: the lease as a lock with one owner
   while starts do not race, and the ledger as a mailbox from which nothing is lost.

## 8. Not modelled, and why

* Parsing and validation of configuration, CLI, chains and schemas: values appear as
  constants with assumptions. START_BLOCK is at least 1 in the model.
* The parsing of traces and storage slots, and the temporary file that passes a long
  bytecode to the auditor. The contents of artifacts: they are written the way
  `checkpoint.json` is.
* The `runner_started` event, which has no ledger entry; health, metrics and logs.
* `--once` in `BlockWatcher`: it is the continuous mode cut short.
* Retries inside an RPC call and the websocket protocol: a call is one step that returns
  or ends the run.
* The panel's views, its bot, prices and token data: rendering, and I/O around external
  services.
* The panel's simulations of single rules and its rescue and broadcast code
  (`sim/exploits`, `sim/rescue-prove.ts`, `rescue/`): sequences of calls to a fork or a
  node for one case each. In `SimWorker` a simulation is its answer.
* In the auditor: the stack simulator, storage and value recovery, the extraction of the
  audit, SARIF and reports, and the judge, which asks a language model.
* `evm_diff`, `evm_rule`, rules, corpus, profiles, contracts and documents: comparison
  tools and data.
