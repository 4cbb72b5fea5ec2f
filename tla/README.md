# Fleet Engine: a TLA+ development

Fleet Engine (`src/src/fleet`) migrates many repositories into one monorepo. A
run takes every repo through four phases (SCAN, TRANSFORM, BUILD, VERIFY); each
phase of each repo is one row of the SQLite table `phases`. Commands (`fleet
scan`, `transform`, `build`, `verify`, `resume`, ...) are processes that lease
rows, run workers under the lease, and write results back. Several processes,
crashed ones and operators act on the same rows. What keeps them from harming
each other is a handful of compare-and-swap statements, a fence number per row,
a ledger of reserved dollars and, for repos that had to be verified against
stubs, a protocol that takes the stubs back. Before the phases, `fleet scan` and
`fleet sequence` turn what the repos hold into a dependency graph and the graph
into waves; behind them, all repos meet on one integration branch, and the
workers share one client for language models. This development is about those.

## Inventory

| Component | State | Operations | Talks to |
|---|---|---|---|
| status machine (`models/enums.py`) | none | `transition`, `ALLOWED_TRANSITIONS` | every writer of `phases` that asks |
| phase rows (`state/repository.py`, `schema.sql`) | `phases`: status, fence, lease, attempts, transient retries, `blocked_by` | acquire, renew, complete, reap, reopen, clear `blocked_by` | one writer queue per process, `BEGIN IMMEDIATE` |
| phase runner (`orchestrator/runner.py`) | one task per repo per process | drive, dispatch, heartbeat, complete, terminate, diagnose, contain, checkpoint, halt | rows, ledger, workers |
| wave scheduler (`orchestrator/scheduler.py`) | `waves`, `wave_members`, `blocked_by` | open wave, admit, propagate `blocked_by` | rows, graph |
| retry policy (`orchestrator/retry.py`) | ladder position | `decide` | runner |
| cost ledger (`orchestrator/budgets.py`) | `budget_ledger`, `repo_ledger`, `reservations`; in-process buckets | reserve, settle, dispatch, halt, wait | repository, runner |
| worker contract (`workers/base.py`) | none | execute with two fence checks | runner |
| operator commands (`cli.py`) | none of their own | transform loop, sweep, abandon, retry, quarantine, abort, resume | rows, ledger |
| re-entry floors (`orchestrator/reentry.py`, resume in `cli.py`) | none; reads git, rows and checkpoints | `phase_floor`, `demotable_phases`, arbitration of commits, `plan_unblocking` | rows, git |
| stub lifecycle (`orchestrator/stubs.py`, `cli.py`) | `stubs`, REVALIDATE `tasks`, pull-request records, labels in BUILD files | supersede, revalidate, settle, reconcile, abandon; open, hold and promote a pull request | rows, forge, branches |
| scan (`cli.py`, `workers/clone` ... `contracts`) | SCAN rows, checkpoints, `manifests`, `coordinates`, `symbols`, `edges`, `file_blobs`, `contracts`; the evidence in memory | five units per repo, gates, inference, discovery of contracts | graph, runner |
| graph (`graph/`) and `fleet sequence` | `contracts`, `edges`, `waves`, `wave_members`, findings, collisions | break cycles (hoist, break, atomic, manual), layer, judge the result | scheduler, scan |
| transform workers, commits (`workers/relocate`, `rewrite`, `vcs/commits`) | branch `migrate/<repo>`, checkpoint, task row | one commit per unit, replay | resume |
| build and publish (`cli.py`, `vcs/filter_repo.py`, `workers/build*`) | integration branch and worktree, worktree per repo, root files | ingest, snapshot, generate, verify, publish | mutex, rows, verify |
| hoist rollback (`cli.py`, `vcs/commits.py`) | contract status, findings, reverts on the branch | demote, try, revert | build, rows |
| LLM client (`llm/`) | circuit breakers, cache | ladder, failover, repair, cache | workers, ledger |
| sandboxes, rewriting, Bazel generation, ecosystems, manifests | files, containers | one result each | workers |

Hard behaviours, and what would make them correct:

- two processes driving one row, a worker's result arriving after its row was
  reclaimed, an abort under live tasks: the fence admits one writer;
- a crash between acquire and complete: the row is reclaimed, no attempt is
  charged, and the phase still comes to rest;
- the ladder's boundary: no more attempts than rungs, and no rung for free;
- containment, one transaction per dependent: a command's sweep puts the
  dependents of an abandoned repo out of reach (unless stubs were asked for),
  nobody else is stopped, and whoever is stopped can be found again;
- a verdict taken back: by `fleet retry`, by demotion to a floor, by quarantine,
  or because it rests on a stub, beside tasks, sweeps and reapers that know
  nothing of it;
- concurrent reservations at a ceiling, holds that lapse under a running call,
  settlements after the reaper: each dollar is counted once and no ceiling is
  passed;
- calls waiting for each other's dollars: everybody is answered;
- commands that decide on stub rows from what they read some transactions ago,
  next to an operator who abandons rows: no row comes back from a terminal
  state, no queued round is swept away, and no consumer is promoted while it
  stands on an open stub;
- a crash between a commit, its checkpoint and its row, a lost clone, and a
  resume that runs beside the worker: each unit lands once, and no verdict is
  kept whose evidence is gone;
- one branch all repos publish to, from worktrees cut earlier: nothing is merged
  twice, no contract's files get lost, a wave sees the waves before it;
- a rollback that was tried on one tip and is committed on another, one revert
  at a time: it lands on what it was tried on and is completed by somebody, and
  the repos built against the path are built again, where no phase of theirs is
  abandoned and no stub holds them;
- an endpoint's one probe, given up in every way a call can end: it is not lost,
  and an outage never ends a call that has targets left;
- a plan written in eight transactions next to a scan: what is
  reported good is wholly on disk, whatever earlier commands left, and no
  dependency drops out of the order unnoticed.

`PROJECT.json` lists each hazard at its line with the properties that cover it,
and every component with what is left out of it.

## Modules

| Module | Models | Composes |
|---|---|---|
| `PhaseStatus` | `models/enums.py` | |
| `PhaseTable` | one `phases` row and each transaction on it, as a function from row to row | `PhaseStatus` |
| `PhaseRunner` | tasks, commands, containment, demotion, stubs, operators, time and crashes over all rows of one phase | `PhaseTable` |
| `CostLedger` | reserve-then-spend over the three ledger tables | |
| `StubLifecycle` | stub rows, revalidation tasks and pull requests under concurrent commands | |
| `Landing` | abstract: what TRANSFORM promises of one repo | |
| `Reentry` | one repo across its four phases: commits, checkpoints, losses, resume | `PhaseTable`, implements `Landing` |
| `BuildSteps` | the outcomes of the build and verification steps, as functions | |
| `Publish` | the integration branch under build and verify | `PhaseTable`, `BuildSteps` |
| `HoistRollback` | rolling a hoisted contract back | |
| `Backends` | what each LLM transport makes of a reply, as functions | |
| `ModelClient` | ladder, breaker, cache and budget of a model call | `Backends` |
| `FleetGraph` | the graph algorithms, as functions | |
| `Scan` | `fleet scan` | `FleetGraph` |
| `Sequencing` | `fleet sequence` beside `fleet scan` | `Scan` |
| `PhaseRunnerProofs`, `CostLedgerProofs`, `StubLifecycleProofs`, `PublishProofs`, `ReentryProofs`, `ModelClientProofs`, `HoistRollbackProofs`, `SequencingProofs` | theorems | the module they name |
| `MC...` | graphs, routes, fleets, row owners and symmetry sets for TLC | the module they name |

### PhaseRunner

Every write of the program goes through one `StateWriter` unit inside `BEGIN
IMMEDIATE`, so a transaction is one action and the interleaving points are the
awaits between them; `task[p, r].pc` names the await at which the coroutine of
process p for repo r is suspended (the module's head lists them). `cmd[p]`
follows a command through reap, sweep, per-wave preparation, the wave, and the
corrections after it.

One behaviour is one run and one of its phases 2 to 4 (`phase`, chosen at the
start). All that writes these rows is here:

| Code | Action |
|---|---|
| reaper, re-propagation sweep (`cli.py:6871-7008`) | `StartCommand`, `SweepRead`, `SweepOne`; under `--stub-blocked` it reads nothing (`cli.py:6969`), and it spares a dependent on an active stub of that very provider (`cli.py:6979-7007`) |
| wave loop, `_abandon_repo` | `FirstWave`, `OpenWave`, `AbandonRepo`, `Admit`, `Drive`, `WaveReturns`, `NextWave` |
| runner | `TaskStep`, `Heartbeat`, `Halt`, `Crash`, `ExpireLease`, `ExpireHold` |
| after a wave: stubs recorded by TRANSFORM, successes on a live stub degraded (`stub_degrade_transform`) | `StubRecord`, `StubDegrade` |
| `demote_to_floor`, from `fleet resume` or `unhoist_contract` | `Demote`: PENDING with `attempts` kept; refused where the row is abandoned |
| un-blocking of `fleet resume`, and the wave appended for what it freed (`append_unblocked_wave`, a transaction of its own) | `Unblock` with and without `--stub-blocked`, `AppendWave` |
| stub verdicts of `fleet resume` (`apply_stub_consumer_status`) | `StubVerdict` |
| `fleet retry`, `quarantine`, `abort`, stale leases of `fleet resume` | `Retry`; `Quarantine*`, one transaction each; `AbortRecord`, `AbortReset`; `ResetStaleRunning` |

What the other phases of the run and the stub machinery do to these rows is a
free choice, bounded like operator commands: `ContainedElsewhere` (a blocker
abandoned in another phase), `StubRecorded`, `StubMoves`. BUILD and VERIFY start
with any stubs a TRANSFORM may have recorded. `Demote` may come at any time: when
a floor justifies it is `Reentry`'s subject. Un-blocking
asks whether a blocker landed in every phase; of the phases not modelled the
answer is free (`Unblock` may find that it did not). `reopened[r]` is a history variable: how often a verdict on r was taken
back with its attempts kept.

`PhaseTable` holds what each transaction does to a row: which rows the `WHERE`
clause matches is a guard, what `SET` assigns is an `EXCEPT`. `lease_expires_at`
becomes *null / live / expired*; expiry under a working task is a fault (the
heartbeat was starved), expiry of a dead task's lease is the passing of time.
`reservations` appear as holds that are live or lapsed, because the reaper also
bumps the fence of rows that own lapsed holds.

A worker's result is a free choice among what `BaseWorker.execute` can return.
A refusal by the ledger is a free choice between its repo-scoped and run-scoped
forms. The model keeps the paths that end a task without a write:
`LeaseStolenError`, `PhaseTransitionRefusedError`, `RunHalted`, an exception
escaping `_isolated`, and cancellation, in which a reservation already queued on
the writer still commits.

### CostLedger

`call[c]` is one pass through `CostLedger.dispatch`. The durable rows, each
process's in-memory buckets and its `halted` flag are separate state, since the
code's pre-checks read memory and its compare-and-swaps read the tables. Dollars
are small naturals. The check of the wave's durable spend at the entry of
transform, build and verify, the reaper, `open_budget_ledger`, `--raise-budget`,
crashes and cancellation are actions. `fleet scan` reaps and opens the ledger
too, without the entry check; here it finds nothing to dispatch. It is what
returns lapsed holds while an exhausted wave keeps the other commands out. A lapsed hold is one
whose `expires_at` has passed.

### StubLifecycle

A command is a process with locals (`proc[p]`: its program point and what it has
read). It reads on one connection and writes in transactions of its own, so each
read whose result is used later, and each transaction, is one action:

| Command | Actions, in order |
|---|---|
| `fleet verify` | `Verify`, `VerifyDone` (the runner's transaction), `Degrade` (`stub_degrade_transform`, a second one) |
| `fleet pr --sync` | `SyncPoll`; per merged record `SyncWrite` or `SyncAgain`, `T1Read`, `T1Write`; `SyncEnd`, `Rewrite` per consumer |
| `fleet stubs resolve` | `Resolve`, then as sync from `T1Read` |
| `fleet resume` | the sync part with `--repoll-prs` (`SyncPoll`) or without (`Resume`); `ReconcileRead`, `ReconcileWrite`; `PlanClaims`; per task `Claim`, `Gate`, `Settle`, `Apply`, `Promote`, `Record`, `MarkDone`; `ClaimsEnd` |
| `fleet stubs abandon` | `Abandon`, one statement |
| `fleet pr` | `PrPlan`; `PrCreate`, `PrReady` or `PrFailed`; `PrWrite` |

The world outside is `FixProvider` (a human repairs the provider and its VERIFY
lands) and `ForgeDecides`. `Crash` loses the locals at any point. `Init` is the
state after `fleet transform --stub-blocked` and `fleet build`.

Abstractions. A report is its verdict and whether it was reached against stubs.
A BUILD file is the set of stub labels it names. `sync` reads the records and
polls the forge in one step: a record that changes in between is the same as one
that changes after the poll, for the write is unconditional either way. A row's
`revalidation_round` stays 0 while it is open, since nothing calls
`next_round_record`, so a task is keyed by consumer and provider. Whether a
provider's pull request is still young enough to wait for, whether a round's
branch moved, and what a round finds are free choices. The other work of
`fleet resume` (floors, un-blocking, arbitration of commits) touches none of
these tables except for reporting REVALIDATE tasks it cannot arbitrate.

### Reentry and Landing

The four rows of one repo, the mirror, the branch `migrate/<repo>`, the
checkpoint and the coarse task. TRANSFORM is a process (`t.pc` names its await)
that moves sources and rewrites targets, one commit per unit: guard, edit,
commit, fence check, sink, checkpoint, completion. `fleet resume` is another
(`s.pc`): it resets stale leases, reads the unfinished tasks, looks for each
task's commit in git, rewinds or records it, reads the rows, probes the evidence
of every phase and demotes to the floor in one transaction. Both may run at
once, either may die between any two steps, and the mirror or the worktree may
be lost. SCAN, BUILD and VERIFY are one step each with the effect their evidence
reads. `Landing` is the abstract specification: a set of units, each landing
once, and success only with all of them landed; `LandsEverything` is the
refinement, with the units on the branch as `landed` and the row's status as
`verdict`. `excused` marks the one exception: a resume rewound the branch under a
live worker, or a rescan pruned it under a worker or a checkpoint.

### BuildSteps and Publish

`Publish` follows `fleet build` (`c.pc`), one worker per repo (`w[r].pc`) and
`fleet verify` (`v.pc`) around the integration branch. A tree is the sets of
merged sources, of generated packages and of units in the root module file, and
a worktree remembers the tree it was cut from. What a worker's build returns is
computed by `BuildSteps` from the outcomes of its subprocesses: not started,
timed out, or an exit code of a class the code tells apart. A crash, a failed
merge, a mutex timeout, a failed preparation and a full disk count against
`MaxFaults`.

### HoistRollback

The branch is the sequence of merges and reverts. `cmd[b]` is one `fleet build`
at the end of its wave loop: per finding it demotes the contract's repos, finds
the merges to take back, tries them in a scratch worktree, takes the mutex,
compares the tip and commits the reverts one by one. Meanwhile repos are
transformed, built, verified, retried and merged again.

TRANSFORM, BUILD and VERIFY are a row each. The demotion passes over a repo with
an abandoned row in any phase (`repository.py:2026`) and leaves rows that are
not SUCCEEDED, DEGRADED ones among them, as they are. The code only reports such
a repo (`cli.py:4616-4626`): it stays built against the path that was taken back
until somebody retries it, demotes it or replaces the stub. So
`StrandedIsRebuilt` promises less than one might wish: a repo built against a
reverted path is built again, or is `Exempt` (an abandoned phase, or a BUILD on
a stub), or the rollback is refused because a
repo downstream of it is merged (`Blocking`). `Verify` and
`StubDegrade` reach the exempt states, and `Retry` and `StubVerdict` leave them.
Everything under `src/` that moves the branch holds the mutex, and nothing there
fetches it from a forge. How a merged pull request gets into the monorepo is
outside the code; `Merge` assumes it takes the mutex too.

### Backends and ModelClient

Callers are coroutines of one event loop, so one action is the stretch from one
await to the next and cancellation can strike at each await. `Backends` maps a
wire outcome to the error or the reply each of the five adapters makes of it,
and the negotiated capabilities to the request. Endpoints carry UP, DOWN or
HALF_OPEN, the failure count and whether the cooldown has passed. The cache maps
a key to the identity that answered.

### FleetGraph, Scan and Sequencing

What the repos hold is `world`, chosen at the start. A dispatch of `fleet scan`
runs the units its checkpoint owes, records the evidence in the process and the
rows in the tables, and then the row is marked, a step later. After the wave
come the gates, the edges, the blobs, the committed contracts' read and the
contracts' rewrite, an action each. `fleet sequence` reads contracts, nodes,
edges and gated repos in an action each, computes the plan with `FleetGraph`,
writes it in its transactions, and judges it by the four exit criteria from the
tables. `FleetGraph` keeps the algorithm's order of decisions: components are
listed once and resolved on the graph the ones before left; hoists are greedy by
their score after a trial of all candidates together; back edges come from a
depth-first search in ascending order; breaks are cheapest first. Confidences
are the ones `infer.py` gives each source of evidence. The three loops (hoists,
breaks, components) are recursive functions over the number of their rounds,
each as long as the loop can run, in which a finished loop stays what it is. A
node's layer, which the code computes along a topological order as one more than
the highest layer below, is given in closed form: the most nodes of a chain
below it.

### Left out of these modules

Wave wall clocks, the human approval checkpoint, task tokens, the revalidation
sub-ceiling (which repeats the repo ledger's pattern), `lease_owner` (determined
by the fence), timestamps and texts. In `Scan`, a repo does not change between
two scans. In `FleetGraph`, one repo owns a coordinate, so no edge is ambiguous;
edge kinds that do not order (DYNAMIC_REF, SHARED_RESOURCE) are absent, and
evidence lines are not part of an edge's key.

## Runs

| Run | Instance | Shows |
|---|---|---|
| `chain` | r2 depends on r1, two waves and one that may be appended, TRANSFORM or VERIFY, with `--stub-blocked` or without, 1 process, 1 attempt, 1 fault, 1 operator command or step of another phase | `blocked_by` names dependencies only; a new command's sweep shelters the dependents of abandoned repos, but for stubs; verdicts stay, but for the four commands that take them back; the ladder is passed only where a retry or a demotion re-opened it |
| `recovery` | 2 processes, 1 repo, 2 attempts, 1 transient retry, 1 fault, fair | one fence holder, ladder bounds and charges under every interleaving; no row stays RUNNING; the phase comes to rest |
| `ledger` | 2 processes, 1 repo, 2 calls, 1 fault, 1 poll, 1 raise, fair | ledgers equal the reservations behind them; ceilings hold; every dispatch ends; every hold returns |
| `stub_race` | one consumer, two rows of one provider, GitHub, 2 commands at a time and any number in sequence, all but `stubs resolve`, 1 crash, symmetric processes | terminal rows stay, superseded rows are merged, linked and queued, one round per task, queued rounds are not swept |
| `stub_siblings` | one consumer, one row of each of two providers, Gitea, one command at a time, 1 crash, fair | promotion only with every row closed; every recorded pull request's merge reaches its rows |
| `reentry` | one file moved and rewritten, stubbed, 2 attempts, 1 crash, 1 loss, fair | TRANSFORM implements `Landing`; one commit per unit; demotion is neither too much nor too little; the repo comes to rest |
| `publish` | 2 repos, one owning a contract, one or two waves, 2 builds beside verify, 2 attempts, 2 faults | merges once, contracts kept, waves see what was published, root files describe what is there, only green succeeds, SUCCEEDED means published unless a git step of that repo failed |
| `model_client` | 2 callers, 3 calls, three routes that use all five transports, every cache mode | probes return, answers are their own, outages fail over, tokens stay in budget, calls return |
| `rollback` | 1 contract of an owner, its consumer and a repo downstream; the consumer is verified and may stand on a stub; 1 fault or stub degradation, fair | reverts land on the tip they were tried on; a series is completed; nobody stays built on a path taken back, but for the exempt |
| `front` | 3 repos, six fleets, 2 scans, 2 sequences, 1 fault; a dispatch may be cut after `interrogate` (also within it) or `symbolindex` (`Cuts`) | dependencies are ordered or accounted for; a plan reported good is on disk |
| `lost_edges`, `published_is_merged` | the smallest instance that shows it | a statement of the code's documentation the code does not keep; see "findings" in `PROJECT.json` |

Why these bounds. Two processes are what an interleaving on one row needs: the
fence compares one holder with the row, and a third process adds only a third
loser. Two attempts give a rung that is not
the last and one that is. One fault can fall anywhere, and the reaper, the next
command and a second process then react to it. In `ledger` the ceiling admits
two small calls only after the raise, the repo's ceiling refuses two large ones
even then, and a call may spend more than its estimate or nothing, so every
refusal and every failed settlement is reached. The safety properties of every
run are proved for all instances (see Proofs), so
their bounds only have to let TLC find a mistake in the statement. `chain` has
one attempt, so every success and every abandonment is on the last rung, where a
demotion or a retry leaves a spent ladder behind; its one operator command is
one of retry, demotion, quarantine, abort, un-blocking with `--stub-blocked` or
a step of another phase. No command is given `--wave` in it (`WaveFlags`; a
later wave is refused anyway while an earlier one is open), and it leaves BUILD out, which has the same actions as
VERIFY but `StubVerdict`. `rollback` verifies the consumer only (`Verified`),
and only the consumer may stand on a stub (`Stubbed`): it is the repo a rollback
can strand. In the stub
runs two rows are what siblings need: of one provider they share a task, of two
they have a task each; the number of commands in sequence is not bounded. `fleet stubs resolve` is `pr --sync` from `T1Read` on, so
`stub_race` leaves it to `stub_siblings`. `reentry` has two kinds of unit, which
is what the order of workers and the checkpoint between them need; one loss and
one crash may come in either order. `publish` has two faults, since its hard
cases are a failure followed by a crash of the retry. In `front` the constants
make every resolution happen: a component of three exceeds `scc_hard_max`, one
break is allowed, two consumers are required, and the fleets are chosen so that
one is hoisted, one broken, one atomic and one manual.

Deadlock is checked where a command can always be started. `publish`, `front`
and `model_client` (and the two violations) switch it off: with their bounded
numbers of commands and calls, the system may stop when all have been given.

### Fairness

`PhaseRunner!Fairness`: an asyncio task that can take its next step takes it
(the event loop is fair and every await in `_drive` is a writer unit or a
timer), an admitted member is driven, a command goes on to its next wave, and
commands are started again until they find nothing to do, which is how the
system is operated: recovery happens only when a command runs. Time passes, so a
dead holder's lease expires. Nothing is assumed of operators or faults.
`CostLedger!Fairness` is the same for coroutines, plus expiry of holds; the wait
deadline needs no assumption of its own because `_wait_for_settlement` returns
on its poll interval. `StubLifecycle!Fairness`: a running command goes on (weak
fairness of its steps), and `fleet pr --sync` is started again and again, as
`pr.poll_interval_s` has it; strong fairness, because other commands may hold
the process slot of the model in between. Nobody has to resume, resolve or merge.
`ModelClient!Fairness`: the event loop runs every coroutine that can run.
`HoistRollback!Fairness`: a build goes on, and builds are started again; nobody
has to transform, build, verify, retry or merge a repo. `Reentry!FairSpec`: a process that runs
goes on, a dead one's lease expires, resume is run again and again, and so are
the phase commands, with strong fairness because a resume between `fleet build`
and `fleet verify` may take BUILD back each time (see the deviations below).
`Publish` and `Sequencing` have no liveness property and no fairness.

## Known deviations

Statements of the code's documentation that the code does not keep, met while
modelling. Two have a run of their own (`lost_edges`, `published_is_merged`).
The next ones are definitions of the modules: a `.cfg` of the module's instance
with the definition as its only property shows the counterexample.

| Definition | What happens |
|---|---|
| `PhaseRunner!NoStartOverAbandoned` | `docs/SPEC.md:7821`: an abandoned repo marks its dependents BLOCKED, where nobody asked for stubs. `_abandon_repo` (`cli.py:6419`) and a partial result at the ladder's end (`runner.py:626-640`) do not tell them; dependents of a later wave start in the same command. (The instance of `chain`.) |
| `CostLedger!CeilingNeverLowered` | `SPEC.md:7258`: no code path lowers a ledger. `open_budget_ledger` (`repository.py:2522`) writes the configured ceiling at the start of the next command and takes `--raise-budget` back. |
| `CostLedger!WaveSpendIsDurable` | `SPEC.md:7249`: a wave's spend is durable. The bucket that is compared starts at zero in every process (`budgets.py:852`). |
| `StubLifecycle!DegradedMeansStubbed` | `SPEC.md:3767`. Two rows settled by one task are each decided against the other's earlier state (`cli.py:14864`): the consumer stays DEGRADED on no stub. |
| `StubLifecycle!HeldStaysDraft` | `models/enums.py:583`: a held draft is never promoted. The sweep that holds it abandons the rows, and `fleet pr` (`cli.py:15615`) then promotes. |
| `Reentry!IntactIsKept` | `DECISIONS.md:9393`: a resume over an intact repo is a no-op. BUILD's evidence never holds (`repository.py:1935`), so a resume between build and verify takes BUILD back. |
| `Reentry!CommitsAreKept` | `SPEC.md:7454`: durable commits are kept. A resume beside a live transform rewinds the branch under it (`cli.py:18470`). |
| `Publish!VerifiedMeansPass` | `DECISIONS.md:2035`: exit 4 (no tests) is success. `rdepverify.py:424` makes it FAIL, and the pull request is refused (`prwriter.py:229`). |
| `HoistRollback!SecondPassIsIdle` | `SPEC.md:7838`, `cli.py:5085`: a second pass is idle. The finding is never cleared, so each later build demotes the repos again (`cli.py:5123`). |
| `ModelClient!OneProbe` | `failover.py:16`: one probe at a time. A call that was dispatched while the endpoint was UP gives back another call's probe. (Four calls: `MaxCalls = 4`.) |
| `ModelClient!DollarsWithinBudget` | `SPEC.md:5984`. A raised output cap is checked against the tokens left, not the dollars or the deadline. |
| `Sequencing!MembersMatchContracts` | `SPEC.md:808`. `record_plan` never deletes a member (`scheduler.py:196`): hoist, forbid, sequence again, and the contract is still in `wave_members`. (Three sequences: `MaxSequences = 3`.) |
| `Sequencing!ReplanConverges` | `SPEC.md:7830`, `cli.py:3997-4000`: a second `fleet sequence` changes nothing. `max_hoists_per_scc` counts from nothing in each command (`graph/cycles.py:697`): a component that needs two hoists and may have one gets the second from the next command, which makes another plan of unchanged evidence. No crash is needed. (The instance of `front` with `Worlds <- TwoContracts`, `MaxHoists = 1`, `MinConsumers = 1`, `HardMax = 5`. After a crash between the marking of hoists and of rejections a rejected contract is also tried again, on the graph with the other hoists in place.) |

Seen in the code while modelling, and modelled as they are where a module covers
them: the unfenced checkpoint (`runner.py:1300`), the reaper's fence bump under a
live lease whose reservation lapsed (`repository.py:865`), a blocked row returned
to PENDING by its own task (`repository.py:1769`); two contracts that share a
merged consumer, where the second rollback stages nothing and fails each time,
and a crash between marking a contract FAILED and its finding (`cli.py:9240`),
after which it is never rolled back; a garbled success body that ends a call
without failover in two transports; a dispatch cut within interrogation counts
it as landed, a resumed one that classifies without interrogating blanks
`primary_coord_key` (`cli.py:1826-1836`) and skips the baseline; an edge to an
owner scanned later is never inferred; `fleet scan --only` replaces the blobs of
the whole fleet, and criterion (d) then fails; a collision of severity error
refuses every later plan; a scan beside a sequence rewrites a HOISTED contract as
EXTRACTABLE; the clause of `_is_atomic` about declared dependencies at 0.95 is
unreachable, as inference gives them 0.90; a gated member of an atomic component
fails criterion (c).

## Proofs

TLC checks the instances above; TLAPS proves the following for all sets of
processes, repos, contracts and callers, every graph and every bound. Of the
invariants and action properties the runs check, all are theorems.

**Shape of the arguments.** A proof module first says what each step does, in as
few kinds of step as the property can tell apart (an *effect*), and then shows
that each kind keeps the inductive invariant. Every strengthening below was
checked by TLC on an instance before it was proved.

`PhaseRunnerProofs`, `PublishProofs` and `ReentryProofs` begin with what they
need of `PhaseTable`: every transaction on a row leaves a row
(`RowOperatorsType`), and which columns each may move.

`PhaseRunnerProofs`. Every step of every process changes a row in one of twelve
ways (keep, grant, reclaim, charge, fail, block, free, reopen, skip, abandon,
degrade, judge): lemma `NextEffect`. The inductive invariant is

    IInv == TypeOK /\ WorkingHasFence /\ \A r \in Repos : RowInvariant(r)

`OneFenceHolder` alone is not inductive: a task at `complete` must be known to
hold a fence (`WorkingHasFence`), otherwise a completion could charge a row it
never leased; and the ladder bound needs that a row whose attempts reached the
end is terminal unless its current holder is already past charging (`Held`).
`RowInvariant` counts re-openings with the rungs: a row that can still run
(`Runnable`) has fewer attempts than `MaxAttempts + reopened`, and a retry or a
demotion, which keep the attempts, raise both sides. It also says that nobody
holds a row whose status is SUCCEEDED or DEGRADED (`SuccessReleased`), without
which a demoted row could be charged twice by the task that made it succeed. The
theorems: `TypeInvariant`, `FenceExclusion`, `LadderTheorem`, `ChargeTheorem`
and `VerdictTheorem`. The last one names the four doors a verdict has, and under
which condition each is open.

Containment has an invariant of its own. `BlockedByDependencies` holds because
whatever a broadcast still has to do is aimed at dependents only (`Targeted`:
the sweep's pairs, a task's list, an operator's list). `SweepShelters` needs
`Shelters`: in the middle of its sweep, a command that is alone has, for every
abandoned repo and every dependent of it that no active stub of that repo exempts
(`Exposed`), either sheltered the dependent or the pair is still on its list; while
there was no operator no stub was closed (`NoOperator`), and a `--stub-blocked`
command promises nothing. The theorems: `ContainmentIsAimed` and
`SweepSheltersAlways`. All of it assumes `MaxAttemptsAssumption` (at least one
rung) and `RunnerAssumption` (the graph is over the repos; SCAN has no graph
yet).

`CostLedgerProofs`. `IInv` is `TypeOK`, `CeilingsHold` and `Owned`: a call that
has begun belongs to one process and one repo, without which nothing is known of
the rows a settlement touches. `LedgerCeilings` shows that no ceiling is passed.
The reaper's `MAX(reserved - x, 0)` is bounded whatever the sum x is, so that
proof needs no fact about sums.

`LedgerAccounting` does. `MapThenSumSet` is a recursive function, so the lemmas
about it (a sum exists and is unique; one term more, `TotalAdd`; two disjoint
sets, `TotalUnion`; equal terms, `TotalSame`) are proved without an induction
rule, from a counterexample with the fewest elements. `Balanced` states
`Accounting` with the sums as functions of the tables, and `HoldsMatch` is what
makes it inductive: a call has no reservation before its CAS, its reservation
carries the call's estimate and repo, and once it is settled the call's spend no
longer changes. The subtractions of settlement and reaper are then exact:
`MAX(..., 0)` never cuts anything off. `LedgerAssumption` says that amounts and
ceilings are naturals and the table of calls is finite.

`StubLifecycleProofs`. Two facts carry it. `Forward`: whatever the order of
steps, a row never leaves RESOLVED or ABANDONED nor returns to ACTIVE, a task
never leaves DONE nor disappears, a merge on the forge stays. `Known(p)`: what
command p knows at its program point from its earlier reads, such as "the
providers of the rows I am about to supersede are merged", "the superseded rows
I am about to sweep have a DONE task", "every row of my consumer is closed or is
one I am about to close". Because each of these is kept by `Forward`, no step of
another command can falsify it (`KnownStays`), and only p's own steps have to be
looked at. The inductive invariant `IInv` is `TypeOK`, `OneRoundPerTask`,
`SupersededIsQueued`, `Known` for every command, and that only ABANDONED rows
carry a reason, a MERGED record is merged on the forge, and a command has one
task in hand. The theorems: `StubTypes`, `OneRound`, `QueuedWhenSuperseded`,
`TerminalRows`, `AwaitingSpared` and `PromotedClosed`, from `StubAssumption`
alone (every row has a consumer and a provider, and no repo is both).

`PublishProofs`. The inductive invariant has four layers, each resting on the
ones before it:

- who may write: `MutexHeld` (the mutex names its holder) and `WorkersOfWave` (a
  worker that runs is of the open wave and of the domain, on a RUNNING row);
- what is merged: `MergesRecorded` (a source's merges are 0 or 1, as the branch
  tells), `HoistedMerged`, `ContractKept`, `DomainMerged` (every repo of the
  domain is in the snapshot and in every worktree cut from it);
- what worktrees hold: `FaultedOutside`, and `TreesBehind` (no snapshot or
  worktree is ahead of the branch, but for commits on their way to it and units
  one of whose git steps failed), from which it follows that the branch loses
  nothing (`Grows`);
- what a row's verdict means: `AllPublished` (how far PUBLISH has come for each
  program point of a worker, and that it got there over a green build) and
  `SnapFresh` (which snapshot each worktree of the wave was cut from).

That a build is green when the verification answers "ok" is a lemma about
`BuildSteps`, over all its inputs (`BuildverifyGreen`). The theorems:
`TypeInvariant`, `OneWriterAlways`, `OneMergePerSourceAlways`,
`ContractsAreKept`, `DomainIsMergedAlways`, `OnlyGreenSucceedsAlways`,
`SucceededIsPublished` and `WaveSeesPublishedAlways`, for any repos, contracts
and numbers of commands and faults, and two waves. They assume
`PublishAssumption` (every contract has an owner; contracts are not repos) and
`ActorAssumption` (no repo is named like the two commands in the mutex).

`ReentryProofs`. The transform's `todo` is a promise about the branch:

- `Covered`: what a worker no longer owes is on the branch;
- `CheckpointHolds`: so is what a checkpoint no longer owes, in the worktree it
  would be replayed in;
- `Finished`: a worker that reports success owes nothing;
- `Staged`: what is about to be committed is a unit the branch lacks;
- `DiscardsNothing`: a resume discards only a branch it saw empty.

The first two exclude behaviours in which another command took commits from
under the worker (`excused`). `TransformImplementsLanding` is the refinement of
`Landing`, the initial states and every step, for any number of files and rules.
Attempting it showed that the exception was drawn too narrowly. With three
attempts, a `fleet scan` of a row that is PENDING again prunes the branch under
a running transform (`workers/clone.py:387`, `remote update --prune`), and the
transform then reports success over a branch that has lost units; the instance
of `reentry`, with two attempts, does not reach that. `Scan` now sets `excused`
where the branch or a checkpoint existed (`PrunedUnder`). `OneCommitPerUnit`,
`GreenWorkKept` and `FloorIsSound` have no such exception; the last two need
that the floor of a resume is computed from what it read (`FloorKept`) and facts
about the least unsettled phase.

`ModelClientProofs`. Every step of a call leaves a frame that is `Sound` (a rung
of its ladder, a cap within the tokens) and answers for every HALF_OPEN endpoint
(`Accounted`: its own probe, or somebody else's that was there before). The
ladder of a call is made by `FlattenSeq`, a recursive function, and that it is a
sequence of endpoints is again proved from a least counterexample
(`FlattenType`). The theorems: `TypeInvariant`, `ProbeIsHeldAlways`,
`AnswerIsItsOwnAlways`, `OutageFailsOverAlways`, `TokensWithinBudgetAlways`.
`ClientAssumption` has what the configuration's validators enforce: a tier lists
at least one target, each with at least one URL and a natural output limit, and
retries and budgets are naturals.

`HoistRollbackProofs`. `Locked`: who stages or commits holds the mutex. `Tried`:
since a series was tried, only its own reverts have reached the branch. The
theorem: `TriedIsCommittedAlways`, for any number of builds at once, where the
run `rollback` has one. `RollbackAssumption` asks that nobody is called
`Nobody`, the holder of the free mutex.

`SequencingProofs`. `EdgesAccounted` and `SequencedIsComplete`, for every finite
fleet, any evidence and any of the five limits of `graph/cycles.py`. Three layers:

- The plan, as a function. `Traces` relates the edges read to the edges of a
  plan half made: each that orders is there as it was, or turned towards a
  contract in place, or suppressed inside a component some resolution says was
  broken (and perhaps turned since); every edge of a contract in place is there;
  what points at a contract did so before or comes from a carrier; and the
  ordering arcs are among those in which the components were listed, or lead to
  contracts. `Materialize` and `Suppress` keep it (`TracesMaterialize`,
  `TracesSuppress`), so every round of the loops over hoists, breaks and
  components does (`HoistLoopStays`, `BreakLoopStays`, `BreakSccsStays`), which
  gives `BreakCyclesDissolves`. That a loop is a recursive function of a natural
  number is used through two lemmas: the function exists (`RoundsExist`) and
  what every round keeps it keeps (`RoundsStay`).
- The waves. In an acyclic graph a node's longest chain is longer than that of
  any node below it, so layers fall along arcs (`LayerFalls`). Components only
  shrink as arcs go and contracts come, a contract being a sink (`SccsShrink`);
  atomic components are therefore disjoint and hold repos only, and an arc of the
  plan is one of the condensed graph or lies inside a component (`UnitsApart`,
  `WavesOrder`).
- The commands. `Inv` is the types of tables and processes (`StoreTypes`,
  `ScanTypes`, `SeqTypes`), what a scan has found of contracts and carriers
  (`Known`), that an edge into a contract comes from one of its carriers, in the
  tables and in what was read (`ReadInv`), that from `break_cycles` on the plan in
  hand is one that `Dissolves` what was read and from `assign_waves` on the waves
  are its waves (`PlanInv`, `WavesInv`), what an undisturbed command knows of the
  contracts and gates (`CalmInv`), and how much of the plan is written at each
  program point (`RecordedInv`, `EdgesInv`). A scan beside the sequence takes the
  calm away and keeps the rest. TLC checked `Inv` on the instance of `front`,
  with the graph in which the components were listed for the A of `Dissolves`.

`SequencingInvariant` is `Spec => []Inv`; `EdgesAreAccounted` and
`SequencedPlansAreComplete` follow. They assume `GraphAssumption` (the limits on
hoists and breaks are naturals) and `ScanAssumption` (finitely many repos,
evidence about those repos, no dependency of a repo on itself, one definition per
contract id, and ids of contracts are no repos).

The proofs corrected two statements that held on TLC's instances. An edge that
one component suppressed may be turned by a hoist of a later one: it is accounted
for as broken, though no longer under the key it had. And a gated member of an
atomic component has a wave although its edges were dropped with it, so a
contract need not precede it: both properties speak of ungated ends.

### Only model-checked

- Liveness: `NoRowStranded`, `EverybodySettles`, `CallsEnd`, `HoldsReturn`,
  `MergeIsTaken`, `ComesToRest`, `CallsReturn`, `StrandedIsRebuilt` and
  `RollbackCompletes`. Fairness and ENABLED are out of the prover's reach.
- The violations, which are about single behaviours.

## Plan

1. `PhaseRunner`, `CostLedger`, `StubLifecycle` with their theorems: done.
2. `Reentry` with its refinement, `Publish`, `HoistRollback`, `ModelClient`,
   `Scan` and `Sequencing`, model-checked: done.
3. Theorems for every safety property of the runs, and the refinement of
   `Landing`: done.
4. Left of the model: a consumer that is itself a provider and the label
   rewrite's failure modes in `StubLifecycle`; `ResizableLimiter`; the wave
   scheduler's wall clock and approval checkpoint; repos that change between two
   scans.

## Not modelled

Parsers, generators, rewriting rules, renderers and tool drivers are data: the
modules above take every result they may return as a free choice. Read-only
projections (`migration_state.json`, the digest, `fleet status`), logging and
redaction change no state that others read. Migrations run once, alone. The host
memory guard reads the host's counters; its halt is a free choice of the runner.
`gc` deletes rows of old runs, cached answers and cached files, and refuses
beside RUNNING rows. `fleet plan` and `fleet migrate` are not
implemented in the code, and `coarsen_atomic_scc`, `append_synthetic_waves`,
`supersede_findings` and `next_round_record` have no caller.
