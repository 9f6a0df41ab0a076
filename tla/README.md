# A TLA+ model of bnk-forge

bnk-forge deploys and tears down infrastructure: a *project* holds *modules*
(OpenTofu, Kubernetes, Ansible, container... units) that depend on each other,
a *stack* (blueprint instance) owns some of them, and Celery workers run
init / plan / apply / destroy for one module at a time. PostgreSQL rows are the
only shared truth; Redis carries the messages and the set of tasks that run.
There is no orchestrator process: each worker, when it is done, decides what
is to be queued next (the "event chain"), and periodic jobs repair what dead
workers leave behind. The correctness of the system is in how those pieces
interleave, and that is what this project models.

## Inventory

| Part | State it keeps | Operations | What is hard | What makes it correct |
|---|---|---|---|---|
| Entity lock `services/entity_lock.py`, `module_lock.py` | `holding_task_id`, `heartbeat_at`, `lock_fence_token` on each lockable row; a refresher thread per holder | acquire, refresh, fenced write, release, force_release, sweep | lapsed leases, redelivered tasks with the same id, refreshes that arrive late, crashes | a healthy holder is never robbed; older tokens never write over newer ones; dead holders are cleared |
| Destroy chain `tasks/_tofu_helpers.py`, `parallel_tasks.py`, `opentofu_tasks.py` | module, stack and task rows | run_opentofu_destroy, trigger hook, terminal detection, finalization | two workers in the hook at once, messages sent before commits, early returns, time limits, exceptions after the outcome | dependents go down before what they depend on; nothing is written off while it exists; a run gets to an end |
| Destroy requests `stack_deployment_service.py`, `parallel_execution_service.py`, `project_module_service.py`, `routes/` | stack status, `deployed_modules`, task scope | stack destroy, destroy-all, single-module destroy, two ways to cancel, status polls | overlapping requests, adoption of running tasks, two commits per request | as above |
| Janitor `execution_janitor.py`, `core/worker_heartbeat.py` | none of its own; reads `worker:tasks:*` | reset tasks, re-drive modules, reset stacks | a stale snapshot of live ids, ghosts of killed workers, Redis outages | it never tears down out of order, and what is stuck gets unstuck |
| Module state machine `module_state.py` | status, audit rows | transition_module_status | unfenced writers beside it | every status write is legal |
| Deploy chain (same files, `project_module_service.py`) | as the destroy chain | deploy-all, first wave, forward hook, init / apply, retry | the same races in the other direction; messages before commits; status writes after dispatch | a module is built after what it depends on; no status stays transitional; the chain does not stall |
| Step containers `container_runner.py`, `container_reaper.py` | containers and their labels on the docker daemon, live task ids in Redis | run a step, sweep predecessors, kill on cancel, reap | the container outlives its worker; four parties remove it, on stale lists | a live step is never removed; an orphan goes; the lock is dropped only after the kill |
| BNK upgrade `bnk_upgrade_*` | status, current step, rollback info, entity lock of the upgrade row | plan, execute, rollback, cancel | death in a step, lapsed lease, unfenced failure writes | completed means all steps were done; rolled back means the old version runs |
| Fleet bulk runs `fleet_bulkop_service.py`, `fleet_tasks.py` | run status, wave index, result rows, decision | start, wave loop, gates, resume, cancel | no lock; delayed messages; a fleet that changes between waves | waves in order, one executor, a cancelled run stops, a completed run covers its members |
| Reachability breaker `reachability/` | state, failure count, trial flag, per process | can_attempt, record, probe | threads inside can_attempt, early returns | it closes again once the target answers |
| Dependency layers `dependency_graph_service.py` | none | Kahn layering, cycle check | cycles, missing ids | layers respect dependencies; display only |
| Operator connectivity, fleet policies, tmfifo IPAM, DPU flashing, proxies, catalog, API, frontend, MCP server, CLI | various | various | mostly I/O and data conversion | see `PROJECT.json` and "Not modelled" |

Interaction: requests and workers share the rows of `project_modules`,
`stack_instances` and `tasks`. A request commits rows and sends messages; a
worker takes a message, acquires the module's entity lock, runs the engine,
writes the outcome through the fence, updates the stack and runs the trigger
hook, which commits rows and sends the next messages. Upgrades use the same
lock on their own rows; fleet runs use none. The janitor and the lock sweep are
APScheduler jobs of the API process, the container reaper a Celery beat job;
they work on the same rows, Redis sets and containers.

## Modules

| Module | What it is |
|---|---|
| `EntityLock` | the lock on one row: body and refresher threads of every execution, time in ticks, the sweep |
| `FencedLease` | what the lock promises: an abstract lease with a growing epoch |
| `MCEntityLock` | instances for TLC |
| `DestroyChain` | teardown of one stack of one project: requests, workers, trigger hook, terminal detection, cancellation, polls and janitor |
| `Teardown` | what `DestroyChain` promises: modules go in dependency order, and nobody reports more than is true |
| `DeployChain` | deployment of one project: deploy-all, the dispatcher as route and as hook, single-module requests, init and apply tasks |
| `StepContainers` | containers of the container engine on one shared workspace: attempts, sweep, cancel, reaper, live-task records |
| `BnkUpgrade` | upgrades of one cluster: plans, execution, rollback, over a lease as `FencedLease` promises it |
| `FleetBulkRun` | one decision and its bulk runs: executors, gates, operator, inventory |
| `Breaker` | the circuit breaker of one target in one process |
| `MCDestroyChain`, `MCDeployChain`, `MCStepContainers`, `MCBnkUpgrade`, `MCFleetBulkRun`, `MCBreaker` | instances for TLC |
| `EntityLockProofs`, `DestroyChainProofs`, `DeployChainProofs`, `StepContainersProofs`, `BnkUpgradeProofs`, `FleetBulkRunProofs` | the TLAPS proofs about the module of that name, see "Proofs" |

A definition whose comment begins with "Mutant" is a deliberately wrong variant
of the definition after it; no specification uses it, and `PROJECT.json` lists
which property it breaks.

### EntityLock and the code

One row of one lockable table; the statements are all `WHERE id = ...`, so rows
do not interact. `holder`, `fence` and `beatAge` are the three lock columns
(only the age of the heartbeat matters, saturating one past the window);
`writer` records under which token the guarded columns were last written. An
*execution* is one run of a task body; `TaskOf` lets two executions carry one
task id, since `acks_late` redelivers. Every SQL statement is one action
(`Acquire`, `RefreshOk`, `RefreshLost`, `Write`, `WriteLost`, `Release`,
`ForceRelease`, `Sweep`). `RefreshMissed` is a refresh that raised or a thread
that was not scheduled for an interval, `LateRefresh` the refresh that
outlives `stop()`'s five-second join, `ReleaseError` the swallowed exception of
the `finally` clause. `missed` and `forced` are history variables: they define
when a lock has *lapsed* and so can no longer be relied on.

### DestroyChain and the code

One project with one stack that owns all its modules. `status`, `stack`,
`scope` and `task` are the rows; `worker[i]` is the message of task `i` or the
point its worker has reached; `infra[m]` is the fact nobody records, whether
resources of `m` may exist: only a successful destroy clears it. An action
reaches from one commit (or message) to the next:

* a worker: `Start` (fetch, CP-008 skip), `StartEarly` (the message overtook the
  commit), `Acquire` or `LockTimeout`, then `DestroyOk`, `DestroyFail`,
  `InitFail` (which returns without telling anybody), `Raised` (time limit,
  lost lock) or `Exception` (the generic handler, also after a destroy that had
  succeeded), then `UpdateStack` and the trigger hook;
* the trigger hook, of a worker or of the janitor: `TriggerRead` for each
  dependency, then `TriggerCommit` or `TriggerError`, and at its end `Detect`.
  Read and commit are two steps, because nothing locks the rows between them;
* requests: `DestroyStack` and `StackWave`, `DestroyAll` and `ProjectWave`,
  `DestroyModule` and the `Audit` write that follows its dispatch;
* `CancelTask` and `CancelOperation`, with a revoke that may or may not reach
  the worker; `PollStack`; `Crash`;
* the janitor: `JanitorBegin` takes the snapshot of live ids, `JanitorTasks`
  reads the rows it believes orphaned, `JanitorRedrive` runs the hook for each
  and `JanitorStacks` settles the stack. What the janitor read is written by the
  first commit that follows, so it may be stale by then; every other action
  takes the reads of a commit as of the commit.

`UpdateStackProgress` is the whole of `update_stack_progress`, with the BUG-009
recovery, and is part of every action whose code calls it.

What is abstracted: the module lock is a mutual exclusion (`lock[m]` also knows
the holder that was robbed by force and can still write, because the fence
moves only with the next acquire); the leases are `EntityLock`'s. The statuses
not_initialized, initialized and planned are one ("initialized": nothing was
applied); init_failed and plan_failed, which no teardown writes, are left out,
and so are pending tasks, which no teardown creates. A first wave is one
commit in the code and one step here, so the adoption race its comment
describes (`parallel_execution_service.py:507`: the adopted task ends between
the SELECT and the flush) is not in the model; it can only stop the chain.
`DestroyAll` passes over a task under way whose worker has the row locked, as
`skip_locked` does: any running task, a queued one refuses the request.
Deploying again after a teardown, deleting a stack by force, and stacks that
share a project are not modelled.

Taken as one step although the code has several commits: `DestroyStack` (lines
1648, 1690 and 1708, so a second stack request does not fall between them) and
`DestroyModule` (check, row and status). An exception after the trigger hook,
in clearing the saved plan (`opentofu_tasks.py:1176`), is left out: it would
report a module that is gone as failed, as `Exception` before the hook does.
`Init` has rows that tell the truth; an applied module planned again
("planned", with resources) is outside, and falls under what
`no_infra_truthful` shows.

### DeployChain and the code

One project without stacks. A *dispatcher* is one call of
`_dispatch_first_wave` in a database session: the API's (deploy-all) or a
worker's (`_trigger_next_project_module` after an apply). It reads the modules
once (`Candidates`), then for each it looks for a task in flight (`Skip`), or
flushes a row and sends the message (`Send`), and its rows and statuses become
visible only at `Commit`, which for a worker is the commit that releases the
module lock. `Deploy`, `Retry`, `SubmitInit` and `SubmitApply` are the
single-module requests: the task is dispatched and `Mark` is the status write
that follows it. A worker looks up its row (`NotFound` when the commit is
late), acquires the lock, ends with `InitEnds`, `ApplyEnds`, `Raise` or
`TimeLimit`, queues the apply of an initialized module (`AutoApply`), and runs
the hook. `Die` rolls its session back and redelivers. `Legal` is the
transition table; `built` is the fact nobody records, which infrastructure
exists. `lost` is history: a message, a row or a write after the end of its
task was lost. Left out: the stack's variant of the hook, plan tasks and saved
plans, disabled modules, Celery's own retries of connection errors, and the
row locks of the deploy-all guard (`skip_locked`). `can_execute` also asks for
outputs that are not None; they are written together with "applied" and are at
least empty, so `DepsApplied` looks at the status alone.

Taken as one step: the row, message and status of `AutoApply` and of the
single-module requests (whose broker errors are left out), the release and the
handler's write of `Raise`, and the commit of "applied" and the hook. The skip
paths of init write against the row as it is and not as it was read. A task
gives up waiting for the lock only while the holder is in its locked part.

### StepContainers and the code

All tasks run on one workspace, as modules of one blueprint do. An attempt of a
task goes from `Prerun` (Redis record) through `Acquire`, the sweep of
`_clear_workspace_predecessors` (`SweepList`, `SweepLive`, `SweepRow`: what it
lists, what it believes live and what it removes are three moments), `Create`
(whose call may time out while the daemon still creates the container,
`Arrive`), `Poll` or `GiveUp`, `Cleanup` and `Postrun`. `Cancel` revokes, has a
worker kill the containers (`KillTask`), and `CancelEnds` drops the lock only
after an answer. The reaper lists, reads the live ids, and removes. Attempts of
one task never overlap, since the visibility timeout exceeds the hard limit.
Image pulls, log streaming and registry logins are left out. The image gate,
which comes before the sweep in the code, fails with the creation (`CreateFails`)
here. `Submit` has the celery id with the row; a row without one, whose
containers a cancel cannot find, does not occur, and neither do the cancel of a
module without tasks, an engine that cannot be resolved (which counts as
confirmed), or the second route (`routes/tasks.py:202`), which revokes and
kills no container. `KillTask` lists and kills in one step, the live set holds
the ids of the tasks modelled, and a worker that dies in `Create` leaves nothing
on its way; a container that the docker client still created would be swept by
the next attempt, or come after it as `Arrive` does.

### BnkUpgrade and the code

Upgrades of one cluster, each with the lock of its own row. `live` and `fence`
are the lease as `FencedLease` promises it: `Lapse` and `Recover` happen to the
holder, `Acquire` needs a lock that is free or lapsed and moves the fence, and
a fenced write fails for an older token (`Lose`), upon which the handler writes
"failed" without the fence (`FailUnfenced`). `revs` is helm's history of the
FLO release; `hist` records which steps were really carried out. All plans have
the same length, and the install is FLO-managed (any other fails at once). What
a step does to the cluster is one outcome, success or failure.

A plan takes two steps. `PlanCheck` is the look for an open upgrade, after which
come the cluster scan and the pre-checks, and `Plan` the commit of the new row
and of the plan it replaces (`old`); no lock and no unique index stands between
them. Two requests that overlap therefore both plan; `hist.beside` marks every
plan that was committed while another was being made, and what replaces it.
`PlanAborted` is a failed scan.

An exception of `execute_upgrade_task` releases the lock (`Raise`, and `Refuse`
for a status that the service does not accept); its handler then reads the row
(`Handle`) and, if it is in progress, writes "failed" (`MarkFailed`). Both use
the session in which the exception happened, without a rollback: the write may
raise as well, which is logged or swallowed, the message is acknowledged, and
the row stays as it is. The rollback task's handler writes nothing at all
(`RaiseRollback`). `hist.abandoned` marks a row that was left so.

`Cancel` reads and writes in one step, and "in_progress" is written together
with the rollback information (`BeginExecute`); the late writes that matter,
over a task that was admitted meanwhile, are those of `Plan`.

### FleetBulkRun and the code

`exec[e]` is a message and the executor that takes it; no lock keeps two of
them apart. `Load` is what the session reads before its first commit, `Begin`
the commit, then `StartWave`, `Act` for each member in its own session, and
`PassGate`, `Pause` or `Complete`. A wave with a member that was pruned since
`Load` raises at the first look at it, and the run fails (`WavePruned`). A timed
gate sends itself the delayed message (`SendTimer`, `Elapse`); its wait has no
upper limit, and beyond the visibility timeout of three hours the broker hands
the message out again (`Redeliver`). Waves are computed from the buckets at the
time of `Load`. `Move`, `Prune`, `Sicken` and `Age` are what reconcile,
backfill and time do meanwhile; in the code the fault domain never changes, the
wave label can.

`Raise` has two outcomes. Inside the loop the handler writes "failed"; but it
commits on the session in which the exception happened, so that after a
database error its commit raises too. Then, and before or after the loop, the
task ends with the run as it was, and its message is acknowledged
(`hist.lost`). The routes read and write in one step; their broker errors, after
the commit, are a branch of `Start` and of `ResumeRoute`.

### Breaker and the code

One target in one process. `Attempt`, `HalfOpen`, `Trial` and `Claim` are the
reads and writes of `can_attempt`, between which other threads run, since its
lock is never taken; `Return` records the answer. `Probe` exists only where the
scheduler runs (`Probed`).

## Runs

| Run | Instance | Shows |
|---|---|---|
| `entity_lock` | 2 executions of one task; one tick is half a heartbeat, window of 6 heartbeats, wait of 12; fairness; 45 thousand states | type correctness, `OverlapOnlyAfterLapse`, the inductive invariant, `OwnershipKept`, `NewestWriterWins`, refinement of `FencedLease`, `ZombieCleared` |
| `destroy_requests` | two leaves over a root, one leaf in-cluster, 2 overlapping project or module requests, 4 tasks; 1.2 million states | type correctness, `TeardownOrder`, `InfraAccounted` |
| `destroy_cancels` | two modules, 2 overlapping requests of any kind, 1 cancellation; 835 thousand states | `TeardownOrder`, `InfraAccounted` |
| `destroy_faults` | two modules, a stack request, 1 fault, 1 janitor pass in the middle, fairness; 324 thousand states | the inductive invariant `DestroyInv`, refinement of `Teardown`, `StackSettles` |
| `deploy_chain` | two roots and a module over both, before the first deployment or after a failed destroy; 2 requests, 1 fault, 4 tasks; 333 thousand states | `BuildOrder`, `SettledStatus`, `ChainNotStalled`, the inductive invariant `DeployInv` |
| `step_containers` | two modules' tasks on one workspace, 2 containers, 1 fault, 1 cancel, fairness; 730 thousand states | `NoLiveStepRemoved`, `OneBoxPerTask`, `KillBeforeRelease`, the inductive invariant `ContainerInv`, `OrphanReaped` |
| `bnk_upgrade` | 2 plans of 2 steps, 2 tasks, 1 fault, fairness; 1.05 million states | `CompletedDidSteps`, `OneInProgress`, `RollbackRestores`, `EndsAreFinal`, the inductive invariant `UpgradeInv`, `UpgradeSettles` |
| `fleet_bulk_run` | 3 members in two or three waves, every gate, 3 messages, 1 fault, 1 change of the fleet, fairness; 602 thousand states | `WavesInOrder`, `OneExecutor`, `CompletedCovers`, `CancelStops`, the inductive invariant `FleetInv`, `RunSettles` |
| `no_infra_truthful`, `fleet_resume`, `upgrade_skips`, `breaker_stuck` | the smallest instance that shows it | violations, see below |

Bounds. The lock runs with the ratios of the code, 30 s to 5 s to 60 s, since
the comparison at the limit is where it matters; two deliveries of one task are
the worst case, because their task ids do not tell them apart (the proofs cover
any number). In the chains, two leaves over one root (two roots under one
module, for deploy) is the smallest graph in which two hooks race, and a pair
suffices for faults, which concern one edge. `MaxTasks` leaves room for double
dispatches and re-drives; `deploy_chain` was also run with five tasks and holds
there. Two containers are one more than a task needs; two plans and two
messages are what it takes to plan beside an execution or redeliver it; three
messages are a start, a timer and a manual resume. `MaxRequests`, `MaxFaults`,
`MaxCancels` and `MaxChanges` bound the environment; `MaxSweeps` bounds only
the janitor passes that begin while workers or requests are busy, passes at
rest are unbounded, so liveness is not affected.

Deadlock is not checked: all executions ended, a stack or a run that is
settled with no request left, are proper ends. Only `breaker_stuck` checks it,
since a breaker never ends.

Fairness. `EntityLock`: time passes, a refresher thread that is due runs or
misses its beat, `acquire()` keeps polling, and the sweep is a periodic job; a
body need never end. `DestroyChain`: workers are kept running by their
supervisor and take messages, the hook goes on, an accepted request runs to its
end, and the janitor is a periodic job. `BnkUpgrade` and `FleetBulkRun`:
workers take messages and go on, countdowns elapse. `StepContainers`: only the
reaper, which Celery beat starts for ever; tasks may hang. `Breaker`: threads
keep calling and calls end, time passes. Crashes, faults, users and the
inventory are never fair. `DeployChain` has no fairness: its two properties
about ends are stated of the states where nothing is under way.

### What the passing runs say

* `OverlapOnlyAfterLapse`: no second body beside a holder whose heartbeat
  keeps coming, whatever stale refreshes, earlier deliveries and sweeps do.
* `OwnershipKept`, `NewestWriterWins`: the task id *and* the token are needed.
* `ZombieCleared`: a dead holder is cleared by sweep or reclaim.
* `TeardownOrder`: a stack or project run works on a module only when no module
  that depends on it has resources left.
* `InfraAccounted`: no status, deleted row or destroyed stack hides resources.
* `ImplementsTeardown`: seen from outside, the whole chain does three things: it
  destroys a module whose turn has come (or that a user asked for alone), it is
  interrupted at a module by a user, or it changes what rows and stack report,
  never claiming that something is gone which somebody has to answer for.
* `StackSettles`: no combination of lost workers and messages leaves a stack
  destroying for ever.
* `BuildOrder`: nothing is built before what it depends on.
* `SettledStatus`, `ChainNotStalled`: at the end no module is transitional, and
  none waits with its dependencies applied. Excused are runs in which a message
  or row was lost (a broker error, a commit slower than the worker's look-ups)
  or the status write of a single-module request came after its task's end;
  and, for the chain, modules a user only wanted initialized.
* `NoLiveStepRemoved`: the sweep and the reaper spare the container a task is
  polling, unless its start was not recorded in Redis.
* `OneBoxPerTask`: a redelivered task does not run beside its predecessor,
  unless a docker or Redis call of the sweep or the kill failed.
* `KillBeforeRelease`, `OrphanReaped`: the lock goes after the containers, and
  an orphan without a live id is removed. An id that a dead worker left in
  Redis protects its container until the worker's record goes.
* `CompletedDidSteps`, `RollbackRestores`, `EndsAreFinal`, `OneInProgress`,
  `UpgradeSettles`: what an upgrade reports is what happened. Excused: a step
  during which the worker died or lost its lease, rollback information that was
  captured again after the helm step, another upgrade's revisions in between,
  unfenced "failed" writes, a cancellation (also by a new plan) between a
  task's read and write, plans that were made beside each other, of which both
  can be carried out, a failure that could not be written, and a rollback whose
  task raised or whose worker died (it stays rolling_back, since the redelivered
  task does not accept that status).
* `WavesInOrder`, `CompletedCovers`: as long as the fleet keeps its buckets.
* `OneExecutor`: unless a message of the run was delivered again (a worker died
  over it, or a countdown outlasted the visibility timeout), or an operator
  resumed a timed gate by hand.
* `CancelStops`: for the gates without a timer, and unless an executor was
  between its read and its first commit.
* `RunSettles`: unless a message was lost or delivered again (the redelivered
  task refuses a running run), a task could not write how it ended, or the run
  was resumed by hand.

In-cluster modules are excused from the two safety properties of the teardown,
since the code lets them go down with their cluster, and so are modules whose
destroy a user cancelled, for the reason the next section gives.

### What the code does not do

* `no_infra_truthful`: cancelling a destroy task leaves "initialized", which
  counts as having no infrastructure.
* `fleet_resume`: a run that is resumed through the route stays running for
  ever, because the route writes "running" and the task wants "paused_gate".
* `upgrade_skips`: a step whose worker died counts as done.
* `breaker_stuck`: an auth failure of the half-open trial leaves the trial in
  flight, and a worker process then refuses the target for good.

`PROJECT.json` quotes the lines they disagree with. Met while modelling, and
without a run of their own:

* a lapsed lease fences the writes of the earlier body, but does not keep it out
  of the workspace (`opentofu_tasks.py:1035`);
* two destroy hooks can both queue a task for one module: the double-dispatch
  guard is a plain SELECT (`_tofu_helpers.py:377`), and the deploy hook works
  on a list read before, so a module applied meanwhile can be queued again
  (`_tofu_helpers.py:144`);
* `update_stack_progress` writes "destroyed" before terminal detection, which
  then returns early, so finalization is skipped and rows stay
  (`_tofu_helpers.py:644`);
* `retry_deployment` and `deploy_module` of a module whose destroy failed
  dispatch an apply and then answer with an error
  (`project_module_service.py:1507`);
* two "Validate & Plan" requests that overlap leave two ready plans of one
  cluster, and both can be executed at once (`bnk_upgrade_service.py:280`);
* an upgrade or a bulk run whose failure could not be written stays executing:
  the handlers use the session of the exception without a rollback
  (`bnk_upgrade_tasks.py:173`, `fleet_bulkop_service.py:610`), and a rollback
  that raises stays rolling_back (`bnk_upgrade_tasks.py:266`);
* a cancelled fleet run whose wave is being carried out is put back to
  paused_gate or completed by the end of that wave, and a resumed run counts its
  waves in the buckets of the moment (`fleet_bulkop_service.py:406`);
* an orphan of a dead worker whose Redis record stays is spared by the sweep as
  a live sibling (`container_runner.py:503`).

## Proofs

Every safety property that a passing run checks, invariant or action property,
is also proved, for every value of the constants that the named assumptions
allow, and so are both refinements. Each proof has the same shape. The property
is not inductive, so the module states an invariant that is (its parts are at
the end of the module, and a run checks it); one lemma for each action shows
that it is kept, which rests on lemmas saying what part of it a step of that
kind can disturb at all; the properties follow from it.

| Module | Assumptions | Theorems beside the inductive invariant and type correctness |
|---|---|---|
| `EntityLockProofs` | `TimingAssumption` (`0 < HEARTBEAT_INTERVAL <= RECLAIM_AFTER`), `TaskAssumption`; any executions and tasks | `OverlapSafety`, `OwnershipSafety`, `WriterSafety`, `Refinement` (of `FencedLease`) |
| `DestroyChainProofs` | `ModulesAssumption`, `BoundsAssumption`; any dependency relation and in-cluster modules, any number of tasks, requests, faults, cancellations and passes | `InfraAccountedSafety`, `TeardownOrderSafety`, `Refinement` (of `Teardown`) |
| `DeployChainProofs` | `DeployAssumption`, `StartAssumption` (a start in which no status is transitional, what exists has its dependencies, and nothing waits that could go on); any dependency relation, also a cyclic one | `BuildOrderSafety`, `SettledSafety`, `NotStalledSafety` |
| `StepContainersProofs` | `StepAssumption`; any tasks, workers and modules, any number of containers | `OneBoxSafety`, `NoLiveStepRemovedSafety`, `KillBeforeReleaseSafety` |
| `BnkUpgradeProofs` | `UpgradeAssumption`; any upgrades and messages, a plan of any length with the helm step anywhere | `CompletedDidStepsSafety`, `OneInProgressSafety`, `RollbackRestoresSafety`, `EndsAreFinalSafety` |
| `FleetBulkRunProofs` | `FleetAssumption`; any members, buckets, runs and messages | `WavesInOrderSafety`, `OneExecutorSafety`, `CompletedCoversSafety`, `CancelStopsSafety` |

Why the invariants are what they are:

* `LockInv`. `OverlapOnlyAfterLapse` says nothing of why a second acquire is
  impossible. `LockInv` adds that tokens are unique and not above the row's
  fence (`TokensUnique`), that a body that has not lapsed owns the row, has a
  running refresher, and that the age of the row's heartbeat is at most the
  beats it missed plus the running wait (`BeatInv`), and that a forced token's
  row is free while it is the latest (`ForcedInv`). Then a row under a healthy
  body can be neither free nor stale (lemma `NotStale`), so `Acquire` and
  `Sweep` are disabled, which is the step every other theorem rests on.
* `DestroyInv`. What the recoveries write depends on old task rows, so the
  rows have to be true: a completed task's module has no resources, a cancelled
  one's is excused (`OutcomeInv`). Terminal detection and finalization look only
  at the stack's scope, so the scope has to list what is left (`ScopeInv`). A
  task may start long after it was queued, so the turn of a module is a fact
  about its task and about what a hook has picked, from their creation on
  (`TurnInv`). `RowInv` and `JanitorInv` say which rows there are. The idea that
  carries the proof is that the modules *owed* (with resources, not excused)
  only ever become fewer: a turn that has come stays, however late, twice or
  re-driven the step that uses it.
* `Refinement` of `Teardown`. `DestroyOk` is `Destroy`, by `TurnInv`, or `Report`
  when nothing was left; the two cancellations are `Interrupt`; every other step
  leaves the resources alone and is a `Report`, true by the invariant of the
  state it leads to. The scope "module" is inherited along the hook, from the
  newest task of the module at that (`NextScope`), so `RowInv` also says that
  such a task exists only where users make single-module requests.
* `DeployInv`. An apply is under way only if the dependencies are built
  (`BuiltInv`). A transitional status has a task that will end it
  (`SettleInv`), and a waiting module whose dependencies are applied has a task
  or a hook that will get to it (`WaitInv`), which needs to know of every row
  whether a worker has it (`RowInv`), which rows a session has not committed
  (`SessionInv`) and who holds the lock (`LockInv`).
* `ContainerInv`. A removal acts on a list read two steps before. `SpareInv`
  says that no list contains what somebody polls by now, because a recorded
  attempt is among the live ids until it ends (`RecordInv`) and containers are
  never created again (`BoxInv`); `SweepInv` what is left of a task's own
  containers at each point, `KillInv` what a cancel still has to stop.
* `UpgradeInv`. A fenced write proves only that the token is the newest;
  `FenceInv` and `StatusInv` make of it that the status is what the holder left,
  `StepsInv` that every step up to the present one is done, cut short or in
  work, `RestoreInv` which revisions helm can be rolled back to. `OpenInv` says
  that at most one upgrade of a cluster is open, but for those whose "cancelled"
  or "failed" was written over (`raced`, `unfenced`) and those planned beside
  another one; `PlanningInv` is what a request that is still planning knows, and
  why its commit adds no open upgrade without replacing one or being marked.
* `FleetInv`. `ProgressInv` carries what is settled through the three places in
  which progress is kept (the saved index, the executor's loop, its open wave),
  for executors that computed the same waves (`WavesInv`). `SingleInv` is why
  there is one of them, `CancelInv` why a cancelled run without a timer has none
  that will write over the cancellation.

What the proofs taught. Two properties of `BnkUpgrade` held in the runs only
because the bounds were small: an exception outside the lock also writes
"failed" unfenced, and a rollback of *another* upgrade may put revisions in
between; `hist.unfenced` and `Others` now say so. Acyclic dependencies, which
`DeployAssumption` once required, are not needed for any of its safety
properties: by `BuildOrder`, the modules of a cycle are simply never built.

Only model-checked. Liveness (`ZombieCleared`, `StackSettles`, `OrphanReaped`,
`UpgradeSettles`, `RunSettles`) needs fairness and `ENABLED`, which the prover
does not handle. The four violations are counterexamples and have nothing to
prove; `Breaker` has only such a run.

## Not modelled

The repository has some 200,000 lines of implementation, of which the modules
above cover the part where several actors change shared state under failure.
The rest has little for a model checker: execution engines, device flashing,
discovery and QKView analysis are subprocess and network I/O whose outcome is
one nondeterministic result here; proxy translation, catalogs and blueprints
convert documents; most routes read or write one row; the frontend, the MCP
server and the CLI are clients of the API. `PROJECT.json` lists each part with
its reason. Parts with a protocol of their own that are left for later are the
operators' connectivity registry, tmfifo address allocation, the bare-metal
orchestrator (the wave loop that `fleet_bulkop_service.py` was copied from) and
the stack's variant of the deploy hook.

## Plan

1. `BnkUpgrade` states its lease by hand, in the way `FencedLease` promises it.
   That its lock steps are those of `FencedLease` for each row could be shown as
   a refinement, once the model records who was granted which token.
2. An abstract bulk run (waves are settled in order, a cancelled or completed
   run stays so) that `FleetBulkRun` implements while the fleet keeps its
   buckets.
3. The parts named at the end of the previous section.
