---------------------------- MODULE DestroyChain ----------------------------
(***************************************************************************)
(* The event-driven teardown of a stack or project (D-001 Phase 3): a      *)
(* request dispatches destroy tasks for the modules nothing depends on,    *)
(* and every finished task queues the dependencies it has freed            *)
(* (tasks/_tofu_helpers.py), until the stack is settled. Workers, requests,*)
(* cancellations, status polls and the stale-execution janitor interleave. *)
(*                                                                         *)
(* One project with one stack that owns all its modules. Module statuses   *)
(* are those the teardown tells apart:                                     *)
(*   applied, apply_failed                  there may be resources         *)
(*   destroying, destroyed, destroy_failed                                 *)
(*   initialized   not_initialized, initialized, planned: never applied    *)
(*   gone          the row has been deleted                                *)
(* The module lock is a mutual exclusion here; EntityLock has its leases.  *)
(***************************************************************************)
EXTENDS Integers, FiniteSets

CONSTANTS
  Modules,     \* ids of the project_modules rows
  Deps,        \* Deps[m]: the modules m depends on (module.dependencies)
  InCluster,   \* modules for which is_in_cluster_module holds
  Requests,    \* the kinds of requests users make
  MaxTasks,    \* bound: destroy tasks created
  MaxRequests, \* bound: requests accepted
  MaxFaults,   \* bound: worker deaths, broker errors, Redis outages
  MaxCancels,  \* bound: cancellations by users
  MaxSweeps    \* bound: janitor passes while workers or requests are busy

ASSUME ModulesAssumption ==
  /\ Modules \subseteq Nat /\ IsFiniteSet(Modules)
  /\ Deps \in [Modules -> SUBSET Modules]
  /\ InCluster \subseteq Modules
ASSUME BoundsAssumption ==
  /\ Requests \subseteq {"stack", "project", "module"}
  /\ MaxTasks \in Nat /\ MaxRequests \in Nat /\ MaxFaults \in Nat
  /\ MaxCancels \in Nat /\ MaxSweeps \in Nat

TaskIds == 1 .. MaxTasks
Janitor == 0
Actors  == TaskIds \cup {Janitor}  \* whoever may run the trigger hook
NoModule == -1

Statuses == {"applied", "apply_failed", "destroying", "destroyed",
             "destroy_failed", "initialized", "gone"}
StackStatuses == {"deployed", "deploying", "pending", "destroying", "failed",
                  "destroyed", "gone"}
TaskStatuses == {"none", "queued", "in_progress", "completed", "failed",
                 "cancelled"}
Scopes == {"stack", "project", "module"}

VARIABLES
  status,   \* status[m]: ProjectModule.status
  infra,    \* infra[m]: resources of m may exist (what no row records)
  stack,    \* StackInstance.status
  scope,    \* StackInstance.deployed_modules
  task,     \* task[i]: the tasks table, destroy tasks only
  nextId,   \* the next task id
  worker,   \* worker[i]: the message of task i in the broker ("sent"), or
            \*   where the worker that took it is
  lock,     \* lock[m]: i while task i holds the module lock, -i when it was
            \*   taken from i by force and nobody has acquired it since, or 0
  todo,     \* todo[a]: dependencies the trigger hook of a has yet to look at
  pick,     \* pick[a]: the dependency it has decided to queue
  request,  \* the request that is between its two commits
  audit,    \* single-module requests that have yet to write their audit row
  janitor,  \* the janitor's pass: pc; the live ids, stale tasks and stuck
            \*   modules it read; the modules left to re-drive, the present one
  ghosts,   \* task ids that killed workers left in Redis
  requests, faults, cancels, sweeps,  \* how often, against the bounds
  interrupted  \* modules whose destroy a user cancelled

rowVars   == <<status, stack, scope>>
taskVars  == <<task, nextId, worker>>
chainVars == <<todo, pick>>
userVars  == <<request, audit, requests>>
lossVars  == <<ghosts, faults, cancels, interrupted>>
sweepVars == <<janitor, sweeps>>
vars == <<rowVars, infra, taskVars, lock, chainVars, userVars, sweepVars,
          lossVars>>

-----------------------------------------------------------------------------
NO_INFRA_STATUSES == {"destroyed", "initialized"}
TERMINAL_DESTROY_STATUSES == NO_INFRA_STATUSES \cup {"destroy_failed"}
NonTerminal == {"queued", "in_progress"}
AtWork == {"waiting", "body", "settled", "trigger"}

Rows == {m \in Modules : status[m] # "gone"}

(* get_reverse_dependencies *)
Dependents(d) == {m \in Rows : d \in Deps[m]}

TasksOf(m) == {i \in TaskIds : task[i].module = m}
Active(m) == \E i \in TasksOf(m) : task[i].st \in NonTerminal

(* The newest task row of m, by id. *)
LastTask(m) == CHOOSE i \in TasksOf(m) : \A j \in TasksOf(m) : j <= i

(* The task ids in worker:tasks:* of Redis. Only signals remove them. *)
Live == {i \in TaskIds : worker[i] \in AtWork} \cup ghosts

(* Add a queued destroy task of scope sc for every module of ms to the tasks
   table, and send its message. The message goes out before the commit, so a
   worker may take it "early" and find no row; sending those of "unsent" met a
   broker error. *)
TaskFor(m, ms) == nextId + Cardinality({k \in ms : k < m})
Queue(table, ms, sc, early, unsent) ==
  LET Of(i) == {m \in ms : TaskFor(m, ms) = i}
  IN  /\ nextId + Cardinality(ms) <= MaxTasks + 1
      /\ faults + Cardinality(early \cup unsent) <= MaxFaults
      /\ faults' = faults + Cardinality(early \cup unsent)
      /\ nextId' = nextId + Cardinality(ms)
      /\ task' = [i \in TaskIds |->
                    IF Of(i) = {} THEN table[i]
                    ELSE [module |-> CHOOSE m \in Of(i) : TRUE,
                          scope |-> sc, st |-> "queued"]]
      /\ worker' = [i \in TaskIds |->
                      CASE Of(i) = {}              -> worker[i]
                        [] Of(i) \cap early # {}   -> "early"
                        [] Of(i) \cap unsent # {}  -> "none"
                        [] OTHER                   -> "sent"]

Destroying(ms) ==
  [m \in Modules |-> IF m \in ms THEN "destroying" ELSE status[m]]

AtRest == [pc |-> "idle", live |-> {}, stale |-> {}, stuck |-> {},
           redrive |-> {}, mod |-> NoModule]

Fault == faults < MaxFaults /\ faults' = faults + 1

-----------------------------------------------------------------------------
(* Mutant of Recovered: the generic "failed" of the stack's vocabulary. *)
RecoveredAsFailed(m) ==
  IF status[m] = "destroying" /\ ~Active(m) /\ TasksOf(m) # {}
    THEN "failed" ELSE status[m]

(* update_stack_progress. Its first half (BUG-009) recovers a module that is
   destroying while no task of it is active, from its last task. *)
Recovered(m) ==
  IF status[m] = "destroying" /\ ~Active(m) /\ TasksOf(m) # {}
    THEN CASE task[LastTask(m)].st = "failed"    -> "destroy_failed"
           [] task[LastTask(m)].st = "completed" -> "destroyed"
           [] OTHER                              -> "initialized"
    ELSE status[m]

(* Its second half counts the recovered statuses st of the rows. *)
Progress(st) ==
  LET All(s)  == \A m \in Rows : st[m] = s
      Some(S) == \E m \in Rows : st[m] \in S
      failed  == Some({"destroy_failed", "apply_failed"})
  IN  CASE Rows = {} -> IF stack = "destroying" THEN "destroyed" ELSE stack
        [] Rows # {} /\ stack = "destroying" ->
             IF failed THEN "failed"
             ELSE IF All("destroyed") THEN "destroyed" ELSE "destroying"
        [] Rows # {} /\ stack # "destroying" ->
             IF All("destroyed") THEN "destroyed"
             ELSE IF failed THEN "failed"
             ELSE IF All("applied") THEN "deployed"
             ELSE IF Some({"destroying"}) THEN "deploying"
             ELSE IF Some({"applied"}) THEN "pending" ELSE stack

UpdateStackProgress ==
  IF stack = "gone"
    THEN UNCHANGED rowVars
    ELSE LET st == [m \in Modules |-> Recovered(m)]
         IN  /\ status' = st
             /\ stack' = Progress(st)
             /\ scope' = IF \/ Rows = {} /\ stack = "destroying"
                            \/ /\ Rows # {}
                               /\ stack # "destroying"
                               /\ \A m \in Rows : st[m] = "destroyed"
                           THEN {} ELSE scope

(* get_stack_status: a poll reconciles a stack that is under way. *)
PollStack ==
  /\ stack \in {"destroying", "deploying"}
  /\ UpdateStackProgress
  /\ UNCHANGED <<infra, taskVars, lock, chainVars, userVars, sweepVars,
                 lossVars>>

-----------------------------------------------------------------------------
(* A deploy goes up the graph: what an applied module depends on is applied. *)
Init ==
  /\ status \in [Modules -> {"applied", "apply_failed", "initialized"}]
  /\ \A m \in Modules : status[m] # "initialized" =>
       \A d \in Deps[m] : status[d] = "applied"
  /\ infra = [m \in Modules |-> status[m] # "initialized"]
  /\ stack = IF \E m \in Modules : status[m] = "apply_failed" THEN "failed"
             ELSE IF \A m \in Modules : status[m] = "applied" THEN "deployed"
             ELSE "pending"
  /\ scope = Modules
  /\ task = [i \in TaskIds |->
               [module |-> NoModule, scope |-> "stack", st |-> "none"]]
  /\ nextId = 1
  /\ worker = [i \in TaskIds |-> "none"]
  /\ lock = [m \in Modules |-> 0]
  /\ todo = [a \in Actors |-> {}]
  /\ pick = [a \in Actors |-> NoModule]
  /\ request = "none"
  /\ audit = {}
  /\ janitor = AtRest
  /\ ghosts = {}
  /\ requests = 0 /\ faults = 0 /\ cancels = 0 /\ sweeps = 0
  /\ interrupted = {}
-----------------------------------------------------------------------------
(* run_opentofu_destroy. ModuleOf(i) is the module task i tears down. *)
ModuleOf(i) == task[i].module
SetTask(i, s) == task' = [task EXCEPT ![i].st = s]
SetStatus(m, s) == status' = [status EXCEPT ![m] = s]
GoTo(i, pc) == worker' = [worker EXCEPT ![i] = pc]
Unlock(i) ==
  lock' = [m \in Modules |-> IF lock[m] \in {i, -i} THEN 0 ELSE lock[m]]

(* What the trigger hook of i has to look at: nothing at module scope. *)
Trigger(i) ==
  /\ GoTo(i, "trigger")
  /\ todo' = [todo EXCEPT ![i] =
                IF task[i].scope = "module" THEN {} ELSE Deps[ModuleOf(i)]]

Leave(i) ==
  /\ GoTo(i, "none")
  /\ todo' = [todo EXCEPT ![i] = {}]
  /\ pick' = [pick EXCEPT ![i] = NoModule]

(* The message is taken. The row of the task is not asked whether it is
   cancelled or already finished; a module without resources is skipped
   (CP-008), any other waits for its lock. *)
Start(i) ==
  LET m == ModuleOf(i)
  IN  /\ worker[i] = "sent"
      /\ \/ /\ m \notin Rows
            /\ SetTask(i, "failed") /\ GoTo(i, "none")
            /\ UNCHANGED status
         \/ /\ m \in Rows /\ status[m] = "initialized"
            /\ SetTask(i, "completed") /\ GoTo(i, "settled")
            /\ SetStatus(m, "destroyed")
         \/ /\ m \in Rows /\ status[m] # "initialized"
            /\ SetTask(i, "in_progress") /\ GoTo(i, "waiting")
            /\ UNCHANGED status
      /\ UNCHANGED <<infra, stack, scope, nextId, lock, chainVars, userVars,
                     sweepVars, lossVars>>

(* fetch_task_or_raise found no row and raised; on_failure marks the row
   failed if it has been committed by then. *)
StartEarly(i) ==
  /\ worker[i] = "early"
  /\ GoTo(i, "none")
  /\ SetTask(i, "failed") \/ UNCHANGED task
  /\ UNCHANGED <<rowVars, infra, nextId, lock, chainVars, userVars, sweepVars,
                 lossVars>>

Acquire(i) ==
  /\ worker[i] = "waiting"
  /\ lock[ModuleOf(i)] <= 0
  /\ lock' = [lock EXCEPT ![ModuleOf(i)] = i]
  /\ GoTo(i, "body")
  /\ UNCHANGED <<rowVars, infra, task, nextId, chainVars, userVars, sweepVars,
                 lossVars>>

(* The handlers of ModuleLockError, ModuleLockLostError and
   SoftTimeLimitExceeded: an unfenced destroy_failed, then the trigger hook.
   If the row is gone the handler fails too and on_failure closes the task. *)
Handler(i) ==
  /\ Unlock(i)
  /\ SetTask(i, "failed")
  /\ IF ModuleOf(i) \in Rows
       THEN SetStatus(ModuleOf(i), "destroy_failed") /\ Trigger(i)
       ELSE GoTo(i, "none") /\ UNCHANGED <<status, todo>>
  /\ UNCHANGED <<stack, scope, nextId, pick, userVars, sweepVars, lossVars>>

(* module_lock gave up: another task holds the module. *)
LockTimeout(i) ==
  /\ worker[i] = "waiting"
  /\ lock[ModuleOf(i)] > 0
  /\ Handler(i)
  /\ UNCHANGED infra

(* The time limit, or the fenced write of the outcome finding the lock lost:
   nothing is known of how far tofu destroy got. *)
Raised(i) ==
  /\ worker[i] = "body"
  /\ Handler(i)
  /\ UNCHANGED infra

(* The fence token of i is still the row's: a fenced write goes through. *)
HoldsModule(i) ==
  /\ worker[i] = "body"
  /\ ModuleOf(i) \in Rows
  /\ lock[ModuleOf(i)] \in {i, -i}

(* is_legal_transition: a destroyed module cannot begin or fail a destroy. *)
Refused(m) == status[m] = "destroyed"

DestroyOk(i) ==
  /\ HoldsModule(i)
  /\ infra' = [infra EXCEPT ![ModuleOf(i)] = FALSE]
  /\ SetTask(i, "completed")
  /\ SetStatus(ModuleOf(i), "destroyed")
  /\ GoTo(i, "settled")
  /\ UNCHANGED <<stack, scope, nextId, lock, chainVars, userVars, sweepVars,
                 lossVars>>

(* Mutant of DestroyFail: the task is completed whatever tofu destroy said. *)
DestroyFailCompletes(i) ==
  /\ HoldsModule(i)
  /\ ~Refused(ModuleOf(i))
  /\ SetTask(i, "completed")
  /\ SetStatus(ModuleOf(i), "destroy_failed")
  /\ GoTo(i, "settled")
  /\ UNCHANGED <<infra, stack, scope, nextId, lock, chainVars, userVars,
                 sweepVars, lossVars>>

(* tofu destroy exits with an error. A refused transition ends in Exception. *)
DestroyFail(i) ==
  /\ HoldsModule(i)
  /\ ~Refused(ModuleOf(i))
  /\ SetTask(i, "failed")
  /\ SetStatus(ModuleOf(i), "destroy_failed")
  /\ GoTo(i, "settled")
  /\ UNCHANGED <<infra, stack, scope, nextId, lock, chainVars, userVars,
                 sweepVars, lossVars>>

(* tofu init failed: the task returns without telling stack or chain. *)
InitFail(i) ==
  /\ HoldsModule(i)
  /\ ~Refused(ModuleOf(i))
  /\ SetTask(i, "failed")
  /\ SetStatus(ModuleOf(i), "destroy_failed")
  /\ GoTo(i, "none")
  /\ Unlock(i)
  /\ UNCHANGED <<infra, stack, scope, nextId, chainVars, userVars, sweepVars,
                 lossVars>>

(* Any other exception, before, under or after the operation: the lock is
   left, _mark_task_failed writes an unfenced destroy_failed (also over a
   destroy that had succeeded), and the stack and the chain are told. *)
Exception(i) ==
  /\ worker[i] \in {"waiting", "body", "settled"}
  /\ ModuleOf(i) \in Rows
  /\ SetTask(i, "failed")
  /\ SetStatus(ModuleOf(i), "destroy_failed")
  /\ GoTo(i, "settled")
  /\ Unlock(i)
  /\ UNCHANGED <<infra, stack, scope, nextId, chainVars, userVars, sweepVars,
                 lossVars>>

(* _update_stack_status_if_needed, and into the trigger hook. *)
UpdateStack(i) ==
  /\ worker[i] = "settled"
  /\ ModuleOf(i) \in Rows
  /\ UpdateStackProgress
  /\ Trigger(i)
  /\ UNCHANGED <<infra, task, nextId, lock, pick, userVars, sweepVars,
                 lossVars>>

(* Another worker finalized the stack: the row went away under this one. *)
RowVanished(i) ==
  /\ worker[i] \in {"settled", "trigger"}
  /\ ModuleOf(i) \notin Rows
  /\ Leave(i)
  /\ Unlock(i)
  /\ UNCHANGED <<rowVars, infra, task, nextId, userVars, sweepVars, lossVars>>

(* The worker process is lost. The message is redelivered (acks_late,
   reject_on_worker_lost), the lock runs out, Redis keeps the task id. *)
Crash(i) ==
  /\ worker[i] \in AtWork
  /\ Fault
  /\ worker' = [worker EXCEPT ![i] = "sent"]
  /\ todo' = [todo EXCEPT ![i] = {}]
  /\ pick' = [pick EXCEPT ![i] = NoModule]
  /\ Unlock(i)
  /\ ghosts' = ghosts \cup {i}
  /\ UNCHANGED <<rowVars, infra, task, nextId, userVars, sweepVars, cancels,
                 interrupted>>

-----------------------------------------------------------------------------
(* _trigger_next_destroy_module, run by a worker or by the janitor. Each
   dependency is one read and, if it is to be queued, a later commit. *)
ActorModule(a) == IF a = Janitor THEN janitor.mod ELSE ModuleOf(a)

(* _destroy_scope_for: of the task that runs, else of the newest one. *)
ScopeOf(a) == IF a = Janitor THEN task[LastTask(janitor.mod)].scope
              ELSE task[a].scope

Triggering(a) ==
  /\ IF a = Janitor THEN janitor.pc = "trigger" ELSE worker[a] = "trigger"
  /\ ActorModule(a) \in Rows

(* The newest task of the module has a run_handle: both waves set one, a
   single-module request does not. *)
InRun(a) == task[LastTask(ActorModule(a))].scope # "module"

(* What the next task of the chain gets. A project run stamps its scope; a
   stack run is told from a single-module one by the run_handle alone, and that
   is copied from the newest task, not from the one that runs. *)
NextScope(a) ==
  IF ScopeOf(a) = "stack" /\ ~InRun(a) THEN "module" ELSE ScopeOf(a)

(* Mutant of Blocks: any terminal status clears the barrier. *)
BlocksUnlessTerminal(a, x) ==
  /\ ScopeOf(a) = "stack" /\ scope # {} => x \in scope
  /\ status[x] \notin TERMINAL_DESTROY_STATUSES

(* The barrier: dependent x keeps its dependency from being queued by a. *)
Blocks(a, x) ==
  /\ ScopeOf(a) = "stack" /\ scope # {} => x \in scope
  /\ status[x] \notin NO_INFRA_STATUSES
  /\ status[x] = "destroy_failed" =>
       ~ (ScopeOf(a) = "project" /\ x \in InCluster)

TriggerRead(a, d) ==
  /\ Triggering(a)
  /\ pick[a] = NoModule
  /\ d \in todo[a]
  /\ todo' = [todo EXCEPT ![a] = @ \ {d}]
  /\ pick' = [pick EXCEPT ![a] =
                IF /\ d \in Rows
                   /\ status[d] \notin NO_INFRA_STATUSES
                   /\ \A x \in Dependents(d) : ~Blocks(a, x)
                   /\ ~Active(d)
                  THEN d ELSE NoModule]
  /\ UNCHANGED <<rowVars, infra, taskVars, lock, userVars, sweepVars,
                 lossVars>>

TriggerCommit(a) ==
  LET d == pick[a]
  IN  /\ Triggering(a)
      /\ d \in Rows
      /\ \E early \in SUBSET {d} : Queue(task, {d}, NextScope(a), early, {})
      /\ status' = Destroying({d})
      /\ pick' = [pick EXCEPT ![a] = NoModule]
      /\ UNCHANGED <<infra, stack, scope, lock, todo, userVars, sweepVars,
                     ghosts, cancels, interrupted>>

(* apply_async raised: the loop is left, and the row and the status it had
   flushed are committed or not by what the caller commits next. *)
TriggerError(a) ==
  LET d == pick[a]
  IN  /\ Triggering(a)
      /\ d # NoModule
      /\ \/ /\ d \in Rows
            /\ Queue(task, {d}, NextScope(a), {}, {d})
            /\ status' = Destroying({d})
         \/ /\ IF d \in Rows THEN Fault ELSE UNCHANGED faults
            /\ UNCHANGED <<taskVars, status>>
      /\ todo' = [todo EXCEPT ![a] = {}]
      /\ pick' = [pick EXCEPT ![a] = NoModule]
      /\ UNCHANGED <<infra, stack, scope, lock, userVars, sweepVars, ghosts,
                     cancels, interrupted>>

(* _finalize_destroy of a stack deletes every row of its scope. *)
FinalizeDestroy ==
  /\ stack' = "destroyed"
  /\ status' = [m \in Modules |->
                  IF m \in scope THEN "gone" ELSE status[m]]
  /\ scope' = {}

(* _mark_entity_failed *)
MarkEntityFailed == stack' = "failed" /\ UNCHANGED <<status, scope>>

(* Mutant of DetectStack: finalizes without looking for failures. *)
DetectStackIgnoresFailed ==
  IF /\ stack = "destroying" /\ scope # {}
     /\ \A m \in scope \cap Rows : status[m] \in TERMINAL_DESTROY_STATUSES
    THEN FinalizeDestroy
    ELSE UNCHANGED rowVars

(* _run_terminal_detection_stack *)
DetectStack ==
  IF /\ stack = "destroying" /\ scope # {}
     /\ \A m \in scope \cap Rows : status[m] \in TERMINAL_DESTROY_STATUSES
    THEN IF \E m \in scope : status[m] = "destroy_failed"
           THEN MarkEntityFailed ELSE FinalizeDestroy
    ELSE UNCHANGED rowVars

(* Mutant of DetectProject: every failure is reconciled. *)
DetectProjectReconcilesAll ==
  /\ status' = [m \in Modules |->
                  IF status[m] = "destroy_failed" THEN "destroyed"
                  ELSE status[m]]
  /\ UNCHANGED <<stack, scope>>

(* _run_terminal_detection_project: failures that are all in-cluster count as
   destroyed. A project has no status of its own to write. *)
DetectProject ==
  LET toDestroy == {m \in Rows : status[m] \notin NO_INFRA_STATUSES}
  IN  /\ status' = IF /\ toDestroy \subseteq InCluster
                      /\ \A m \in toDestroy : status[m] = "destroy_failed"
                     THEN [m \in Modules |-> IF m \in toDestroy
                                                THEN "destroyed"
                                                ELSE status[m]]
                     ELSE status
      /\ UNCHANGED <<stack, scope>>

(* Terminal detection, and the end of the worker's or the janitor's turn. *)
Detect(a) ==
  /\ Triggering(a)
  /\ todo[a] = {} /\ pick[a] = NoModule
  /\ CASE ScopeOf(a) = "stack"                -> DetectStack
       [] ScopeOf(a) = "project" /\ InRun(a)  -> DetectProject
       [] ScopeOf(a) = "project" /\ ~InRun(a) -> UNCHANGED rowVars \* legacy
       [] ScopeOf(a) = "module"               -> UNCHANGED rowVars
  /\ IF a = Janitor
       THEN /\ janitor' = [janitor EXCEPT !.pc = "redrive", !.mod = NoModule]
            /\ UNCHANGED <<worker, lock>>
       ELSE GoTo(a, "none") /\ Unlock(a) /\ UNCHANGED janitor
  /\ UNCHANGED <<infra, task, nextId, chainVars, userVars, sweeps, lossVars>>

-----------------------------------------------------------------------------
(* Requests. *)
Accept(kind) ==
  /\ kind \in Requests
  /\ requests < MaxRequests
  /\ requests' = requests + 1

(* BUG-008, the recovery of destroy_stack: its last case fails closed. *)
RecoveredForDestroy(m) ==
  IF status[m] = "destroying" /\ ~Active(m)
    THEN IF TasksOf(m) # {} /\ task[LastTask(m)].st = "completed"
           THEN "destroyed" ELSE "destroy_failed"
    ELSE status[m]

(* destroy_stack up to the commit of DESTROYING: stale modules are recovered,
   then modules without resources lose their row at once; with nothing left
   to destroy the stack goes too, and an active module refuses the request. *)
DestroyStack ==
  LET st == [m \in Modules |-> RecoveredForDestroy(m)]
      toDestroy == {m \in Rows : st[m] \notin NO_INFRA_STATUSES}
  IN  /\ Accept("stack")
      /\ request = "none"
      /\ stack \notin {"destroying", "gone"}
      /\ IF \E m \in Rows : st[m] = "destroying"
           THEN status' = st /\ UNCHANGED <<stack, scope, request>>
           ELSE /\ status' = [m \in Modules |->
                                IF m \in toDestroy THEN st[m] ELSE "gone"]
                /\ scope' = toDestroy
                /\ stack' = IF toDestroy = {} THEN "gone" ELSE "destroying"
                /\ request' = IF toDestroy = {} THEN "none" ELSE "stack"
      /\ UNCHANGED <<infra, taskVars, lock, chainVars, audit, sweepVars,
                     lossVars>>

(* Mutant of Leaves: the whole stack in one wave. *)
LeavesAll(ms) == {m \in ms : status[m] \notin NO_INFRA_STATUSES \cup {"gone"}}

(* Modules of ms that no module of ms with resources depends on. *)
Leaves(ms) ==
  {m \in ms : /\ status[m] \notin NO_INFRA_STATUSES \cup {"gone"}
              /\ \A x \in ms : m \in Deps[x] =>
                   status[x] \in NO_INFRA_STATUSES \cup {"gone"}}

(* _dispatch_first_destroy_wave_stack: one commit for the whole wave. A
   broker error leaves the loop; the modules reached by then are committed
   with the failed stack. *)
StackWave ==
  LET wave == {m \in Leaves(scope) : ~Active(m)}
  IN  /\ request = "stack"
      /\ request' = "none"
      /\ \E reached \in SUBSET wave : \E early, unsent \in SUBSET reached :
           /\ early \cap unsent = {}
           /\ Cardinality(unsent) <= 1
           /\ unsent = {} => reached = wave
           /\ Queue(task, reached, "stack", early, unsent)
           /\ stack' = IF unsent = {} THEN stack ELSE "failed"
           /\ status' = Destroying(reached)
      /\ UNCHANGED <<scope, infra, lock, chainVars, audit, requests,
                     sweepVars, ghosts, cancels, interrupted>>

(* destroy_all_modules up to its first commit. A task under way refuses it,
   unless its worker has the row locked at the moment (skip_locked). *)
DestroyAll ==
  /\ Accept("project")
  /\ request = "none"
  /\ \A i \in TaskIds : task[i].st \in NonTerminal => worker[i] \in AtWork
  /\ stack' = IF stack \in {"deployed", "failed", "pending"}
                THEN "destroying" ELSE stack
  /\ request' = "project"
  /\ UNCHANGED <<status, scope, infra, taskVars, lock, chainVars, audit,
                 sweepVars, lossVars>>

Clean(st, m) == st[m] \in NO_INFRA_STATUSES
Leaf(st, m) == ~Clean(st, m) /\ \A x \in Dependents(m) : Clean(st, x)

(* Mutant of Adopts: any task that is under way. *)
AdoptsAny(st, i) == task[i].st \in NonTerminal /\ task[i].module \in Rows

(* The task of a leaf, queued or running by now, may join the project's run. *)
Adopts(st, i) ==
  /\ task[i].st \in NonTerminal /\ task[i].module \in Rows
  /\ Leaf(st, task[i].module)

(* _dispatch_first_destroy_wave: with force_destroy the in-cluster modules
   count as destroyed first. A leaf that has tasks by now keeps them, and the
   first that the query finds is adopted into the run. A broker error rolls
   everything back. *)
ProjectWave ==
  LET Forced == [m \in Modules |->
                   IF m \in Rows \cap InCluster /\ ~Clean(status, m)
                     THEN "destroyed" ELSE status[m]]
      Firsts(st) ==
        LET found == {i \in TaskIds : Adopts(st, i)}
        IN  {first \in SUBSET found :
               \A i \in found : Cardinality(first \cap TasksOf(ModuleOf(i))) = 1}
      Adopted(first) ==
        [i \in TaskIds |->
           IF i \in first THEN [task[i] EXCEPT !.scope = "project"] ELSE task[i]]
  IN  /\ request = "project"
      /\ request' = "none"
      /\ \/ \E st \in {status, Forced} :
              LET wave == {m \in Rows : Leaf(st, m) /\ ~Active(m)}
              IN  /\ \E early \in SUBSET wave, first \in Firsts(st) :
                       Queue(Adopted(first), wave, "project", early, {})
                  /\ status' = [m \in Modules |->
                                  IF m \in wave THEN "destroying" ELSE st[m]]
         \/ /\ Fault
            /\ UNCHANGED <<taskVars, status>>
      /\ UNCHANGED <<stack, scope, infra, lock, chainVars, audit, requests,
                     sweepVars, ghosts, cancels, interrupted>>

(* submit_destroy: row and status are committed before the message is sent. *)
DestroyModule(m) ==
  /\ Accept("module")
  /\ status[m] \in {"applied", "initialized", "apply_failed", "destroy_failed"}
  /\ \/ Queue(task, {m}, "module", {}, {}) /\ audit' = audit \cup {m}
     \/ Queue(task, {m}, "module", {}, {m}) /\ UNCHANGED audit
  /\ status' = Destroying({m})
  /\ UNCHANGED <<stack, scope, infra, lock, chainVars, request, sweepVars,
                 ghosts, cancels, interrupted>>

(* Its trailing transition_module_status: refused from destroyed, and a
   second write of "destroying" if the task has come to an end meanwhile. *)
Audit(m) ==
  /\ m \in audit
  /\ audit' = audit \ {m}
  /\ status' = IF m \in Rows /\ ~Refused(m) THEN Destroying({m}) ELSE status
  /\ UNCHANGED <<stack, scope, infra, taskVars, lock, chainVars, request,
                 requests, sweepVars, lossVars>>

-----------------------------------------------------------------------------
(* Cancellation. A revoke kills the worker or drops the message of every task
   of "hit"; a task it does not reach goes on. *)
Revoke(hit) ==
  /\ cancels < MaxCancels
  /\ cancels' = cancels + 1
  /\ worker' = [i \in TaskIds |-> IF i \in hit THEN "none" ELSE worker[i]]
  /\ todo' = [a \in Actors |-> IF a \in hit THEN {} ELSE todo[a]]
  /\ pick' = [a \in Actors |-> IF a \in hit THEN NoModule ELSE pick[a]]
  /\ ghosts' = ghosts \cup {i \in hit : worker[i] \in AtWork}

Unlocked(hit) ==
  [m \in Modules |-> IF {lock[m], -lock[m]} \cap hit # {} THEN 0 ELSE lock[m]]

(* cancel_task: "destroying" becomes "initialized". The lock service it would
   call does not exist; the lock of a killed worker runs out. *)
CancelTask(i) ==
  LET m == ModuleOf(i)
  IN  /\ task[i].st \in NonTerminal
      /\ SetTask(i, "cancelled")
      /\ \E hit \in SUBSET {i} : Revoke(hit) /\ lock' = Unlocked(hit)
      /\ status' = IF status[m] = "destroying"
                     THEN [status EXCEPT ![m] = "initialized"] ELSE status
      /\ interrupted' = interrupted \cup {m}
      /\ UNCHANGED <<stack, scope, infra, nextId, userVars, sweepVars,
                     faults>>

(* cancel_operation: "destroying" becomes "applied". The module lock is freed
   if the container is known to be dead, even when the worker is not. *)
CancelOperation(m) ==
  LET active == {i \in TasksOf(m) : task[i].st \in NonTerminal}
  IN  /\ status[m] = "destroying" \/ (m \in Rows /\ active # {})
      /\ \/ \E hit \in SUBSET {i \in active : worker[i] # "none"} :
              /\ Revoke(hit)
              /\ \/ lock' = Unlocked(hit)
                 \/ lock' = [Unlocked(hit) EXCEPT
                               ![m] = IF @ > 0 THEN -@ ELSE @]
              /\ task' = [i \in TaskIds |->
                            IF i \in active
                              THEN [task[i] EXCEPT !.st = "cancelled"]
                              ELSE task[i]]
         \/ /\ \A i \in active : worker[i] = "none"
            /\ Revoke({})
            /\ UNCHANGED <<lock, task>>
      /\ status' = IF status[m] = "destroying"
                     THEN [status EXCEPT ![m] = "applied"] ELSE status
      /\ interrupted' = interrupted \cup {m}
      /\ UNCHANGED <<stack, scope, infra, nextId, userVars, sweepVars,
                     faults>>

-----------------------------------------------------------------------------
(* reset_stale_executions. A pass that would find nothing is left out. *)
Busy == request # "none" \/ \E i \in TaskIds : worker[i] # "none"

(* get_live_task_ids: empty when Redis cannot be read. *)
JanitorBegin ==
  /\ janitor.pc = "idle"
  /\ stack = "destroying" \/ \E i \in TaskIds : task[i].st \in NonTerminal
  /\ IF Busy THEN sweeps < MaxSweeps /\ sweeps' = sweeps + 1
     ELSE UNCHANGED sweeps
  /\ \/ janitor' = [AtRest EXCEPT !.pc = "tasks", !.live = Live]
        /\ UNCHANGED faults
     \/ janitor' = [AtRest EXCEPT !.pc = "tasks"] /\ Fault
  /\ UNCHANGED <<rowVars, infra, taskVars, lock, chainVars, userVars, ghosts,
                 cancels, interrupted>>

(* reset_stale_tasks reads the tasks that are not known to run, queued ones
   too, and their modules. What it makes of them is committed later. *)
JanitorTasks ==
  LET stale == {i \in TaskIds : task[i].st \in NonTerminal} \ janitor.live
      mods  == {ModuleOf(i) : i \in stale} \cap Rows
  IN  /\ janitor.pc = "tasks"
      /\ janitor' = [janitor EXCEPT !.pc = "redrive", !.stale = stale,
                        !.redrive = mods,
                        !.stuck = {m \in mods : status[m] = "destroying"}]
      /\ UNCHANGED <<rowVars, infra, taskVars, lock, chainVars, userVars,
                     sweeps, lossVars>>

(* The stale tasks have failed, whatever has become of them since. *)
FailStale ==
  task' = [i \in TaskIds |-> IF i \in janitor.stale
                                THEN [task[i] EXCEPT !.st = "failed"]
                                ELSE task[i]]

(* It fails each of their modules and runs the trigger hook for it. The first
   commit takes the tasks with it and goes by the status read before; later
   ones read it again. A row that is gone by now ends the pass with an
   exception, which rolls back what is not committed. *)
JanitorRedrive(m) ==
  LET stuck == IF janitor.stale # {} THEN m \in janitor.stuck
               ELSE status[m] = "destroying"
  IN  /\ janitor.pc = "redrive"
      /\ m \in janitor.redrive
      /\ IF m \in Rows
           THEN /\ status' = IF stuck
                               THEN [status EXCEPT ![m] = "destroy_failed"]
                               ELSE status
                /\ FailStale
                /\ janitor' = [janitor EXCEPT !.pc = "trigger", !.mod = m,
                                  !.redrive = @ \ {m},
                                  !.stale = {}, !.stuck = {}]
                /\ todo' = [todo EXCEPT ![Janitor] =
                              IF task[LastTask(m)].scope = "module" THEN {}
                              ELSE Deps[m]]
           ELSE /\ janitor' = AtRest
                /\ IF stuck THEN UNCHANGED task ELSE FailStale
                /\ UNCHANGED <<status, todo>>
      /\ UNCHANGED <<stack, scope, infra, nextId, worker, lock, pick,
                     userVars, sweeps, lossVars>>

(* The row was deleted inside the hook, which catches the exception. *)
JanitorVanished ==
  /\ janitor.pc = "trigger"
  /\ janitor.mod \notin Rows
  /\ janitor' = [janitor EXCEPT !.pc = "redrive", !.mod = NoModule]
  /\ todo' = [todo EXCEPT ![Janitor] = {}]
  /\ pick' = [pick EXCEPT ![Janitor] = NoModule]
  /\ UNCHANGED <<rowVars, infra, taskVars, lock, userVars, sweeps, lossVars>>

(* Mutant of JanitorStacks: waits for Redis to list no task at all. *)
JanitorStacksNoneLive ==
  /\ janitor.pc = "redrive"
  /\ janitor.redrive = {}
  /\ stack' = IF stack = "destroying" /\ janitor.live = {} THEN "failed"
              ELSE stack
  /\ FailStale
  /\ janitor' = AtRest
  /\ UNCHANGED <<status, scope, infra, nextId, worker, lock, chainVars,
                 userVars, sweeps, lossVars>>

(* reset_stale_destroys: no task of the stack's scope is known to run. *)
JanitorStacks ==
  /\ janitor.pc = "redrive"
  /\ janitor.redrive = {}
  /\ stack' = IF /\ stack = "destroying"
                 /\ \A i \in janitor.live :
                      ~ (task[i].st \in NonTerminal /\ ModuleOf(i) \in scope)
                THEN "failed" ELSE stack
  /\ FailStale
  /\ janitor' = AtRest
  /\ UNCHANGED <<status, scope, infra, nextId, worker, lock, chainVars,
                 userVars, sweeps, lossVars>>

-----------------------------------------------------------------------------
Worker(i) ==
  \/ Start(i) \/ StartEarly(i) \/ Acquire(i) \/ LockTimeout(i) \/ Raised(i)
  \/ DestroyOk(i) \/ DestroyFail(i) \/ InitFail(i) \/ Exception(i)
  \/ UpdateStack(i) \/ RowVanished(i)

Hook(a) ==
  \/ \E d \in Modules : TriggerRead(a, d)
  \/ TriggerCommit(a) \/ TriggerError(a) \/ Detect(a)

JanitorPass ==
  \/ JanitorBegin \/ JanitorTasks \/ JanitorVanished \/ JanitorStacks
  \/ \E m \in Modules : JanitorRedrive(m)

User ==
  \/ DestroyStack \/ StackWave \/ DestroyAll \/ ProjectWave \/ PollStack
  \/ \E m \in Modules : DestroyModule(m) \/ Audit(m) \/ CancelOperation(m)
  \/ \E i \in TaskIds : CancelTask(i)

Next ==
  \/ \E i \in TaskIds : Worker(i) \/ Crash(i)
  \/ \E a \in Actors : Hook(a)
  \/ JanitorPass
  \/ User

Spec == Init /\ [][Next]_vars

(* Workers are kept running, an accepted request runs to its end, and the
   janitor is a periodic job. Crashes, broker errors and users are not fair. *)
Fairness ==
  /\ \A i \in TaskIds : WF_vars(Worker(i))
  /\ \A a \in Actors : WF_vars(Hook(a))
  /\ WF_vars(JanitorPass)
  /\ WF_vars(StackWave \/ ProjectWave)

FairSpec == Spec /\ Fairness

-----------------------------------------------------------------------------
TaskRows == [module : Modules \cup {NoModule}, scope : Scopes, st : TaskStatuses]
PCs == {"none", "sent", "early"} \cup AtWork
Passes == [pc : {"idle", "tasks", "redrive", "trigger"},
           live : SUBSET TaskIds, stale : SUBSET TaskIds,
           stuck : SUBSET Modules, redrive : SUBSET Modules,
           mod : Modules \cup {NoModule}]

(* Type correctness: every row keeps a status of its own enumeration (in
   particular BUG-009 writes only module statuses), every actor a known pc. *)
TypeOK ==
  /\ status \in [Modules -> Statuses]
  /\ infra \in [Modules -> BOOLEAN]
  /\ stack \in StackStatuses
  /\ scope \in SUBSET Modules
  /\ task \in [TaskIds -> TaskRows]
  /\ nextId \in 1 .. MaxTasks + 1
  /\ worker \in [TaskIds -> PCs]
  /\ lock \in [Modules -> -MaxTasks .. MaxTasks]
  /\ todo \in [Actors -> SUBSET Modules]
  /\ pick \in [Actors -> Modules \cup {NoModule}]
  /\ request \in {"none", "stack", "project"}
  /\ audit \in SUBSET Modules
  /\ janitor \in Passes
  /\ ghosts \in SUBSET TaskIds
  /\ requests \in 0 .. MaxRequests
  /\ faults \in 0 .. MaxFaults
  /\ cancels \in 0 .. MaxCancels
  /\ sweeps \in 0 .. MaxSweeps
  /\ interrupted \in SUBSET Modules

(* In-cluster modules go down with their cluster. *)
Excused == interrupted \cup InCluster

(* No module is written off while its resources exist: not by a status that
   counts as "already destroyed" (BUG-009 recovery, the reconcile of
   _run_terminal_detection_project), not by deleting its row (destroy_stack,
   _finalize_destroy), not by a stack that reports to be destroyed.
   In-cluster modules, which die with their cluster, and modules whose destroy
   was cancelled are the exceptions. *)
InfraAccounted ==
  \A m \in Modules \ Excused :
    infra[m] => /\ status[m] \notin NO_INFRA_STATUSES \cup {"gone"}
                /\ stack \notin {"destroyed", "gone"}

(* A teardown goes down the graph: a stack or project run works on a module
   only when no module that depends on it has resources left (the first waves
   and the barrier of _trigger_next_destroy_module), whatever failed, crashed,
   was redelivered, cancelled or re-driven before. *)
TeardownOrder ==
  \A i \in TaskIds : worker[i] = "body" /\ task[i].scope # "module" =>
    \A m \in Modules \ Excused : ModuleOf(i) \in Deps[m] => ~infra[m]

(* A stack that is being destroyed gets to a result: by the chain's terminal
   detection, by update_stack_progress, or by reset_stale_destroys when workers
   died, messages were lost or the chain broke off. *)
StackSettles == stack = "destroying" ~> stack # "destroying"

-----------------------------------------------------------------------------
(* The inductive invariants. *)

(* No module that depends on d has resources left. *)
Clear(d) == \A m \in Modules \ Excused : d \in Deps[m] => ~infra[m]

(* Tasks are numbered in the order of their creation, a message has a row, and
   only single-module requests bring forth single-module tasks.
   What the recoveries make of a task is true: the module of a completed one
   has no resources, that of a cancelled one is excused. The task of a stack or
   project run is created, or adopted, when its turn has come. *)
RowInv ==
  /\ \A i \in TaskIds : i >= nextId => task[i].st = "none"
  /\ \A i \in TaskIds : task[i].st = "none" <=> task[i].module = NoModule
  /\ \A i \in TaskIds : worker[i] # "none" => task[i].st # "none"
  /\ \A i \in TaskIds : task[i].st # "none" /\ task[i].scope = "module" =>
       "module" \in Requests
OutcomeInv ==
  \A i \in TaskIds :
    /\ task[i].st = "completed" /\ infra[task[i].module] =>
         task[i].module \in Excused
    /\ task[i].st = "cancelled" => task[i].module \in interrupted
TurnInv ==
  /\ \A i \in TaskIds : task[i].st # "none" /\ task[i].scope # "module" =>
       Clear(task[i].module)
  /\ \A a \in Actors : pick[a] # NoModule => Clear(pick[a])

(* The stack never loses sight of a module that has resources. *)
ScopeInv == \A m \in Modules \ Excused : infra[m] => m \in scope

(* What the janitor looks at had a task. *)
JanitorInv ==
  /\ \A i \in janitor.stale : task[i].st # "none"
  /\ \A m \in janitor.redrive : TasksOf(m) # {}
  /\ janitor.pc = "trigger" => janitor.mod \in Modules /\ TasksOf(janitor.mod) # {}

(* What every step of workers, hooks, requests, cancellations and janitor has
   to keep so that InfraAccounted and TeardownOrder are never at risk: the rows
   tell the truth about the resources, each task of a run had its turn when it
   was created, and the stack still lists what is left to destroy. *)
DestroyInv ==
  /\ TypeOK /\ RowInv /\ OutcomeInv /\ TurnInv /\ ScopeInv /\ JanitorInv
  /\ InfraAccounted

-----------------------------------------------------------------------------
(* The abstract teardown. Tasks out of turn exist only where users ask for
   single modules. *)
Abstract == INSTANCE Teardown WITH
  Singly  <- (IF "module" \in Requests THEN Modules ELSE {}),
  left    <- {m \in Modules : infra[m]},
  excused <- Excused,
  off     <- {m \in Modules : status[m] \in NO_INFRA_STATUSES \cup {"gone"}},
  closed  <- (stack \in {"destroyed", "gone"})

(* Workers, hooks, requests, cancellations, polls and the janitor together
   implement Teardown: resources go in dependency order, and what rows and
   stack report as gone is gone. *)
ImplementsTeardown == Abstract!Spec

-----------------------------------------------------------------------------
(* What the repository says and the code does not do: it is violated. *)

(* parallel_tasks.py: NO_INFRA_STATUSES "indicate no infrastructure exists". *)
NoInfraTruthful ==
  \A m \in Modules : status[m] \in NO_INFRA_STATUSES => ~infra[m]
=============================================================================
