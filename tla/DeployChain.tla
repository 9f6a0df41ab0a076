------------------------------ MODULE DeployChain ------------------------------
(***************************************************************************)
(* The deploy event chain of a project without stacks: deploy-all queues   *)
(* every module whose dependencies are applied, and each apply that        *)
(* succeeds runs the same dispatcher again from its worker                 *)
(* (parallel_execution_service._dispatch_first_wave, called by the route   *)
(* and by _tofu_helpers._trigger_next_project_module). A module that is    *)
(* not initialized gets an init task first, which queues the apply itself. *)
(*                                                                         *)
(* A dispatcher is a database session: 0 is the API's, k is the session of *)
(* the worker that runs task k. It sends messages first; its rows become   *)
(* visible to others only when it commits, which the worker's session does *)
(* when it releases the module lock. The tasks are those of the OpenTofu   *)
(* engine; all modules are enabled and numbered in deployment_order.       *)
(***************************************************************************)
EXTENDS Integers, FiniteSets

CONSTANTS
  Modules,     \* project modules
  Deps,        \* Deps[m]: the modules that m depends on
  Start,       \* Start: the statuses that the modules may have at first
  MaxTasks,    \* bound: task rows ever created
  MaxFaults,   \* bound: deaths, broker errors, slow commits
  Singles,     \* modules that users also edit and deploy one by one
  MaxRequests  \* bound: requests of users

ASSUME DeployAssumption ==
  /\ Modules \subseteq Nat \ {0} /\ Modules # {} /\ IsFiniteSet(Modules)
  /\ Deps \in [Modules -> SUBSET Modules]
  /\ Singles \subseteq Modules
  /\ MaxTasks \in Nat /\ MaxFaults \in Nat /\ MaxRequests \in Nat

TaskIds == 1 .. MaxTasks
Sessions == 0 .. MaxTasks
API == 0

InitOutcomes == {"initializing", "initialized", "init_failed"}
ApplyOutcomes == {"applying", "applied", "apply_failed"}
Statuses == InitOutcomes \cup ApplyOutcomes
            \cup {"not_initialized", "plan_failed", "destroyed", "destroy_failed"}
Transitional == {"initializing", "applying"}
(* What a module is in before its apply is queued. *)
Waiting == {"not_initialized", "initialized", "destroyed"}
(* What a module is in whose infrastructure exists. *)
Existing == {"applied", "destroy_failed"}

(* A project between two operations: nothing is in progress, a module that *)
(* exists stands on modules that exist (modules are applied in the order   *)
(* of their dependencies and destroyed against it), and none waits whose   *)
(* dependencies are applied already: only an apply starts the hook.        *)
ASSUME StartAssumption ==
  /\ Start \subseteq [Modules -> Statuses \ Transitional]
  /\ \A s \in Start : \A m \in Modules :
       /\ s[m] \in Existing => \A d \in Deps[m] : s[d] \in Existing
       /\ Deps[m] # {} /\ (\A d \in Deps[m] : s[d] = "applied")
            => s[m] \notin Waiting

VARIABLES
  status,   \* status[m]: project_modules.status as committed
  changed,  \* modules with vars_changed
  built,    \* modules whose apply has created infrastructure
  task,     \* task[k]: row and message of a task
  nextTask, \* the next row
  lock,     \* lock[m]: the task that holds the module lock, 0 for none
  disp,     \* disp[d]: the dispatcher's loop in session d
  marks,    \* status writes that single-module requests still have to make
  faults,   \* faults so far
  requests, \* requests so far
  lost      \* a message, a row or an end of the chain was lost

bounds == <<faults, requests>>
vars == <<status, changed, built, task, nextTask, lock, disp, marks, bounds, lost>>

NoTask == [mod |-> CHOOSE m \in Modules : TRUE, kind |-> "init",
           row |-> "none", pc |-> "none", seen |-> "none"]
Idle == [pc |-> "idle", todo |-> {}, pend |-> {}]
(* Where a worker executes the task. *)
Running == {"checked", "locked", "auto", "hook"}
Open == {"queued", "in_progress"}

Rows == Open \cup {"none", "unseen", "completed", "failed"}
PCs == Running \cup {"none", "sent", "over"}
TaskRecords == [mod : Modules, kind : {"init", "init_only", "apply"},
                row : Rows, pc : PCs,
                seen : Statuses \cup {"none"}]
Dispatchers == [pc : {"idle", "loop"},
                todo : SUBSET (Modules \X {"init", "apply"}),
                pend : SUBSET TaskIds]

TypeOK ==
  /\ status \in [Modules -> Statuses]
  /\ changed \subseteq Modules /\ built \subseteq Modules
  /\ task \in [TaskIds -> TaskRecords]
  /\ nextTask \in 1 .. MaxTasks + 1
  /\ lock \in [Modules -> Sessions]
  /\ disp \in [Sessions -> Dispatchers]
  /\ faults \in 0 .. MaxFaults /\ requests \in 0 .. MaxRequests
  /\ marks \subseteq [task : TaskIds, to : Transitional, blind : BOOLEAN]
  /\ lost \in BOOLEAN

Init ==
  /\ status \in Start
  /\ changed = {}
  /\ built = {m \in Modules : status[m] \in Existing}
  /\ task = [k \in TaskIds |-> NoTask]
  /\ nextTask = 1
  /\ lock = [m \in Modules |-> 0]
  /\ disp = [d \in Sessions |-> Idle]
  /\ faults = 0 /\ requests = 0
  /\ marks = {} /\ lost = FALSE
-------------------------------------------------------------------------------
Fault == faults < MaxFaults /\ faults' = faults + 1

(* module_state.ALLOWED_TRANSITIONS, for the statuses of this module.      *)
Legal(from, to) ==
  \/ from = to
  \/ from \in {"not_initialized", "initialized", "init_failed", "plan_failed",
               "apply_failed", "destroyed"} /\ to \in InitOutcomes
  \/ from = "initializing" /\ to \in {"initialized", "init_failed"}
  \/ from \in {"initialized", "applied", "init_failed", "plan_failed",
               "apply_failed"} /\ to \in ApplyOutcomes \cup {"plan_failed"}
  \/ from = "applying"
     /\ to \in {"applied", "apply_failed", "init_failed", "plan_failed"}

(* Mutant: a dependency that is being applied counts. *)
DepsStarted(m) == \A d \in Deps[m] : status[d] \in {"applying", "applied"}

(* can_execute: all dependencies are applied; their outputs, which it also *)
(* asks for, are written with that status.                                 *)
DepsApplied(m) == \A d \in Deps[m] : status[d] = "applied"

OpenRows(m) == {k \in TaskIds : task[k].mod = m /\ task[k].row \in Open}

(* A row of kind for module m, and its message. *)
NewTask(m, kind, row) ==
  [mod |-> m, kind |-> kind, row |-> row, pc |-> "sent",
   seen |-> "none"]

Row(k, row, pc) == task' = [task EXCEPT ![k].row = row, ![k].pc = pc,
                                        ![k].seen = "none"]
SetStatus(m, to) == status' = [status EXCEPT ![m] = to]
Unlock(m) == lock' = [lock EXCEPT ![m] = 0]
-------------------------------------------------------------------------------
(***************************************************************************)
(* _dispatch_first_wave in session d.                                      *)
(***************************************************************************)
(* The query for the project's modules: those that are not applied, or     *)
(* whose variables have changed, and whose dependencies are applied. A     *)
(* failed module is one of them.                                           *)
Candidates ==
  {<<m, IF status[m] = "not_initialized" THEN "init" ELSE "apply">> :
     m \in {m \in Modules : /\ status[m] # "applied" \/ m \in changed
                            /\ \A d \in Deps[m] : status[d] = "applied"}}

Loop(d) ==
  disp' = [disp EXCEPT ![d] = [pc |-> "loop", todo |-> Candidates, pend |-> {}]]

(* The next module in deployment_order. *)
First(d) == CHOOSE x \in disp[d].todo : \A y \in disp[d].todo : x[1] <= y[1]
At(d) == disp[d].pc = "loop" /\ disp[d].todo # {}

(* It has a task in flight. Rows that other sessions have not committed do *)
(* not show.                                                               *)
Skip(d) ==
  /\ At(d) /\ OpenRows(First(d)[1]) # {}
  /\ disp' = [disp EXCEPT ![d].todo = @ \ {First(d)}]
  /\ UNCHANGED <<status, changed, built, task, nextTask, lock, marks, bounds, lost>>

(* The row is flushed and the message sent. The module is transitional in  *)
(* this session from here on, so its dependents are no longer ready.       *)
Send(d) ==
  LET m == First(d)[1] IN
  /\ At(d) /\ OpenRows(m) = {}
  /\ nextTask <= MaxTasks /\ nextTask' = nextTask + 1
  /\ task' = [task EXCEPT ![nextTask] = NewTask(m, First(d)[2], "unseen")]
  /\ disp' = [disp EXCEPT ![d].pend = @ \cup {nextTask},
                          ![d].todo = {x \in @ : x[1] # m /\ m \notin Deps[x[1]]}]
  /\ UNCHANGED <<status, changed, built, lock, marks, bounds, lost>>

(* The broker refuses the message. A worker's hook logs the exception and  *)
(* goes on to its commit, with the row; the route rolls everything back,   *)
(* except the messages that it has sent.                                   *)
SendFails(d) ==
  LET m == First(d)[1]
      new == [NewTask(m, First(d)[2], "unseen") EXCEPT !.pc = "over"] IN
  /\ At(d) /\ OpenRows(m) = {} /\ Fault
  /\ lost' = TRUE
  /\ \/ /\ d # API /\ nextTask <= MaxTasks
        /\ task' = [task EXCEPT ![nextTask] = new]
        /\ nextTask' = nextTask + 1
        /\ disp' = [disp EXCEPT ![d].pend = @ \cup {nextTask}, ![d].todo = {}]
     \/ /\ d = API
        /\ task' = [k \in TaskIds |-> IF k \in disp[d].pend
                                      THEN [task[k] EXCEPT !.row = "none"]
                                      ELSE task[k]]
        /\ disp' = [disp EXCEPT ![d] = Idle]
        /\ UNCHANGED nextTask
  /\ UNCHANGED <<status, changed, built, lock, marks, requests>>

(* The commit: the rows appear, and with them the statuses that the loop   *)
(* assigned, whatever has been written since. For a worker it is the one   *)
(* that releases the module lock.                                          *)
Commit(d) ==
  LET pend == disp[d].pend
      sent(m) == {k \in pend : task[k].mod = m /\ task[k].pc # "over"} IN
  /\ disp[d].pc = "loop" /\ disp[d].todo = {}
  /\ status' = [m \in Modules |->
                  IF sent(m) = {} THEN status[m]
                  ELSE IF \E k \in sent(m) : task[k].kind = "init"
                  THEN "initializing" ELSE "applying"]
  /\ task' = [k \in TaskIds |->
                IF k \in pend THEN [task[k] EXCEPT !.row = "queued"]
                ELSE IF k = d THEN [task[k] EXCEPT !.pc = "over"] ELSE task[k]]
  /\ lock' = [m \in Modules |->
                IF d # API /\ lock[m] = d THEN 0 ELSE lock[m]]
  /\ disp' = [disp EXCEPT ![d] = Idle]
  /\ UNCHANGED <<changed, built, nextTask, marks, bounds, lost>>
-------------------------------------------------------------------------------
(***************************************************************************)
(* Requests.                                                               *)
(***************************************************************************)
Request == requests < MaxRequests /\ requests' = requests + 1

(* validate_project_ready: no module is in progress. *)
Ready == \A m \in Modules : status[m] \notin Transitional

(* POST deploy-all: refused while a task of the project is in flight. *)
DeployAll ==
  /\ disp[API].pc = "idle" /\ Request
  /\ (\A m \in Modules : OpenRows(m) = {}) /\ Ready
  /\ Loop(API)
  /\ UNCHANGED <<status, changed, built, task, nextTask, lock, marks, faults,
                 lost>>

(* create_task commits the row of one module's task and the message is     *)
(* sent; the status write follows. It is blind when the request decided on *)
(* it before, and a transition from whatever it then finds when it is only *)
(* meant for the audit log.                                                *)
Submit(m, kind, follow) ==
  /\ Request
  /\ nextTask <= MaxTasks /\ nextTask' = nextTask + 1
  /\ task' = [task EXCEPT ![nextTask] = NewTask(m, kind, "queued")]
  /\ marks' = marks \cup follow
  /\ UNCHANGED <<changed, built, lock, disp, faults, lost>>

(* Mutant: the request announces a plan. *)
FollowPlanning(kind, blind) ==
  [task |-> nextTask, to |-> IF kind = "apply" THEN "planning" ELSE "initializing",
   blind |-> blind]

Follow(kind, blind) ==
  [task |-> nextTask, to |-> IF kind = "apply" THEN "applying" ELSE "initializing",
   blind |-> blind]

(* deploy_module and retry_deployment ask for the transition after the     *)
(* message is sent: when it is illegal the caller gets an error, but the   *)
(* task is on its way.                                                     *)
Deploy(m) ==
  LET kind == IF status[m] = "not_initialized" THEN "init" ELSE "apply"
      write == Follow(kind, TRUE) IN
  /\ status[m] \notin Transitional
  /\ Submit(m, kind, IF Legal(status[m], write.to) THEN {write} ELSE {})
  /\ UNCHANGED status

Retry(m) ==
  LET kind == IF status[m] = "init_failed" THEN "init_only" ELSE "apply"
      write == Follow(kind, TRUE) IN
  /\ status[m] \in {"init_failed", "apply_failed", "destroy_failed"}
  /\ Submit(m, kind, IF Legal(status[m], write.to) THEN {write} ELSE {})
  /\ UNCHANGED status

(* submit_init and submit_apply commit the status before the message. *)
SubmitInit(m) ==
  /\ Submit(m, "init_only", {Follow("init_only", FALSE)})
  /\ status' = [status EXCEPT ![m] = "initializing"]

SubmitApply(m) ==
  /\ DepsApplied(m)
  /\ Submit(m, "apply", {Follow("apply", FALSE)})
  /\ status' = [status EXCEPT ![m] = "applying"]

(* The status write of a single-module request. When its task has ended in *)
(* the meantime, nothing will move the module on.                          *)
Mark(w) ==
  LET m == task[w.task].mod IN
  /\ w \in marks
  /\ marks' = marks \ {w}
  /\ status' = [status EXCEPT ![m] = IF w.blind \/ Legal(@, w.to) THEN w.to ELSE @]
  /\ lost' = (lost \/ task[w.task].row \notin Open)
  /\ UNCHANGED <<changed, built, task, nextTask, lock, disp, bounds>>

(* A module's variables are edited. *)
Edit(m) ==
  /\ Request
  /\ changed' = changed \cup {m}
  /\ UNCHANGED <<status, built, task, nextTask, lock, disp, marks, faults, lost>>
-------------------------------------------------------------------------------
(***************************************************************************)
(* The worker of task k.                                                   *)
(***************************************************************************)
(* The five look-ups find no row: it was rolled back, or the commit takes  *)
(* longer than they do. The message is gone; a row that appears later      *)
(* stays queued.                                                           *)
NotFound(k) ==
  /\ task[k].pc = "sent" /\ task[k].row \in {"none", "unseen"}
  /\ IF task[k].row = "unseen" THEN Fault ELSE UNCHANGED faults
  /\ task' = [task EXCEPT ![k].pc = "over"]
  /\ lost' = TRUE
  /\ UNCHANGED <<status, changed, built, nextTask, lock, disp, marks, requests>>

(* fetch_task_or_raise finds the row. An apply checks its dependencies     *)
(* before it asks for the lock; when one is missing, the exception handler *)
(* marks the module without a lock.                                        *)
Begin(k) ==
  LET m == task[k].mod IN
  /\ task[k].pc = "sent" /\ task[k].row \notin {"none", "unseen"}
  /\ \/ /\ task[k].kind # "apply" \/ DepsApplied(m)
        /\ Row(k, "in_progress", "checked") /\ UNCHANGED status
     \/ /\ task[k].kind = "apply" /\ ~DepsApplied(m)
        /\ Row(k, "failed", "over") /\ SetStatus(m, "apply_failed")
  /\ UNCHANGED <<changed, built, nextTask, lock, disp, marks, bounds, lost>>

(* The module row is read again under the lock, and not until the end. *)
Acquire(k) ==
  LET m == task[k].mod IN
  /\ task[k].pc = "checked" /\ lock[m] = 0
  /\ lock' = [lock EXCEPT ![m] = k]
  /\ task' = [task EXCEPT ![k].pc = "locked", ![k].seen = status[m]]
  /\ UNCHANGED <<status, changed, built, nextTask, disp, marks, bounds, lost>>

(* ModuleLockError after 60 s behind an engine that is running: only the   *)
(* task row is marked.                                                     *)
LockTimeout(k) ==
  /\ task[k].pc = "checked"
  /\ \E h \in TaskIds : lock[task[k].mod] = h /\ task[h].pc = "locked"
  /\ Row(k, "failed", "over")
  /\ UNCHANGED <<status, changed, built, nextTask, lock, disp, marks, bounds, lost>>

(* Mutant: the handler marks the task only. *)
RaiseKeepsStatus(k) ==
  /\ Row(k, "failed", "over")
  /\ Unlock(task[k].mod)
  /\ UNCHANGED status

(* An illegal transition or the soft time limit raises: the lock is        *)
(* released on the way out, and the handler marks row and module without   *)
(* it.                                                                     *)
Raise(k) ==
  /\ Row(k, "failed", "over")
  /\ SetStatus(task[k].mod,
               IF task[k].kind = "apply" THEN "apply_failed" ELSE "init_failed")
  /\ Unlock(task[k].mod)

(* The body of run_opentofu_init ends with status to: a success is written *)
(* against the row as it is now, a failure against what was read at first. *)
InitEnds(k, to) ==
  LET m == task[k].mod
      from == IF to = "initialized" THEN status[m] ELSE task[k].seen IN
  /\ task[k].pc = "locked" /\ task[k].kind # "apply"
  /\ \/ ~Legal(from, to) /\ Raise(k)
     \/ /\ Legal(from, to) /\ to = "initialized"
        /\ SetStatus(m, to) /\ Row(k, "completed", "auto") /\ UNCHANGED lock
     \/ /\ Legal(from, to) /\ to = "init_failed"
        /\ SetStatus(m, to) /\ Row(k, "failed", "over") /\ Unlock(m)
  /\ UNCHANGED <<changed, built, nextTask, disp, marks, bounds, lost>>

(* auto_apply: with its dependencies applied, the module gets an apply     *)
(* task; its row is committed, the message is sent, and the status         *)
(* follows. Then the lock is released.                                     *)
AutoApply(k) ==
  LET m == task[k].mod
      chain == task[k].kind = "init" /\ DepsApplied(m) IN
  /\ task[k].pc = "auto"
  /\ \/ ~chain /\ Row(k, task[k].row, "over") /\ Unlock(m)
        /\ UNCHANGED <<status, nextTask>>
     \/ /\ chain /\ nextTask <= MaxTasks
        /\ nextTask' = nextTask + 1
        /\ task' = [task EXCEPT ![nextTask] = NewTask(m, "apply", "queued"),
                                ![k].pc = "over",
                                ![k].row = IF Legal(status[m], "applying")
                                           THEN @ ELSE "failed"]
        /\ SetStatus(m, IF Legal(status[m], "applying") THEN "applying"
                        ELSE "init_failed")
        /\ Unlock(m)
  /\ UNCHANGED <<changed, built, disp, marks, bounds, lost>>

(* The body of run_opentofu_apply ends with status to; its own init and    *)
(* plan may fail. A run that failed may have created resources or not.     *)
ApplyEnds(k, to) ==
  LET m == task[k].mod
      legal == Legal(task[k].seen, to) IN
  /\ task[k].pc = "locked" /\ task[k].kind = "apply"
  /\ built' \in CASE to = "applied" -> {built \cup {m}}
                  [] to = "apply_failed" -> {built, built \cup {m}}
                  [] OTHER -> {built}
  /\ \/ ~legal /\ Raise(k) /\ UNCHANGED changed
     \/ /\ legal /\ to = "applied"
        /\ SetStatus(m, to) /\ Row(k, "completed", "hook")
        /\ changed' = changed \ {m}
        /\ UNCHANGED lock
     \/ /\ legal /\ to # "applied"
        /\ SetStatus(m, to) /\ Row(k, "failed", "over") /\ Unlock(m)
        /\ UNCHANGED changed
  /\ UNCHANGED <<nextTask, disp, marks, bounds, lost>>

(* SoftTimeLimitExceeded, with the engine's work done or not. *)
TimeLimit(k) ==
  /\ task[k].pc = "locked" /\ task[k].kind = "apply" /\ Fault
  /\ Raise(k)
  /\ built' \in {built, built \cup {task[k].mod}}
  /\ UNCHANGED <<changed, nextTask, disp, marks, requests, lost>>

(* Mutant: only modules of a stack have a hook. *)
HookStacksOnly(k) ==
  /\ task[k].pc = "hook" /\ disp[k].pc = "idle"
  /\ disp' = [disp EXCEPT ![k] = [Idle EXCEPT !.pc = "loop"]]
  /\ UNCHANGED <<status, changed, built, task, nextTask, lock, marks, bounds, lost>>

(* _trigger_next_project_module, still under the lock: a module that is    *)
(* (still) applied starts the dispatcher in the worker's session.          *)
Hook(k) ==
  /\ task[k].pc = "hook" /\ disp[k].pc = "idle"
  /\ \/ status[task[k].mod] = "applied" /\ Loop(k)
     \/ /\ status[task[k].mod] # "applied"
        /\ disp' = [disp EXCEPT ![k] = [Idle EXCEPT !.pc = "loop"]]
  /\ UNCHANGED <<status, changed, built, task, nextTask, lock, marks, bounds, lost>>

(* The worker process is killed: the session is rolled back, the message   *)
(* is delivered again, and the lease expires while the next attempt waits. *)
Die(k) ==
  LET m == task[k].mod IN
  /\ task[k].pc \in Running /\ Fault
  /\ task' = [j \in TaskIds |->
                IF j = k THEN [task[j] EXCEPT !.pc = "sent", !.seen = "none"]
                ELSE IF j \in disp[k].pend THEN [task[j] EXCEPT !.row = "none"]
                ELSE task[j]]
  /\ disp' = [disp EXCEPT ![k] = Idle]
  /\ lock' = [lock EXCEPT ![m] = IF @ = k THEN 0 ELSE @]
  /\ UNCHANGED <<status, changed, built, nextTask, marks, requests, lost>>
-------------------------------------------------------------------------------
Work(k) ==
  \/ Begin(k) \/ Acquire(k)
  \/ \E to \in {"initialized", "init_failed"} : InitEnds(k, to)
  \/ \E to \in {"applied", "apply_failed", "plan_failed", "init_failed"} :
       ApplyEnds(k, to)
  \/ AutoApply(k) \/ Hook(k)

Dispatcher(d) == Skip(d) \/ Send(d) \/ Commit(d)

Next ==
  \/ \E d \in Sessions : Dispatcher(d) \/ SendFails(d)
  \/ DeployAll
  \/ \E m \in Singles :
       Deploy(m) \/ Retry(m) \/ SubmitInit(m) \/ SubmitApply(m) \/ Edit(m)
  \/ \E w \in marks : Mark(w)
  \/ \E k \in TaskIds :
       Work(k) \/ NotFound(k) \/ LockTimeout(k) \/ TimeLimit(k) \/ Die(k)

Spec == Init /\ [][Next]_vars
-------------------------------------------------------------------------------
(***************************************************************************)
(* Properties.                                                             *)
(***************************************************************************)
(* No module's infrastructure is created before that of the modules it     *)
(* depends on, however hooks, requests and redelivered tasks interleave.   *)
BuildOrder == \A m \in built : Deps[m] \subseteq built

Quiet ==
  /\ marks = {}
  /\ \A d \in Sessions : disp[d].pc = "idle"
  /\ \A k \in TaskIds : task[k].pc \in {"none", "over"}

(* When everything has come to its end and nothing was lost, no module is  *)
(* left in a transitional status, which would refuse deploy_module         *)
(* ("Module is already deploying") for ever.                               *)
SettledStatus ==
  Quiet /\ ~lost => \A m \in Modules : status[m] \notin Transitional

(* The wave does not stall after a layer ("only a manual deploy-all        *)
(* re-trigger advances it", which the hook is there to avoid): at the end, *)
(* no module waits although all its dependencies are applied, whichever    *)
(* session committed last, and also when it was initialized before they    *)
(* were ("the dependency-chain event picks it up"). A module that a user   *)
(* only wanted initialized may wait.                                       *)
ChainNotStalled ==
  Quiet /\ ~lost =>
    \A m \in Modules :
      /\ Deps[m] # {} /\ DepsApplied(m)
      /\ \A k \in TaskIds : task[k].mod = m => task[k].kind # "init_only"
      => status[m] \notin Waiting
-------------------------------------------------------------------------------
(***************************************************************************)
(* The inductive invariant.                                                *)
(***************************************************************************)
(* A worker has the message, or will get it, and its end writes the status. *)
InFlight(k) == task[k].pc \in {"sent", "checked", "locked"}

(* A task that has not been created yet. *)
FreshInv == \A k \in TaskIds : k >= nextTask => task[k] = NoTask

(* The tasks between acquisition and release hold the lock, no others. *)
Holding == {"locked", "auto", "hook"}

LockInv ==
  /\ \A m \in Modules :
       lock[m] # 0 => task[lock[m]].mod = m /\ task[lock[m]].pc \in Holding
  /\ \A k \in TaskIds : task[k].pc \in Holding => lock[task[k].mod] = k

(* The rows that a session has not committed yet are unseen, and its own;  *)
(* a worker's dispatcher runs in the hook of its task.                     *)
SessionInv ==
  /\ \A d \in Sessions :
       /\ disp[d].pc = "idle" => disp[d] = Idle
       /\ d # API /\ disp[d].pc = "loop" => task[d].pc = "hook"
       /\ \A k \in disp[d].pend :
            /\ task[k].row = "unseen"
            /\ task[k].pc = "sent" \/ (task[k].pc = "over" /\ lost)
            /\ task[k].kind # "init_only"
  /\ \A c, d \in Sessions : c # d => disp[c].pend \cap disp[d].pend = {}

RowInv ==
  /\ \A k \in TaskIds : task[k].row \in Open /\ ~lost => InFlight(k)
  /\ \A w \in marks : w.task < nextTask

BuiltInv ==
  /\ BuildOrder
  /\ \A m \in Modules : status[m] = "applied" => m \in built
  /\ \A k \in TaskIds :
       task[k].kind = "apply" /\ task[k].pc \in {"checked", "locked"}
         => Deps[task[k].mod] \subseteq built

(* A transitional status has a task that will end it. *)
SettleInv ==
  ~lost => \A m \in Modules : status[m] \in Transitional =>
             \E k \in TaskIds : InFlight(k) /\ task[k].mod = m

OnlyInit(m) == \E k \in TaskIds : task[k].mod = m /\ task[k].kind = "init_only"

(* Task k will end with the status of m, or the hook that will queue m. *)
MovesOn(k, m) ==
  \/ InFlight(k) /\ task[k].mod \in {m} \cup Deps[m]
  \/ task[k].pc = "auto" /\ task[k].kind = "init" /\ task[k].mod = m
  \/ /\ task[k].pc = "hook" /\ task[k].mod \in Deps[m]
     /\ disp[k].pc = "idle" \/ \E x \in disp[k].todo : x[1] = m

WaitInv ==
  ~lost => \A m \in Modules :
    Deps[m] # {} /\ DepsApplied(m) /\ ~OnlyInit(m) /\ status[m] \in Waiting
      => \E k \in TaskIds : MovesOn(k, m)

DeployInv ==
  TypeOK /\ FreshInv /\ LockInv /\ SessionInv /\ RowInv /\ BuiltInv /\ SettleInv
  /\ WaitInv
===============================================================================
